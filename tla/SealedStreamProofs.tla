-------------------------- MODULE SealedStreamProofs --------------------------
(***************************************************************************)
(* Proofs about SealedStream: whatever storage makes of an envelope or of  *)
(* a body, a consumer is handed a beginning of what was sealed, and is     *)
(* told that it has the whole of it only when it has, for any plaintext,   *)
(* any chunk and tag size, any pieces and any moment of an abort; and what *)
(* is sealed and opened in pieces is what the whole-buffer pair seals and  *)
(* opens.                                                                  *)
(***************************************************************************)
EXTENDS SealedStream, SequenceTheorems, WellFoundedInduction, TLAPS

(* The plaintext of a call has p after its first n bytes.                  *)
Slice(c, p, n) ==
  /\ p \in Seq(Range(c.plaintext)) /\ n + Len(p) <= Len(c.plaintext)
  /\ \A i \in 1..Len(p) : p[i] = c.plaintext[n + i]

(* The chunk a nonce stands for: a full one at its place, or all the rest. *)
At(j) == j * CHUNK_SIZE
Cuts(c, j, final, p) ==
  /\ j \in Nat /\ final \in BOOLEAN /\ Slice(c, p, At(j))
  /\ IF final THEN At(j) + Len(p) = Len(c.plaintext) ELSE Len(p) = CHUNK_SIZE

(* A byte of the body as it was sealed: of the commitment, or of a chunk   *)
(* that is cut from the plaintext where its nonce says.                    *)
OfChunk(c, b) ==
  /\ "of" \in DOMAIN b
  /\ LET n == b.of.nonce IN
     /\ b.of = [key |-> SealHeader(c).key, nonce |-> ChunkNonce(n.counter, n.final),
                plain |-> b.of.plain]
     /\ Cuts(c, n.counter, n.final, b.of.plain)
Genuine(c, b) == b \in Range(SealHeader(c).lead) \/ OfChunk(c, b)

Built == SealHeader(call)
Text0 == call.plaintext
Sealed == {"sealed", "fetched", "lookahead", "kdf", "open", "drained"}
Fetched == {"fetched", "lookahead", "kdf", "open"}

HeadInv ==
  stage \in Sealed \cup {"seal"} =>
    /\ ~Failed(Built)
    /\ header.built = Built.envelope
    /\ header.envelope \in {header.built} \cup HeaderAttacks(header.built)

BodyInv ==
  stage \in Sealed \cup {"seal"} =>
    /\ List(body) /\ \A i \in DOMAIN body : Genuine(call, body[i])
    /\ stage \in Sealed => body # << >>

HeldForm == held = [piece |-> held.piece, acc |-> held.acc, pending |-> held.pending,
                    ended |-> held.ended]

(* What the rechunker and the source hold is the rest of the plaintext.    *)
PendingEnd == At(index) + Len(held.pending)
AccEnd == PendingEnd + Len(held.acc)
PieceEnd == AccEnd + Len(held.piece)
CutInv ==
  stage = "seal" =>
    /\ key = Built.key /\ index \in Nat
    /\ HeldForm /\ held.ended \in BOOLEAN
    /\ Slice(call, held.pending, At(index)) /\ Slice(call, held.acc, PendingEnd)
    /\ Slice(call, held.piece, AccEnd) /\ Slice(call, source, PieceEnd)
    /\ PieceEnd + Len(source) = Len(Text0)
    /\ Len(held.pending) \in {0, CHUNK_SIZE} /\ Len(held.acc) < CHUNK_SIZE
    /\ held.ended => held.piece = << >> /\ source = << >>

(* What was fetched is made of the bytes that were sealed.                 *)
FetchInv ==
  stage \in Fetched =>
    /\ HeldForm
    /\ {held.pending, held.acc, held.piece, source} \subseteq Seq(Range(body))
    /\ stage = "fetched" => held = NothingHeld
    /\ stage = "kdf" => held.acc # << >>
    /\ stage = "open" => Len(held.acc) < SEALED_CHUNK_SIZE

(* What was opened is a beginning of the plaintext, and what opens it is   *)
(* an envelope nobody altered.                                             *)
OpenInv ==
  /\ Slice(call, opened, 0)
  /\ stage \in {"start", "seal", "sealed", "fetched", "lookahead", "kdf"} => opened = << >>
  /\ stage \in {"start", "fetched", "lookahead", "kdf"} => index = 0
  /\ stage \in {"lookahead", "kdf"} =>
       /\ call.path = "passphrase"
       /\ openInput(header.envelope, call.passphrase, call.hashes) = "ok"
  /\ stage = "open" => /\ index \in Nat /\ Len(opened) = At(index)
                       /\ key = Built.key => ~Altered
  /\ stage = "drained" => Len(opened) = Len(Text0)
  /\ stage = "drained" \/ opened # << >> => ~Altered

EndInv ==
  /\ stage # "ended" => outcome = "unsettled" /\ end = "none"
  /\ outcome = "matched" => end = "returned" /\ ~Altered /\ Len(opened) = Len(Text0)
  /\ stage = "ended" /\ blobSource = "open" => end \in {"rejected", "never driven"}

StreamInv ==
  /\ call \in StreamCalls
  /\ stage \in Sealed \cup {"start", "seal", "ended"}
  /\ stage = "start" => held = NothingHeld
  /\ HeadInv /\ BodyInv /\ CutInv /\ FetchInv /\ OpenInv /\ EndInv

-----------------------------------------------------------------------------
(* The acceptance of slots.                                                *)

LEMMA IsList ==
  ASSUME NEW s, NEW n \in Nat, s = [i \in 1..n |-> s[i]]
  PROVE  List(s) /\ Len(s) = n
<1>1. s \in [1..n -> Range(s)]
  BY DEF Range
<1>2. s \in Seq(Range(s))
  BY <1>1, SeqDef
<1> QED
  BY <1>2 DEF List

(* A set of naturals that is not empty has a least element.                *)
LEMMA Least ==
  ASSUME NEW T \in SUBSET Nat, T # {}
  PROVE  \E x \in T : \A y \in T : x <= y
<1> DEFINE R == {ss \in Nat \X Nat : ss[1] < ss[2]}
<1>1. IsWellFoundedOn(R, Nat)
  BY NatLessThanWellFounded DEF OpToRel
<1>2. \E x \in T : \A y \in T : ~ (<<y, x>> \in R)
  <2> HIDE DEF R
  <2> QED
    BY <1>1, WFMin
<1>3. PICK x \in T : \A y \in T : ~ (<<y, x>> \in R)
  BY <1>2
<1>4. ASSUME NEW y \in T PROVE x <= y
  <2>1. ~ (<<y, x>> \in R) /\ x \in Nat /\ y \in Nat
    BY <1>3
  <2> QED
    BY <2>1
<1> QED
  BY <1>4

LEMMA MinInSet ==
  ASSUME NEW T \in SUBSET Nat, T # {}
  PROVE  Min(T) \in T
BY Least DEF Min

Folded(st, n, accepted, ceks) ==
  st = [i \in 0..n |-> IF i = 0 THEN newSlotAcceptanceState
                       ELSE foldSlotAcceptance(st[i - 1], accepted[i], ceks[i], i)]

LEMMA FoldExists ==
  ASSUME NEW accepted, NEW ceks, NEW n \in Nat
  PROVE  \E st : Folded(st, n, accepted, ceks)
<1> DEFINE Missed == {k \in Nat : ~ \E st : Folded(st, k, accepted, ceks)}
<1>1. SUFFICES ASSUME Missed # {} PROVE FALSE
  OBVIOUS
<1>2. PICK m \in Missed : \A k \in Missed : m <= k
  BY <1>1, Least
<1>3. m # 0
  <2>1. Folded([i \in 0..0 |-> newSlotAcceptanceState], 0, accepted, ceks)
    BY DEF Folded
  <2> QED
    BY <2>1, <1>2
<1>4. PICK st : Folded(st, m - 1, accepted, ceks)
  BY <1>2, <1>3
<1> DEFINE next == [i \in 0..m |-> IF i = m
                      THEN foldSlotAcceptance(st[m - 1], accepted[m], ceks[m], m) ELSE st[i]]
<1>5. Folded(next, m, accepted, ceks)
  <2>1. ASSUME NEW i \in 0..m
        PROVE  next[i] = IF i = 0 THEN newSlotAcceptanceState
                         ELSE foldSlotAcceptance(next[i - 1], accepted[i], ceks[i], i)
    <3>1. CASE i = m
      BY <3>1, <1>3
    <3>2. CASE i # m
      <4>1. i \in 0..(m - 1) /\ next[i] = st[i] /\ (i # 0 => next[i - 1] = st[i - 1])
        BY <3>2, <1>2
      <4>2. st[i] = IF i = 0 THEN newSlotAcceptanceState
                    ELSE foldSlotAcceptance(st[i - 1], accepted[i], ceks[i], i)
        BY <4>1, <1>4 DEF Folded
      <4> QED
        BY <4>1, <4>2
    <3> QED
      BY <3>1, <3>2
  <2> HIDE DEF next
  <2> QED
    BY <2>1 DEF Folded, next
<1> QED
  BY <1>2, <1>5

(* One step of the fold.                                                   *)
LEMMA FoldStep ==
  ASSUME NEW state, NEW ok \in BOOLEAN, NEW cek, NEW i, state.found \in BOOLEAN
  PROVE  LET next == foldSlotAcceptance(state, ok, cek, i) IN
         /\ next.found \in BOOLEAN
         /\ next.found <=> state.found \/ ok
         /\ next.cek = IF ok /\ ~state.found THEN cek ELSE state.cek
BY DEF foldSlotAcceptance

(* A fold that found a slot has the content key of one it accepted.        *)
LEMMA FoldFinds ==
  ASSUME NEW accepted, NEW ceks, NEW n \in Nat, n = Len(ceks),
         \A i \in 1..n : accepted[i] \in BOOLEAN
  PROVE  LET fold == FoldedAcceptance(accepted, ceks) IN
         /\ fold.found \in BOOLEAN
         /\ fold.found => \E i \in 1..n : accepted[i] /\ ceks[i] = fold.cek
<1> DEFINE state == CHOOSE st : Folded(st, n, accepted, ceks)
<1>1. Folded(state, n, accepted, ceks)
  BY FoldExists
<1>2. FoldedAcceptance(accepted, ceks) = state[n]
  BY DEF FoldedAcceptance, Folded
<1> DEFINE Found(k) == \E i \in 1..k : accepted[i] /\ ceks[i] = state[k].cek
           Fine(k) == state[k].found \in BOOLEAN /\ (state[k].found => Found(k))
           Missed == {k \in 0..n : ~Fine(k)}
<1> HIDE DEF state
<1>3. CASE Missed = {}
  <2>1. Fine(n)
    BY <1>3
  <2> QED
    BY <2>1, <1>2
<1>4. CASE Missed # {}
  <2>1. PICK m \in Missed : \A k \in Missed : m <= k
    <3>1. Missed \in SUBSET Nat
      OBVIOUS
    <3> QED
      BY <3>1, <1>4, Least
  <2>2. m \in 0..n /\ ~Fine(m)
    BY <2>1
  <2>3. m # 0
    <3>1. state[0] = newSlotAcceptanceState
      BY <1>1 DEF Folded
    <3>2. state[0].found = FALSE
      BY <3>1 DEF newSlotAcceptanceState
    <3>3. Fine(0)
      BY <3>2, Zenon
    <3> QED
      BY <3>3, <2>2
  <2>4. state[m] = foldSlotAcceptance(state[m - 1], accepted[m], ceks[m], m)
    BY <1>1, <2>2, <2>3 DEF Folded
  <2>5. Fine(m - 1)
    BY <2>1, <2>2, <2>3
  <2>6. /\ state[m].found \in BOOLEAN
        /\ state[m].found <=> state[m - 1].found \/ accepted[m]
        /\ state[m].cek = IF accepted[m] /\ ~state[m - 1].found THEN ceks[m]
                          ELSE state[m - 1].cek
    BY <2>2, <2>3, <2>4, <2>5, FoldStep
  <2>7. CASE state[m - 1].found
    <3>1. PICK i \in 1..(m - 1) : accepted[i] /\ ceks[i] = state[m - 1].cek
      BY <2>5, <2>7
    <3> QED
      BY <3>1, <2>2, <2>6, <2>7
  <2>8. CASE ~state[m - 1].found
    BY <2>2, <2>3, <2>6, <2>8
  <2> QED
    BY <2>7, <2>8
<1> QED
  BY <1>3, <1>4

(* A pass that found a slot opened a content key under which the MAC of    *)
(* the envelope stands.                                                    *)
Stands(pass, envelope, slotsHash) ==
  /\ pass.found \in BOOLEAN
  /\ pass.found => Get(envelope, "slots_mac") = computeSlotsMac(pass.cek, slotsHash)

LEMMA PassStands ==
  ASSUME NEW envelope, NEW secret, NEW slotsHash, List(Elems(Get(envelope, "slots")))
  PROVE  Stands(runPrivPass(envelope, secret, slotsHash), envelope, slotsHash)
<1> DEFINE slots == Elems(Get(envelope, "slots"))
           nonce == Get(envelope, "nonce")
           mac == Get(envelope, "slots_mac")
           tried == [i \in DOMAIN slots |->
                       IF Get(envelope, "kem") = Text("x25519")
                       THEN tryX25519Slot(slots[i], nonce, secret)
                       ELSE tryMlkem768X25519Slot(slots[i], nonce, secret)]
           accepted == [i \in DOMAIN slots |-> acceptsSlot(tried[i], mac, slotsHash)]
           ceks == [i \in DOMAIN slots |-> tried[i].cek]
           fold == FoldedAcceptance(accepted, ceks)
<1>1. Len(slots) \in Nat /\ DOMAIN slots = 1..Len(slots)
  BY DEF List
<1>2. runPrivPass(envelope, secret, slotsHash) = PrivPassResult(fold, \E i \in DOMAIN slots : tried[i].ok)
  BY DEF runPrivPass
<1> HIDE DEF tried, mac
<1>3. ASSUME NEW i \in 1..Len(slots)
      PROVE  /\ accepted[i] \in BOOLEAN
             /\ accepted[i] => computeSlotsMac(ceks[i], slotsHash) = mac
  BY <1>1, <1>3 DEF acceptsSlot
<1>4. Len(ceks) = Len(slots)
  <2> HIDE DEF slots
  <2> QED
    BY <1>1
<1> HIDE DEF slots, accepted, ceks
<1>5. /\ fold.found \in BOOLEAN
      /\ fold.found => \E i \in 1..Len(slots) : accepted[i] /\ ceks[i] = fold.cek
  BY <1>1, <1>3, <1>4, FoldFinds
<1> HIDE DEF fold
<1>6. fold.found => mac = computeSlotsMac(fold.cek, slotsHash)
  BY <1>3, <1>5
<1> DEFINE pass == runPrivPass(envelope, secret, slotsHash)
<1>7. pass.found = fold.found /\ pass.cek = fold.cek
  BY <1>2 DEF PrivPassResult
<1> HIDE DEF pass
<1>8. pass.found \in BOOLEAN /\ (pass.found => mac = computeSlotsMac(pass.cek, slotsHash))
  BY <1>5, <1>6, <1>7
<1> QED
  BY <1>8 DEF Stands, pass, mac

(* So has a scan of a list of secrets, and a trial decryption that matches *)
(* has made every check of the envelope before.                            *)
LEMMA ScanStands ==
  ASSUME NEW envelope, NEW slotsHash, NEW secrets, List(secrets),
         List(Elems(Get(envelope, "slots")))
  PROVE  Stands(ScanWith(envelope, slotsHash, secrets), envelope, slotsHash)
<1> DEFINE passes == [k \in DOMAIN secrets |-> runPrivPass(envelope, secrets[k], slotsHash)]
           hits == {k \in DOMAIN passes : passes[k].found}
           pass == FirstHit(passes)
<1>1. ScanWith(envelope, slotsHash, secrets) = pass
  BY DEF ScanWith
<1>2. DOMAIN passes \in SUBSET Nat
  BY DEF List
<1>3. \A k \in DOMAIN passes : Stands(passes[k], envelope, slotsHash)
  BY PassStands
<1> HIDE DEF passes
<1>4. CASE hits # {}
  <2>1. Min(hits) \in hits
    BY <1>2, <1>4, MinInSet
  <2>2. pass = passes[Min(hits)]
    BY <1>4 DEF FirstHit
  <2> QED
    BY <1>1, <1>3, <2>1, <2>2
<1>5. CASE hits = {}
  <2>1. pass = NoPass(\E k \in DOMAIN passes : passes[k].anyOpened)
    BY <1>5 DEF FirstHit
  <2>2. pass.found = FALSE
    BY <2>1 DEF NoPass, PrivPassResult, newSlotAcceptanceState
  <2> HIDE DEF pass
  <2> QED
    BY <1>1, <2>2, Zenon DEF Stands
<1> QED
  BY <1>4, <1>5

LEMMA MatchStands ==
  ASSUME NEW envelope, NEW hashes, NEW keys, \A list \in KeyLists(keys) : List(list),
         List(Elems(Get(envelope, "slots"))),
         ~Failed(eciesSealedPoeTrialDecrypt(envelope, hashes, keys)),
         eciesSealedPoeTrialDecrypt(envelope, hashes, keys).kind # "no_match"
  PROVE  /\ \E secrets : assertEnvelopeStructure(envelope, secrets) = "ok"
         /\ ~Failed(itemHashesHash(hashes))
         /\ Get(envelope, "slots_mac")
              = computeSlotsMac(eciesSealedPoeTrialDecrypt(envelope, hashes, keys).cek,
                                slotsHashBytes(envelope, hashes))
<1> DEFINE pass == Scan(envelope, hashes, keys)
           trial == eciesSealedPoeTrialDecrypt(envelope, hashes, keys)
<1>1. trial = TrialResult(pass)
  BY DEF eciesSealedPoeTrialDecrypt
<1> HIDE DEF pass, trial
<1>2. ~Failed(pass) /\ pass.found /\ trial.cek = pass.cek
  <2>1. ~Failed(pass)
    BY <1>1 DEF TrialResult, trial
  <2>2. pass.found /\ ~pass.conflict
    BY <1>1, <2>1 DEF TrialResult, trial
  <2>3. trial = [kind |-> "match", slotIdx |-> pass.idx, cek |-> pass.cek]
    BY <1>1, <2>1, <2>2 DEF TrialResult
  <2> QED
    BY <2>1, <2>2, <2>3
<1> DEFINE secrets == IF "bundle" \in DOMAIN keys THEN selectBundleSecrets(envelope, keys.bundle)
                      ELSE keys.secrets
<1>3. List(secrets)
  BY DEF KeyLists, selectBundleSecrets
<1>4. pass = IF secrets = << >>
             THEN IF "bundle" \in DOMAIN keys THEN NoPass(FALSE)
                  ELSE Failure("INVALID_RECIPIENT_KEY")
             ELSE ScanSecrets(envelope, hashes, secrets, assertEnvelopeStructure(envelope, secrets))
  BY DEF Scan, pass
<1> HIDE DEF secrets
<1>5. \A code : Failed(Failure(code))
  BY DEF Failed, Failure
<1>6. pass # NoPass(FALSE)
  <2>1. NoPass(FALSE).found = FALSE
    BY DEF NoPass, PrivPassResult, newSlotAcceptanceState
  <2> QED
    BY <1>2, <2>1
<1>7. pass = ScanSecrets(envelope, hashes, secrets, assertEnvelopeStructure(envelope, secrets))
  BY <1>2, <1>4, <1>5, <1>6
<1>8. /\ assertEnvelopeStructure(envelope, secrets) = "ok"
      /\ ~Failed(itemHashesHash(hashes))
      /\ pass = ScanWith(envelope, slotsHashBytes(envelope, hashes), secrets)
  BY <1>2, <1>5, <1>7 DEF ScanSecrets
<1>9. Stands(pass, envelope, slotsHashBytes(envelope, hashes))
  BY <1>3, <1>8, ScanStands
<1> QED
  BY <1>2, <1>8, <1>9 DEF Stands, trial

-----------------------------------------------------------------------------
(* What the transcript of the slots path binds.                            *)

(* Checks that all pass.                                                   *)
LEMMA NoneFails ==
  ASSUME NEW rows, List(rows), \A i \in DOMAIN rows : rows[i][2] # "ok",
         FirstFailing(rows) = "ok"
  PROVE  \A i \in DOMAIN rows : ~rows[i][1]
<1> DEFINE bad == {i \in DOMAIN rows : rows[i][1]}
<1>1. ASSUME bad # {} PROVE FALSE
  <2>1. bad \in SUBSET Nat
    BY DEF List
  <2>2. Min(bad) \in bad
    BY <1>1, <2>1, MinInSet
  <2>3. FirstFailing(rows) = rows[Min(bad)][2]
    BY <1>1 DEF FirstFailing
  <2> QED
    BY <2>2, <2>3
<1> QED
  BY <1>1

LEMMA StructureStands ==
  ASSUME NEW envelope, NEW secrets, assertEnvelopeStructure(envelope, secrets) = "ok"
  PROVE  /\ Get(envelope, "scheme") = Num(1)
         /\ TextIn(Get(envelope, "kem"), DOMAIN KEM)
<1> DEFINE slots == Elems(Get(envelope, "slots"))
           rows == << << Get(envelope, "scheme") # Num(1), "UNSUPPORTED_ENVELOPE_SCHEME" >>,
             << Get(envelope, "aead") # Text(SEALED_POE_AEAD), "UNSUPPORTED_AEAD_ALG" >>,
             << ~TextIn(Get(envelope, "kem"), DOMAIN KEM), "UNSUPPORTED_KEM_ALG" >>,
             << slots = << >>, "ENC_SLOTS_EMPTY" >>,
             << Len(slots) > MAX_SLOTS, "ENC_SLOTS_TOO_MANY" >>,
             << Get(envelope, "nonce").len # NONCE_LENGTH, "NONCE_LENGTH_MISMATCH" >>,
             << Get(envelope, "slots_mac").len # SLOTS_MAC_LENGTH,
                "ENC_SLOTS_MAC_INVALID_LENGTH" >> >>
<1>1. FirstFailing(rows) = "ok"
  BY DEF assertEnvelopeStructure
<1> HIDE DEF slots
<1>2. DOMAIN rows = 1..7 /\ Len(rows) = 7
  OBVIOUS
<1>3. List(rows)
  <2>1. \A i \in 1..7 : rows[i] \in Range(rows)
    <3> HIDE DEF rows
    <3> QED
      BY <1>2 DEF Range
  <2> QED
    BY <1>2, <2>1 DEF List
<1>4. \A i \in DOMAIN rows : rows[i][2] # "ok"
  <2>1. ASSUME NEW i \in 1..7 PROVE rows[i][2] # "ok"
    BY <2>1
  <2> HIDE DEF rows
  <2> QED
    BY <1>2, <2>1
<1>5. ~rows[1][1] /\ ~rows[3][1]
  <2> HIDE DEF rows
  <2> QED
    BY <1>1, <1>2, <1>3, <1>4, NoneFails
<1> QED
  BY <1>5

(* A slot as wrap.ts builds it.                                            *)
FieldOf(kem) == IF kem = "x25519" THEN "epk" ELSE "kem_ct"
BuiltSlot(kem, s) ==
  /\ s = Map(s.m) /\ s.m = [k \in {FieldOf(kem), "wrap"} |-> s.m[k]]
  /\ s.m[FieldOf(kem)] # Missing /\ s.m["wrap"] # Missing

LEMMA WrappedX25519 ==
  ASSUME NEW pubR, NEW privEph, NEW cek, NEW nonce,
         ~Failed(wrapSlotX25519(pubR, privEph, cek, nonce))
  PROVE  BuiltSlot("x25519", wrapSlotX25519(pubR, privEph, cek, nonce))
<1> DEFINE epk == [t |-> "bytes", len |-> 32, eph |-> privEph.who]
           wrap == Wrapped(hkdf(x25519Ecdh(privEph.who, pubR.id),
                                x25519KekSalt(nonce, epk, pubR)), cek)
           slot == wrapSlotX25519(pubR, privEph, cek, nonce)
<1>1. slot = Map([epk |-> epk, wrap |-> wrap])
  BY DEF wrapSlotX25519, Failed, Failure
<1>2. epk # Missing /\ wrap # Missing
  BY DEF Wrapped, Missing
<1> HIDE DEF epk, wrap, slot
<1>3. slot.m = [epk |-> epk, wrap |-> wrap]
  BY <1>1 DEF Map
<1> QED
  BY <1>1, <1>2, <1>3 DEF BuiltSlot, FieldOf, slot

LEMMA WrappedMlkem ==
  ASSUME NEW pubR, NEW eseed, NEW cek, NEW nonce, NEW kem, kem # "x25519"
  PROVE  BuiltSlot(kem, wrapSlotMlkem768X25519(pubR, eseed, cek, nonce))
<1> DEFINE ct == KemCt(pubR.id, eseed.who)
           wrap == Wrapped(hkdf([to |-> pubR.id, eseed |-> eseed.who],
                                xwingKekSalt(nonce, ct, pubR)), cek)
           slot == wrapSlotMlkem768X25519(pubR, eseed, cek, nonce)
<1>1. slot = Map([kem_ct |-> ct, wrap |-> wrap])
  BY DEF wrapSlotMlkem768X25519
<1>2. ct # Missing /\ wrap # Missing
  BY DEF Wrapped, KemCt, Missing
<1> HIDE DEF ct, wrap, slot
<1>3. slot.m = [kem_ct |-> ct, wrap |-> wrap]
  BY <1>1 DEF Map
<1> QED
  BY <1>1, <1>2, <1>3 DEF BuiltSlot, FieldOf, slot

(* An envelope as wrap.ts builds it, with its payload key.                 *)
BuiltEnvelope(args, slots) ==
  Map([scheme |-> Num(1), aead |-> Text(SEALED_POE_AEAD), kem |-> Text(args.kem),
       nonce |-> args.nonce, slots |-> Arr(slots),
       slots_mac |-> computeSlotsMac(args.cek,
         computeSlotsHash(SEALED_POE_AEAD, args.kem, args.nonce, slots,
                          itemHashesHash(args.hashes)))])

(* The slot that is wrapped for a recipient.                               *)
SlotFor(args, i) ==
  IF args.kem = "x25519"
  THEN wrapSlotX25519(args.recipientPublicKeys[i], args.fresh[i], args.cek, args.nonce)
  ELSE wrapSlotMlkem768X25519(args.recipientPublicKeys[i], args.fresh[i], args.cek, args.nonce)

LEMMA BuiltBySlots ==
  ASSUME NEW args, List(args.recipientPublicKeys),
         \A i \in DOMAIN args.recipientPublicKeys :
           args.order[i] \in DOMAIN args.recipientPublicKeys,
         ~Failed(buildSealedEnvelope(args))
  PROVE  \E slots :
           /\ List(slots) /\ \A i \in DOMAIN slots : BuiltSlot(args.kem, slots[i])
           /\ DOMAIN slots = DOMAIN args.recipientPublicKeys
           /\ \A i \in DOMAIN slots :
                /\ slots[i] = SlotFor(args, args.order[i]) /\ ~Failed(SlotFor(args, i))
                /\ args.recipientPublicKeys[i].len = KEM[args.kem].pub
           /\ args.cek.len = CEK_LENGTH
           /\ buildSealedEnvelope(args)
                = [envelope |-> BuiltEnvelope(args, slots),
                   payloadKey |-> slotsPayloadKey(args.cek, args.nonce)]
<1> DEFINE hashesHash == itemHashesHash(args.hashes)
           pubs == args.recipientPublicKeys
           classical == args.kem = "x25519"
           own == IF classical THEN args.ephemeralSecrets ELSE args.eseeds
           foreign == IF classical THEN args.eseeds ELSE args.ephemeralSecrets
           rows ==
        << << Failed(hashesHash), "ENC_REQUIRES_CONTENT_HASH" >>,
           << pubs = << >>, "ENC_SLOTS_EMPTY" >>,
           << \E i \in DOMAIN pubs : pubs[i].len # KEM[args.kem].pub,
              "KEM_EPK_LENGTH_MISMATCH" >>,
           << foreign # -1 \/ own \notin {-1, Len(pubs)},
              "EPHEMERAL_SECRETS_COUNT_MISMATCH" >>,
           << ~classical /\ \E i \in DOMAIN pubs : args.fresh[i].len # 64,
              "INVALID_EPHEMERAL_SECRET_LENGTH" >>,
           << args.cek.len # CEK_LENGTH, "INVALID_CEK_LENGTH" >>,
           << args.nonce.len # NONCE_LENGTH, "NONCE_LENGTH_MISMATCH" >> >>
           rejected == FirstFailing(rows)
           wrapped == [i \in DOMAIN pubs |-> SlotFor(args, i)]
           slots == [i \in DOMAIN pubs |-> wrapped[args.order[i]]]
           failing == {i \in DOMAIN pubs : Failed(wrapped[i])}
           sealed == [envelope |-> BuiltEnvelope(args, slots),
                      payloadKey |-> slotsPayloadKey(args.cek, args.nonce)]
           built == buildSealedEnvelope(args)
<1>1. built = IF rejected # "ok" THEN Failure(rejected)
              ELSE IF \E i \in DOMAIN pubs : Failed(wrapped[i]) THEN wrapped[Min(failing)]
              ELSE sealed
  BY DEF buildSealedEnvelope, BuiltEnvelope, SlotFor
<1>2. failing # {} => Failed(wrapped[Min(failing)])
  <2>1. failing \in SUBSET Nat
    BY DEF List
  <2> HIDE DEF wrapped
  <2>2. ASSUME failing # {} PROVE Min(failing) \in failing
    BY <2>1, <2>2, MinInSet
  <2> QED
    BY <2>2
<1>3. Failed(Failure(rejected))
  BY DEF Failed, Failure
<1>4. \A i \in DOMAIN pubs : ~Failed(wrapped[i]) => BuiltSlot(args.kem, wrapped[i])
  BY WrappedX25519, WrappedMlkem DEF SlotFor
<1>5. DOMAIN pubs = 1..Len(pubs) /\ Len(pubs) \in Nat
  BY DEF List
<1>6. built = sealed /\ rejected = "ok" /\ \A i \in DOMAIN pubs : ~Failed(wrapped[i])
  <2> HIDE DEF wrapped, rejected, sealed, built
  <2>1. ~Failed(built)
    BY DEF built
  <2> QED
    BY <1>1, <1>2, <1>3, <2>1
<1>10. /\ args.cek.len = CEK_LENGTH
       /\ \A i \in DOMAIN pubs : pubs[i].len = KEM[args.kem].pub
  <2>1. FirstFailing(rows) = "ok"
    BY <1>6
  <2> HIDE DEF hashesHash, pubs, own, foreign, classical
  <2>2. DOMAIN rows = 1..7 /\ Len(rows) = 7
    OBVIOUS
  <2>3. List(rows)
    <3>1. \A i \in 1..7 : rows[i] \in Range(rows)
      <4> HIDE DEF rows
      <4> QED
        BY <2>2 DEF Range
    <3> QED
      BY <2>2, <3>1 DEF List
  <2>4. ASSUME NEW i \in 1..7 PROVE rows[i][2] # "ok"
    BY <2>4
  <2>5. ~rows[3][1] /\ ~rows[6][1]
    <3> HIDE DEF rows
    <3> QED
      BY <2>1, <2>2, <2>3, <2>4, NoneFails
  <2> QED
    BY <2>5 DEF pubs
<1>11. \A i \in DOMAIN pubs : ~Failed(SlotFor(args, i))
  BY <1>6
<1>12. DOMAIN slots = DOMAIN pubs /\ \A i \in DOMAIN slots : slots[i] = SlotFor(args, args.order[i])
  OBVIOUS
<1> HIDE DEF wrapped
<1>7. \A i \in DOMAIN slots : BuiltSlot(args.kem, slots[i])
  BY <1>4, <1>6
<1>8. List(slots)
  <2>2. slots = [i \in 1..Len(pubs) |-> slots[i]]
    BY <1>5
  <2> HIDE DEF slots
  <2> QED
    BY <1>5, <2>2, IsList
<1> HIDE DEF slots, built
<1>9. built = sealed
  BY <1>6
<1> QED
  BY <1>7, <1>8, <1>9, <1>10, <1>11, <1>12 DEF built

(* The members of a built envelope; it has the form of its type.           *)
LEMMA BuiltForm ==
  ASSUME NEW args, NEW slots, List(slots),
         \A i \in DOMAIN slots : BuiltSlot(args.kem, slots[i])
  PROVE  /\ BuiltEnvelope(args, slots) = Map(BuiltEnvelope(args, slots).m)
         /\ SlotsForm(BuiltEnvelope(args, slots).m)
<1> DEFINE mac == computeSlotsMac(args.cek,
                    computeSlotsHash(SEALED_POE_AEAD, args.kem, args.nonce, slots,
                                     itemHashesHash(args.hashes)))
           m == [scheme |-> Num(1), aead |-> Text(SEALED_POE_AEAD), kem |-> Text(args.kem),
                 nonce |-> args.nonce, slots |-> Arr(slots), slots_mac |-> mac]
<1>1. BuiltEnvelope(args, slots).m = m /\ BuiltEnvelope(args, slots) = Map(m)
  BY DEF BuiltEnvelope, Map
<1> HIDE DEF mac
<1>2. \A i \in DOMAIN slots : SlotForm(slots[i])
  <2>1. ASSUME NEW i \in DOMAIN slots PROVE SlotForm(slots[i])
    <3>1. BuiltSlot(args.kem, slots[i])
      OBVIOUS
    <3>2. DOMAIN slots[i].m = {FieldOf(args.kem), "wrap"}
      BY <3>1 DEF BuiltSlot
    <3>3. slots[i].m = [k \in DOMAIN slots[i].m |-> slots[i].m[k]]
      BY <3>1, <3>2 DEF BuiltSlot
    <3>4. DOMAIN slots[i].m \in {{"epk", "wrap"}, {"kem_ct", "wrap"}}
      BY <3>2 DEF FieldOf
    <3>5. slots[i] = Map(slots[i].m)
      BY <3>1 DEF BuiltSlot
    <3> QED
      BY <3>3, <3>4, <3>5 DEF SlotForm
  <2> QED
    BY <2>1
<1>3. m.slots.a = slots /\ m.aead.s = SEALED_POE_AEAD /\ m.kem.s = args.kem
  BY DEF Arr, Text
<1>4. m = [scheme |-> m.scheme, aead |-> Text(m.aead.s), kem |-> Text(m.kem.s),
           nonce |-> m.nonce, slots |-> Arr(m.slots.a), slots_mac |-> m.slots_mac]
  BY <1>3
<1>5. SlotsForm(m)
  <2> HIDE DEF m
  <2> QED
    BY <1>2, <1>3, <1>4 DEF SlotsForm
<1> QED
  BY <1>1, <1>5

(* A slot of a stored envelope whose two members are those of a built one  *)
(* is that slot.                                                           *)
LEMMA SameSlot ==
  ASSUME NEW kem \in DOMAIN KEM, NEW s, NEW b, SlotForm(s), BuiltSlot(kem, b),
         Get(s, KEM[kem].field) = Get(b, KEM[kem].field), Get(s, "wrap") = Get(b, "wrap")
  PROVE  s = b
<1> DEFINE field == KEM[kem].field
<1>1. field = FieldOf(kem) /\ field \in {"epk", "kem_ct"}
  BY DEF KEM, FieldOf
<1> HIDE DEF field
<1>2. b.t = "map" /\ s.t = "map"
  BY DEF BuiltSlot, SlotForm, Map
<1>3. DOMAIN b.m = {field, "wrap"}
  BY <1>1 DEF BuiltSlot
<1>4. Get(b, field) = b.m[field] /\ Get(b, "wrap") = b.m["wrap"]
  BY <1>1, <1>2, <1>3 DEF Get, Keys, BuiltSlot
<1>5. Get(s, field) # Missing /\ Get(s, "wrap") # Missing
  BY <1>1, <1>4 DEF BuiltSlot, field
<1>6. field \in Keys(s) /\ "wrap" \in Keys(s)
  BY <1>5 DEF Get
<1>7. /\ field \in DOMAIN s.m /\ s.m[field] = b.m[field]
      /\ "wrap" \in DOMAIN s.m /\ s.m["wrap"] = b.m["wrap"]
  BY <1>2, <1>4, <1>6 DEF Get, Keys, field
<1>8. DOMAIN s.m = {field, "wrap"}
  BY <1>1, <1>7 DEF SlotForm
<1>9. s.m = b.m
  <2>1. s.m = [k \in {field, "wrap"} |-> s.m[k]] /\ s = Map(s.m)
    <3>1. s = Map([k \in DOMAIN s.m |-> s.m[k]])
      BY DEF SlotForm
    <3>2. s.m = [k \in DOMAIN s.m |-> s.m[k]]
      BY <3>1 DEF Map
    <3> QED
      BY <3>1, <3>2, <1>8
  <2>2. b.m = [k \in {field, "wrap"} |-> b.m[k]]
    BY <1>1 DEF BuiltSlot
  <2>3. \A k \in {field, "wrap"} : s.m[k] = b.m[k]
    BY <1>7
  <2> QED
    BY <2>1, <2>2, <2>3
<1>10. s = Map(s.m) /\ b = Map(b.m)
  <2>1. s = Map([k \in DOMAIN s.m |-> s.m[k]]) /\ b = Map(b.m)
    BY DEF SlotForm, BuiltSlot
  <2> QED
    BY <2>1 DEF Map
<1> QED
  BY <1>9, <1>10

(* The same transcript is the same algorithms, nonce, slots and hashes.    *)
LEMMA SlotsHashInjective ==
  ASSUME NEW aead, NEW kem, NEW nonce, NEW slots, NEW hh,
         NEW aead2, NEW kem2, NEW nonce2, NEW slots2, NEW hh2,
         kem \in DOMAIN KEM, List(slots), List(slots2),
         \A i \in DOMAIN slots : SlotForm(slots[i]),
         \A i \in DOMAIN slots2 : BuiltSlot(kem2, slots2[i]),
         computeSlotsHash(aead, kem, nonce, slots, hh)
           = computeSlotsHash(aead2, kem2, nonce2, slots2, hh2)
  PROVE  aead = aead2 /\ kem = kem2 /\ nonce = nonce2 /\ slots = slots2 /\ hh = hh2
<1> DEFINE closed == [i \in DOMAIN slots |-> << Get(slots[i], KEM[kem].field), Get(slots[i], "wrap") >>]
           closed2 == [i \in DOMAIN slots2 |->
                         << Get(slots2[i], KEM[kem2].field), Get(slots2[i], "wrap") >>]
<1>1. aead = aead2 /\ kem = kem2 /\ nonce = nonce2 /\ hh = hh2 /\ closed = closed2
  BY DEF computeSlotsHash
<1>2. DOMAIN slots = DOMAIN slots2
  BY <1>1
<1>3. ASSUME NEW i \in DOMAIN slots PROVE slots[i] = slots2[i]
  <2>1. closed[i] = closed2[i]
    BY <1>1
  <2>2. /\ Get(slots[i], KEM[kem].field) = Get(slots2[i], KEM[kem].field)
        /\ Get(slots[i], "wrap") = Get(slots2[i], "wrap")
    BY <2>1, <1>1, <1>2
  <2> QED
    BY <2>2, <1>1, <1>2, SameSlot
<1>4. slots = slots2
  BY <1>2, <1>3, LenProperties, SeqEqual DEF List
<1> QED
  BY <1>1, <1>4

(* The members of a map, and of an envelope of the slots path.             *)
LEMMA GetOfMap ==
  ASSUME NEW m, NEW k \in DOMAIN m
  PROVE  Get(Map(m), k) = m[k]
BY DEF Get, Keys, Map

LEMMA SlotsMembers ==
  ASSUME NEW e, e = Map(e.m), SlotsForm(e.m)
  PROVE  /\ \A k \in {"scheme", "aead", "kem", "nonce", "slots", "slots_mac"} : Get(e, k) = e.m[k]
         /\ Elems(Get(e, "slots")) = e.m.slots.a
         /\ List(Elems(Get(e, "slots")))
         /\ \A i \in DOMAIN e.m.slots.a : SlotForm(e.m.slots.a[i])
         /\ e.m = [scheme |-> e.m.scheme, aead |-> Text(e.m.aead.s), kem |-> Text(e.m.kem.s),
                   nonce |-> e.m.nonce, slots |-> Arr(e.m.slots.a), slots_mac |-> e.m.slots_mac]
<1>1. e.m = [scheme |-> e.m.scheme, aead |-> Text(e.m.aead.s), kem |-> Text(e.m.kem.s),
             nonce |-> e.m.nonce, slots |-> Arr(e.m.slots.a), slots_mac |-> e.m.slots_mac]
  BY DEF SlotsForm
<1>2. DOMAIN e.m = {"scheme", "aead", "kem", "nonce", "slots", "slots_mac"}
  BY <1>1
<1>3. \A k \in {"scheme", "aead", "kem", "nonce", "slots", "slots_mac"} : Get(e, k) = e.m[k]
  BY <1>2, GetOfMap
<1>4. e.m.slots = Arr(e.m.slots.a)
  BY <1>1
<1>5. Elems(Get(e, "slots")) = e.m.slots.a
  BY <1>3, <1>4 DEF Elems, Arr
<1> QED
  BY <1>1, <1>3, <1>5 DEF SlotsForm

(* An envelope of the slots path opens under the key of the seal only as   *)
(* it was sealed, and for the hashes it was sealed for.                    *)
LEMMA SlotsBound ==
  ASSUME NEW c \in StreamCalls, c.path = "slots", ~Failed(SealHeader(c)),
         NEW e \in {SealHeader(c).envelope} \cup HeaderAttacks(SealHeader(c).envelope),
         NEW trial, trial = eciesSealedPoeTrialDecrypt(e, c.hashes, c.keys),
         ~Failed(trial), trial.kind # "no_match",
         slotsPayloadKey(trial.cek, Get(e, "nonce")) = SealHeader(c).key
  PROVE  e = SealHeader(c).envelope /\ c.hashes = c.args.hashes
<1> DEFINE built == buildSealedEnvelope(c.args)
<1>1. ~Failed(built) /\ SealHeader(c) = [envelope |-> built.envelope, key |-> built.payloadKey,
                                          lead |-> << >>]
  BY DEF SealHeader, SlotsHeader
<1>2. PICK slots : /\ List(slots) /\ \A i \in DOMAIN slots : BuiltSlot(c.args.kem, slots[i])
                   /\ built = [envelope |-> BuiltEnvelope(c.args, slots),
                               payloadKey |-> slotsPayloadKey(c.args.cek, c.args.nonce)]
  <2> DEFINE pubs == c.args.recipientPublicKeys
  <2>1. List(pubs) /\ {c.args.order[i] : i \in DOMAIN pubs} = DOMAIN pubs
    BY StorageAssumption
  <2>2. \A i \in DOMAIN pubs : c.args.order[i] \in DOMAIN pubs
    BY <2>1
  <2> QED
    BY <1>1, <2>1, <2>2, BuiltBySlots
<1> DEFINE b == BuiltEnvelope(c.args, slots)
           key0 == slotsPayloadKey(c.args.cek, c.args.nonce)
<1>3. SealHeader(c).envelope = b /\ SealHeader(c).key = key0
  BY <1>1, <1>2
<1>4. b = Map(b.m) /\ SlotsForm(b.m)
  BY <1>2, BuiltForm
<1> HIDE DEF b, key0
<1>5. /\ e = Map(e.m) /\ SlotsForm(e.m)
      /\ MadeWith(c.args.cek, e.m.slots_mac) => e.m.slots_mac = b.m.slots_mac
  <2>1. CASE e = b
    BY <2>1, <1>4
  <2>2. CASE e \in HeaderAttacks(b)
    BY <2>2, <1>3, StorageAssumption
  <2> QED
    BY <2>1, <2>2, <1>3
<1> DEFINE Mac0(h) == computeSlotsMac(c.args.cek,
                        computeSlotsHash(SEALED_POE_AEAD, c.args.kem, c.args.nonce, slots, h))
           kem == Get(e, "kem").s
           Mac(h) == computeSlotsMac(trial.cek,
                       computeSlotsHash(Get(e, "aead").s, kem, Get(e, "nonce"), e.m.slots.a, h))
<1>6. /\ b.m.scheme = Num(1) /\ b.m.aead = Text(SEALED_POE_AEAD) /\ b.m.kem = Text(c.args.kem)
      /\ b.m.nonce = c.args.nonce /\ b.m.slots = Arr(slots)
      /\ b.m.slots_mac = Mac0(itemHashesHash(c.args.hashes))
  BY DEF b, BuiltEnvelope, Map
<1> HIDE DEF Mac0
<1>7. /\ \E secrets : assertEnvelopeStructure(e, secrets) = "ok"
      /\ ~Failed(itemHashesHash(c.hashes))
      /\ Get(e, "slots_mac") = computeSlotsMac(trial.cek, slotsHashBytes(e, c.hashes))
  <2>1. \A list \in KeyLists(c.keys) : List(list)
    BY StorageAssumption
  <2>2. List(Elems(Get(e, "slots")))
    BY <1>5, SlotsMembers
  <2> QED
    BY <2>1, <2>2, MatchStands
<1>8. e.m.slots_mac = Mac(itemHashesHash(c.hashes))
  BY <1>5, <1>7, SlotsMembers DEF slotsHashBytes
<1>9. trial.cek = c.args.cek /\ Get(e, "nonce") = c.args.nonce
  BY <1>3 DEF slotsPayloadKey, payloadKey, key0
<1>10. e.m.slots_mac = b.m.slots_mac
  <2>1. MadeWith(trial.cek, e.m.slots_mac)
    BY <1>8 DEF MadeWith, computeSlotsMac, Tag
  <2> QED
    BY <2>1, <1>5, <1>9
<1>11. Get(e, "scheme") = Num(1) /\ TextIn(Get(e, "kem"), DOMAIN KEM)
  BY <1>7, StructureStands
<1>12. /\ Get(e, "aead").s = SEALED_POE_AEAD /\ kem = c.args.kem /\ e.m.slots.a = slots
       /\ itemHashesHash(c.hashes) = itemHashesHash(c.args.hashes)
  <2>1. computeSlotsHash(Get(e, "aead").s, kem, Get(e, "nonce"), e.m.slots.a,
                         itemHashesHash(c.hashes))
          = computeSlotsHash(SEALED_POE_AEAD, c.args.kem, c.args.nonce, slots,
                             itemHashesHash(c.args.hashes))
    BY <1>6, <1>8, <1>10 DEF computeSlotsMac, Tag, Mac0
  <2>2. kem \in DOMAIN KEM
    BY <1>11 DEF TextIn
  <2>3. List(e.m.slots.a) /\ \A i \in DOMAIN e.m.slots.a : SlotForm(e.m.slots.a[i])
    BY <1>5, SlotsMembers
  <2> HIDE DEF kem
  <2> QED
    BY <2>1, <2>2, <2>3, <1>2, SlotsHashInjective
<1>13. e.m = b.m
  <2>1. /\ e.m = [scheme |-> e.m.scheme, aead |-> Text(e.m.aead.s), kem |-> Text(e.m.kem.s),
                  nonce |-> e.m.nonce, slots |-> Arr(e.m.slots.a), slots_mac |-> e.m.slots_mac]
        /\ b.m = [scheme |-> b.m.scheme, aead |-> Text(b.m.aead.s), kem |-> Text(b.m.kem.s),
                  nonce |-> b.m.nonce, slots |-> Arr(b.m.slots.a), slots_mac |-> b.m.slots_mac]
    BY <1>4, <1>5, SlotsMembers
  <2>2. e.m.scheme = b.m.scheme /\ e.m.nonce = b.m.nonce
    BY <1>5, <1>6, <1>9, <1>11, SlotsMembers
  <2>3. e.m.aead.s = b.m.aead.s /\ e.m.kem.s = b.m.kem.s
    <3>1. Get(e, "aead") = e.m.aead /\ Get(e, "kem") = e.m.kem
      BY <1>5, SlotsMembers
    <3>2. b.m.aead.s = SEALED_POE_AEAD /\ b.m.kem.s = c.args.kem
      BY <1>6 DEF Text
    <3> QED
      BY <3>1, <3>2, <1>12
  <2>4. e.m.slots.a = b.m.slots.a
    BY <1>6, <1>12 DEF Arr
  <2> QED
    BY <2>1, <2>2, <2>3, <2>4, <1>10
<1>14. c.hashes = c.args.hashes
  <2>1. itemHashesHash(c.hashes) = [hashes |-> c.hashes]
    BY <1>7 DEF itemHashesHash, Failed, Failure
  <2>2. itemHashesHash(c.args.hashes) = [hashes |-> c.args.hashes]
    BY <1>7, <1>12 DEF itemHashesHash, Failed, Failure
  <2> QED
    BY <2>1, <2>2, <1>12
<1> QED
  BY <1>3, <1>4, <1>5, <1>13, <1>14

-----------------------------------------------------------------------------
(* What the commitment of the passphrase path binds.                       *)

LEMMA InputStands ==
  ASSUME NEW e, NEW passphrase, NEW hashes, openInput(e, passphrase, hashes) = "ok"
  PROVE  /\ Get(e, "scheme") = Num(1)
         /\ Get(Get(e, "passphrase"), "alg") = Text("argon2id")
         /\ ~Failed(itemHashesHash(hashes))
<1> DEFINE rows == << << Get(e, "scheme") # Num(1), "UNSUPPORTED_ENVELOPE_SCHEME" >>,
             << Get(e, "aead") # Text(SEALED_POE_AEAD), "UNSUPPORTED_AEAD_ALG" >>,
             << Get(Get(e, "passphrase"), "alg") # Text("argon2id"),
                "ENC_PASSPHRASE_ALG_UNSUPPORTED" >> >>
           password == normalizePassphrase(passphrase)
<1>1. ~Failed(itemHashesHash(hashes))
  BY DEF openInput, itemHashesHash, Failed, Failure
<1>2. ~Failed(password)
  BY <1>1 DEF openInput, normalizePassphrase, Failed, Failure
<1>3. FirstFailing(rows) = "ok"
  <2> HIDE DEF password
  <2>1. openInput(e, passphrase, hashes)
          = IF FirstFailing(rows) # "ok" THEN FirstFailing(rows)
            ELSE assertPassphraseBlock(SaltOf(e), ParamsOf(e), Get(e, "nonce"))
    BY <1>1, <1>2 DEF openInput, password
  <2> HIDE DEF rows
  <2> QED
    BY <2>1
<1>4. DOMAIN rows = 1..3 /\ Len(rows) = 3 /\ rows = [i \in 1..3 |-> rows[i]]
  OBVIOUS
<1>5. List(rows)
  <2> HIDE DEF rows
  <2> QED
    BY <1>4, IsList
<1>6. \A i \in DOMAIN rows : rows[i][2] # "ok"
  <2>1. ASSUME NEW i \in 1..3 PROVE rows[i][2] # "ok"
    BY <2>1
  <2> HIDE DEF rows
  <2> QED
    BY <1>4, <2>1
<1>7. ~rows[1][1] /\ ~rows[3][1]
  <2> HIDE DEF rows
  <2> QED
    BY <1>3, <1>4, <1>5, <1>6, NoneFails
<1> QED
  BY <1>1, <1>7

(* An envelope of the passphrase path, as it is built and as it is stored. *)
Costs == {"m", "t", "p"}
PassphraseEnvelope(scheme, aead, nonce, alg, salt, costs) ==
  Map([scheme |-> scheme, aead |-> Text(aead), nonce |-> nonce,
       passphrase |-> Map([alg |-> alg, salt |-> salt,
         params |-> Map([f \in {"m", "t", "p"} |-> Num(costs[f])])])])

LEMMA PassphraseMembers ==
  ASSUME NEW scheme, NEW aead, NEW nonce, NEW alg, NEW salt, NEW costs,
         NEW e, e = PassphraseEnvelope(scheme, aead, nonce, alg, salt, costs)
  PROVE  /\ Get(e, "scheme") = scheme /\ Get(e, "aead") = Text(aead) /\ Get(e, "nonce") = nonce
         /\ Get(Get(e, "passphrase"), "alg") = alg /\ SaltOf(e) = salt
         /\ ParamsOf(e) = [f \in Costs |-> costs[f]]
<1> DEFINE params == Map([f \in {"m", "t", "p"} |-> Num(costs[f])])
           block == [alg |-> alg, salt |-> salt, params |-> params]
           m == [scheme |-> scheme, aead |-> Text(aead), nonce |-> nonce, passphrase |-> Map(block)]
<1>1. e = Map(m)
  BY DEF PassphraseEnvelope
<1>2. /\ Get(Map(m), "scheme") = scheme /\ Get(Map(m), "aead") = Text(aead)
      /\ Get(Map(m), "nonce") = nonce /\ Get(Map(m), "passphrase") = Map(block)
  <2> HIDE DEF block
  <2> QED
    BY GetOfMap
<1>3. /\ Get(Map(block), "alg") = alg /\ Get(Map(block), "salt") = salt
      /\ Get(Map(block), "params") = params
  <2> HIDE DEF params
  <2> QED
    BY GetOfMap
<1>4. \A f \in Costs : params.m[f].n = costs[f]
  BY DEF Costs, Map, Num
<1> HIDE DEF m, params
<1>5. ParamsOf(e) = [f \in Costs |-> params.m[f].n]
  BY <1>1, <1>2, <1>3 DEF ParamsOf, Costs
<1> QED
  BY <1>1, <1>2, <1>3, <1>4, <1>5 DEF SaltOf

LEMMA BuiltByPassphrase ==
  ASSUME NEW args, NEW plaintext, ~Failed(passphraseSealedPoeSeal(args, plaintext))
  PROVE  LET sealed == passphraseSealedPoeSeal(args, plaintext)
             cek == argon2Cek(normalizePassphrase(args.passphrase), args.salt, args.params) IN
         /\ sealed.envelope = PassphraseEnvelope(Num(1), SEALED_POE_AEAD, args.nonce,
                                Text("argon2id"), args.salt, args.params)
         /\ sealed.blob.commitment
              = commitmentFor(sealed.envelope, cek, itemHashesHash(args.hashes))
         /\ sealed.blob.stream.sealed = passphrasePayloadKey(cek, args.nonce)
<1> DEFINE block == assertPassphraseBlock(args.salt, args.params, args.nonce)
           hashesHash == itemHashesHash(args.hashes)
           password == normalizePassphrase(args.passphrase)
           cek == argon2Cek(password, args.salt, args.params)
           envelope == PassphraseEnvelope(Num(1), SEALED_POE_AEAD, args.nonce,
                         Text("argon2id"), args.salt, args.params)
           made == [envelope |-> envelope,
                    blob |-> Blobbed(commitmentFor(envelope, cek, hashesHash),
                               Streamed(passphrasePayloadKey(cek, args.nonce), plaintext))]
           sealed == passphraseSealedPoeSeal(args, plaintext)
<1>1. sealed = IF block # "ok" THEN Failure(block)
               ELSE IF Failed(hashesHash) THEN hashesHash
               ELSE IF Failed(password) THEN password
               ELSE IF Failed(cek) THEN cek ELSE made
  BY DEF passphraseSealedPoeSeal, PassphraseEnvelope
<1>2. sealed = made
  <2>1. Failed(Failure(block))
    BY DEF Failed, Failure
  <2>2. ~Failed(sealed)
    OBVIOUS
  <2> HIDE DEF sealed, made, block, password, hashesHash, cek
  <2> QED
    BY <1>1, <2>1, <2>2
<1>3. /\ made.blob.commitment = commitmentFor(envelope, cek, hashesHash)
      /\ made.blob.stream.sealed = passphrasePayloadKey(cek, args.nonce)
  BY DEF Blobbed, Streamed
<1> HIDE DEF envelope, cek
<1> QED
  BY <1>2, <1>3 DEF sealed, envelope, cek

(* The same commitment is the same algorithm, nonce, salt, costs, hashes.  *)
LEMMA CommitmentInjective ==
  ASSUME NEW e, NEW cek, NEW hh, NEW e2, NEW cek2, NEW hh2,
         commitmentFor(e, cek, hh) = commitmentFor(e2, cek2, hh2)
  PROVE  /\ Get(e, "aead") = Get(e2, "aead") /\ Get(e, "nonce") = Get(e2, "nonce")
         /\ SaltOf(e) = SaltOf(e2) /\ ParamsOf(e) = ParamsOf(e2) /\ hh = hh2
<1>1. computePassphraseHash(Get(e, "aead"), Get(e, "nonce"), hh, SaltOf(e), ParamsOf(e))
        = computePassphraseHash(Get(e2, "aead"), Get(e2, "nonce"), hh2, SaltOf(e2), ParamsOf(e2))
  BY DEF commitmentFor, computePassphraseCommitment, Tag
<1> QED
  BY <1>1 DEF computePassphraseHash

(* The form of a stored envelope is that of an envelope that was built.    *)
LEMMA StoredPassphrase ==
  ASSUME NEW e, e = Map(e.m), PassphraseForm(e.m)
  PROVE  \E scheme, aead, nonce, alg, salt, costs :
           e = PassphraseEnvelope(scheme, aead, nonce, alg, salt, costs)
<1> DEFINE block == e.m.passphrase.m
           costs == [f \in Costs |-> block.params.m[f].n]
<1>1. e.m = [scheme |-> e.m.scheme, aead |-> Text(e.m.aead.s), nonce |-> e.m.nonce,
             passphrase |-> Map([alg |-> block.alg, salt |-> block.salt,
               params |-> Map([f \in {"m", "t", "p"} |-> Num(block.params.m[f].n)])])]
  BY DEF PassphraseForm
<1>2. [f \in {"m", "t", "p"} |-> Num(block.params.m[f].n)]
        = [f \in {"m", "t", "p"} |-> Num(costs[f])]
  BY DEF Costs
<1>3. e = PassphraseEnvelope(e.m.scheme, e.m.aead.s, e.m.nonce, block.alg, block.salt, costs)
  <2> HIDE DEF block, costs
  <2> QED
    BY <1>1, <1>2 DEF PassphraseEnvelope
<1> QED
  BY <1>3

(* An envelope that stands behind a byte of the commitment is the one that *)
(* was sealed, and the hashes are those it was sealed for.                 *)
LEMMA PassphraseBound ==
  ASSUME NEW c \in StreamCalls, c.path = "passphrase", ~Failed(SealHeader(c)),
         NEW e \in {SealHeader(c).envelope} \cup HeaderAttacks(SealHeader(c).envelope),
         openInput(e, c.passphrase, c.hashes) = "ok", NEW cek,
         NEW b \in Range(SealHeader(c).lead),
         b.commitment = commitmentFor(e, cek, itemHashesHash(c.hashes))
  PROVE  e = SealHeader(c).envelope /\ c.hashes = c.args.hashes
<1> DEFINE sealed == passphraseSealedPoeSeal(c.args, << >>)
           built == SealHeader(c)
           costs == [f \in Costs |-> c.args.params[f]]
           env == PassphraseEnvelope(Num(1), SEALED_POE_AEAD, c.args.nonce,
                    Text("argon2id"), c.args.salt, c.args.params)
<1>1. built = PassphraseHeader(sealed)
  BY DEF SealHeader
<1>2. ~Failed(sealed) /\ built = [envelope |-> sealed.envelope, key |-> sealed.blob.stream.sealed,
                                  lead |-> Commitment(sealed.blob.commitment)]
  BY <1>1 DEF PassphraseHeader
<1> HIDE DEF sealed, built
<1>3. built.envelope = sealed.envelope /\ built.lead = Commitment(sealed.blob.commitment)
  BY <1>2
<1>4. PICK cek0 : sealed.blob.commitment
                    = commitmentFor(sealed.envelope, cek0, itemHashesHash(c.args.hashes))
  BY <1>2, BuiltByPassphrase DEF sealed
<1>5. sealed.envelope = env
  BY <1>2, BuiltByPassphrase DEF sealed
<1>6. b.commitment = sealed.blob.commitment
  <2>1. b \in Range(Commitment(sealed.blob.commitment))
    BY <1>3 DEF built
  <2> QED
    BY <2>1 DEF Range, Commitment
<1>7. \E scheme, aead, nonce, alg, salt, cs :
        e = PassphraseEnvelope(scheme, aead, nonce, alg, salt, cs)
  <2>1. CASE e = built.envelope
    BY <2>1, <1>3, <1>5
  <2>2. CASE e \in HeaderAttacks(built.envelope)
    <3>1. e = Map(e.m) /\ PassphraseForm(e.m)
      BY <2>2, StorageAssumption DEF built
    <3> QED
      BY <3>1, StoredPassphrase
  <2> QED
    BY <2>1, <2>2 DEF built
<1>8. PICK scheme, aead, nonce, alg, salt, cs :
        e = PassphraseEnvelope(scheme, aead, nonce, alg, salt, cs)
  BY <1>7
<1>9. /\ Get(e, "aead") = Get(env, "aead") /\ Get(e, "nonce") = Get(env, "nonce")
      /\ SaltOf(e) = SaltOf(env) /\ ParamsOf(e) = ParamsOf(env)
      /\ itemHashesHash(c.hashes) = itemHashesHash(c.args.hashes)
  <2> HIDE DEF env
  <2>1. commitmentFor(e, cek, itemHashesHash(c.hashes))
          = commitmentFor(env, cek0, itemHashesHash(c.args.hashes))
    BY <1>4, <1>5, <1>6
  <2> QED
    BY <2>1, CommitmentInjective, SMTT(60)
<1>10. /\ Get(e, "scheme") = scheme /\ Get(e, "aead") = Text(aead) /\ Get(e, "nonce") = nonce
       /\ Get(Get(e, "passphrase"), "alg") = alg /\ SaltOf(e) = salt
       /\ ParamsOf(e) = [f \in Costs |-> cs[f]]
  BY <1>8, PassphraseMembers
<1>11. /\ Get(env, "aead") = Text(SEALED_POE_AEAD) /\ Get(env, "nonce") = c.args.nonce
       /\ SaltOf(env) = c.args.salt /\ ParamsOf(env) = [f \in Costs |-> c.args.params[f]]
  BY PassphraseMembers
<1>12. scheme = Num(1) /\ alg = Text("argon2id") /\ ~Failed(itemHashesHash(c.hashes))
  BY <1>10, InputStands
<1>13. Text(aead) = Text(SEALED_POE_AEAD) /\ nonce = c.args.nonce /\ salt = c.args.salt
       /\ \A f \in {"m", "t", "p"} : cs[f] = c.args.params[f]
  <2>1. [f \in Costs |-> cs[f]] = [f \in Costs |-> c.args.params[f]]
    BY <1>9, <1>10, <1>11
  <2>2. \A f \in Costs : cs[f] = c.args.params[f]
    BY <2>1
  <2> QED
    BY <1>9, <1>10, <1>11, <2>2 DEF Costs
<1>14. e = env
  <2>1. [f \in {"m", "t", "p"} |-> Num(cs[f])] = [f \in {"m", "t", "p"} |-> Num(c.args.params[f])]
    BY <1>13
  <2> QED
    BY <1>8, <1>12, <1>13, <2>1 DEF PassphraseEnvelope
<1>15. c.hashes = c.args.hashes
  <2>1. itemHashesHash(c.hashes) = [hashes |-> c.hashes]
    BY <1>12 DEF itemHashesHash, Failed, Failure
  <2>2. itemHashesHash(c.args.hashes) = [hashes |-> c.args.hashes]
    BY <1>9, <1>12 DEF itemHashesHash, Failed, Failure
  <2> QED
    BY <2>1, <2>2, <1>9
<1> HIDE DEF env
<1> QED
  BY <1>3, <1>5, <1>14, <1>15 DEF built

-----------------------------------------------------------------------------
(* Pieces of sequences.                                                    *)

LEMMA MinOfTwo ==
  ASSUME NEW a \in Nat, NEW b \in Nat
  PROVE  Min({a, b}) = IF a <= b THEN a ELSE b
<1>1. Min({a, b}) \in {a, b} /\ \A y \in {a, b} : Min({a, b}) <= y
  <2>1. {a, b} \in SUBSET Nat /\ {a, b} # {}
    OBVIOUS
  <2> QED
    BY <2>1, Least DEF Min
<1> QED
  BY <1>1

(* A part of a sequence.                                                   *)
LEMMA Part ==
  ASSUME NEW S, NEW s \in Seq(S), NEW m \in Nat \ {0}, NEW n \in Nat, n <= Len(s), m <= n + 1
  PROVE  /\ SubSeq(s, m, n) \in Seq(S) /\ Len(SubSeq(s, m, n)) = n - m + 1
         /\ \A i \in 1..(n - m + 1) : SubSeq(s, m, n)[i] = s[m + i - 1]
<1>1. \A i \in m..n : s[i] \in S
  BY ElementOfSeq
<1> QED
  BY <1>1, SubSeqProperties

LEMMA PartIn ==
  ASSUME NEW S, NEW s \in Seq(S), NEW m \in Nat \ {0}, NEW n \in Nat, n <= Len(s)
  PROVE  SubSeq(s, m, n) \in Seq(S)
<1>1. \A i \in m..n : s[i] \in S
  BY ElementOfSeq
<1> QED
  BY <1>1, SubSeqProperties

LEMMA SliceSplit ==
  ASSUME NEW c, List(c.plaintext), NEW p, NEW from \in Nat, Slice(c, p, from), NEW n \in 0..Len(p)
  PROVE  /\ Slice(c, SubSeq(p, 1, n), from) /\ Len(SubSeq(p, 1, n)) = n
         /\ Slice(c, SubSeq(p, n + 1, Len(p)), from + n)
         /\ Len(SubSeq(p, n + 1, Len(p))) = Len(p) - n
<1> DEFINE R == Range(c.plaintext)
           a == SubSeq(p, 1, n)
           b == SubSeq(p, n + 1, Len(p))
<1>1. p \in Seq(R) /\ Len(p) \in Nat /\ Len(c.plaintext) \in Nat
      /\ from + Len(p) <= Len(c.plaintext)
  BY DEF Slice, List
<1> HIDE DEF R
<1>2. a \in Seq(R) /\ Len(a) = n /\ \A i \in 1..n : a[i] = p[i]
  BY <1>1, Part
<1>3. /\ b \in Seq(R) /\ Len(b) = Len(p) - n
      /\ \A i \in 1..(Len(p) - n) : b[i] = p[n + i]
  <2>1. /\ b \in Seq(R) /\ Len(b) = Len(p) - (n + 1) + 1
        /\ \A i \in 1..(Len(p) - (n + 1) + 1) : b[i] = p[(n + 1) + i - 1]
    BY <1>1, Part
  <2> HIDE DEF b
  <2>2. \A i \in 1..(Len(p) - n) : b[i] = p[n + i]
    <3>1. ASSUME NEW i \in 1..(Len(p) - n) PROVE b[i] = p[n + i]
      <4>1. i \in 1..(Len(p) - (n + 1) + 1) /\ (n + 1) + i - 1 = n + i
        BY <1>1
      <4> QED
        BY <2>1, <4>1
    <3> QED
      BY <3>1
  <2> QED
    BY <1>1, <2>1, <2>2
<1> HIDE DEF a, b
<1>4. \A i \in 1..Len(p) : p[i] = c.plaintext[from + i]
  BY DEF Slice
<1>5. Slice(c, a, from)
  <2>1. ASSUME NEW i \in 1..Len(a) PROVE a[i] = c.plaintext[from + i]
    <3>1. i \in 1..n /\ i \in 1..Len(p)
      BY <1>1, <1>2
    <3> QED
      BY <3>1, <1>2, <1>4
  <2>2. from + Len(a) <= Len(c.plaintext)
    BY <1>1, <1>2
  <2> QED
    BY <1>2, <2>1, <2>2 DEF Slice, R
<1>6. Slice(c, b, from + n)
  <2>1. ASSUME NEW i \in 1..Len(b) PROVE b[i] = c.plaintext[(from + n) + i]
    <3>1. i \in 1..(Len(p) - n) /\ n + i \in 1..Len(p) /\ (from + n) + i = from + (n + i)
      BY <1>1, <1>3
    <3> QED
      BY <1>3, <1>4, <3>1
  <2> QED
    BY <1>1, <1>3, <2>1 DEF Slice, R
<1> QED
  BY <1>2, <1>3, <1>5, <1>6 DEF a, b

LEMMA SliceJoin ==
  ASSUME NEW c, List(c.plaintext), NEW p, NEW q, NEW from \in Nat, Slice(c, p, from), Slice(c, q, from + Len(p))
  PROVE  Slice(c, p \o q, from) /\ Len(p \o q) = Len(p) + Len(q)
<1>1. /\ p \in Seq(Range(c.plaintext)) /\ q \in Seq(Range(c.plaintext)) /\ Len(p) \in Nat /\ Len(q) \in Nat
      /\ (from + Len(p)) + Len(q) <= Len(c.plaintext) /\ Len(c.plaintext) \in Nat
  BY DEF Slice, List
<1>2. /\ p \o q \in Seq(Range(c.plaintext)) /\ Len(p \o q) = Len(p) + Len(q)
      /\ \A i \in 1..(Len(p) + Len(q)) :
           (p \o q)[i] = IF i <= Len(p) THEN p[i] ELSE q[i - Len(p)]
  BY <1>1, ConcatProperties
<1>3. ASSUME NEW i \in 1..(Len(p) + Len(q)) PROVE (p \o q)[i] = c.plaintext[from + i]
  <2>1. CASE i <= Len(p)
    BY <1>1, <1>2, <2>1 DEF Slice
  <2>2. CASE i > Len(p)
    <3>1. i - Len(p) \in 1..Len(q) /\ (from + Len(p)) + (i - Len(p)) = from + i
      BY <1>1, <2>2
    <3>2. q[i - Len(p)] = c.plaintext[(from + Len(p)) + (i - Len(p))]
      BY <3>1 DEF Slice
    <3> QED
      BY <1>1, <1>2, <2>2, <3>1, <3>2
  <2> QED
    BY <1>1, <2>1, <2>2
<1> QED
  BY <1>1, <1>2, <1>3 DEF Slice

LEMMA SliceLen ==
  ASSUME NEW c, NEW p, NEW n, Slice(c, p, n)
  PROVE  Len(p) \in Nat /\ p \in Seq(Range(c.plaintext))
BY DEF Slice

LEMMA SliceEmpty ==
  ASSUME NEW c, NEW n \in Nat, n <= Len(c.plaintext)
  PROVE  Slice(c, << >>, n)
BY EmptySeq DEF Slice

LEMMA SliceWhole ==
  ASSUME NEW c, List(c.plaintext), NEW p, Slice(c, p, 0)
  PROVE  /\ IsPrefix(p, c.plaintext)
         /\ Len(p) = Len(c.plaintext) => p = c.plaintext
<1>1. /\ c.plaintext \in Seq(Range(c.plaintext)) /\ p \in Seq(Range(c.plaintext)) /\ Len(p) \in Nat
      /\ Len(p) <= Len(c.plaintext) /\ \A i \in 1..Len(p) : p[i] = c.plaintext[i]
  <2>1. \A i \in 1..Len(p) : 0 + i = i
    OBVIOUS
  <2> QED
    BY <2>1 DEF Slice, List
<1>2. SubSeq(c.plaintext, 1, Len(p)) = p
  <2>1. /\ SubSeq(c.plaintext, 1, Len(p)) \in Seq(Range(c.plaintext))
        /\ Len(SubSeq(c.plaintext, 1, Len(p))) = Len(p) - 1 + 1
        /\ \A i \in 1..(Len(p) - 1 + 1) : SubSeq(c.plaintext, 1, Len(p))[i] = c.plaintext[1 + i - 1]
    BY <1>1, Part
  <2>2. \A i \in 1..Len(p) : 1 + i - 1 = i
    OBVIOUS
  <2>3. Len(SubSeq(c.plaintext, 1, Len(p))) = Len(p)
    BY <1>1, <2>1
  <2>4. \A i \in 1..Len(p) : SubSeq(c.plaintext, 1, Len(p))[i] = p[i]
    BY <1>1, <2>1, <2>2
  <2> QED
    BY <1>1, <2>1, <2>3, <2>4, SeqEqual
<1>3. Len(p) = Len(c.plaintext) => p = c.plaintext
  BY <1>1, SeqEqual
<1> QED
  BY <1>1, <1>2, <1>3 DEF IsPrefix

LEMMA Sizes ==
  /\ CHUNK_SIZE \in Nat \ {0} /\ TAG_SIZE \in Nat \ {0} /\ COMMITMENT_LENGTH \in Nat \ {0}
  /\ PieceSizes \subseteq Nat \ {0} /\ SEALED_CHUNK_SIZE \in Nat \ {0}
  /\ MIN_PASSPHRASE_BLOB_LENGTH \in Nat \ {0}
<1>1. /\ CHUNK_SIZE \in Nat \ {0} /\ TAG_SIZE \in Nat \ {0} /\ COMMITMENT_LENGTH \in Nat \ {0}
      /\ PieceSizes \subseteq Nat \ {0}
  BY StreamAssumption
<1> QED
  BY <1>1 DEF SEALED_CHUNK_SIZE, MIN_PASSPHRASE_BLOB_LENGTH

LEMMA AtNext ==
  ASSUME NEW n \in Nat
  PROVE  At(n) \in Nat /\ At(n + 1) = At(n) + CHUNK_SIZE
BY Sizes DEF At

(* Storage hands over bytes that were sealed, and no others.               *)
LEMMA DeliveriesOf ==
  ASSUME NEW bytes, List(bytes), bytes # << >>
  PROVE  \A blob \in Deliveries(bytes) : blob \in Seq(Range(bytes))
<1> DEFINE R == Range(bytes)
           n == Len(bytes)
           size == SEALED_CHUNK_SIZE
           count == (n + size - 1) \div size
           EndOf(i) == Min({i * size, n})
           Before(i) == SubSeq(bytes, 1, EndOf(i - 1))
           Block(i) == SubSeq(bytes, EndOf(i - 1) + 1, EndOf(i))
           After(i) == SubSeq(bytes, EndOf(i) + 1, n)
<1>1. bytes \in Seq(R) /\ n \in Nat /\ n # 0
  BY EmptySeq DEF List
<1>2. size \in Nat \ {0}
  BY Sizes
<1>3. Deliveries(bytes)
        = {SubSeq(bytes, 1, k) : k \in 0..n} \cup {SubSeq(bytes, k, n) : k \in 2..n}
          \cup {Before(i) \o After(i) : i \in 1..count}
          \cup {Before(i) \o Block(i + 1) \o Block(i) \o After(i + 1) : i \in 1..(count - 1)}
          \cup {bytes \o Block(count), Append(bytes, bytes[1]), Block(1) \o bytes}
  BY DEF Deliveries
<1> HIDE DEF R, n, size
<1>4. count \in Nat
  BY <1>1, <1>2
<1> HIDE DEF count
<1>5. \A i \in Nat : EndOf(i) \in Nat /\ EndOf(i) <= n
  <2>1. ASSUME NEW i \in Nat PROVE EndOf(i) \in Nat /\ EndOf(i) <= n
    <3>1. i * size \in Nat
      BY <1>2
    <3> QED
      BY <1>1, <3>1, MinOfTwo
  <2> QED
    BY <2>1
<1> HIDE DEF EndOf
<1>6. \A i \in Nat \ {0} : {Before(i), Block(i), After(i)} \subseteq Seq(R)
  <2>1. ASSUME NEW i \in Nat \ {0} PROVE {Before(i), Block(i), After(i)} \subseteq Seq(R)
    <3>1. /\ EndOf(i - 1) \in Nat /\ EndOf(i - 1) <= n
          /\ EndOf(i) \in Nat /\ EndOf(i) <= n
      BY <1>5
    <3> QED
      BY <1>1, <3>1, PartIn DEF n
  <2> QED
    BY <2>1
<1>7. SubSeq(bytes, 1, n) \in Seq(R) /\ bytes[1] \in R
  BY <1>1, PartIn, ElementOfSeq DEF n
<1>8. count # 0
  <2>1. n + size - 1 >= size
    BY <1>1, <1>2
  <2> QED
    BY <1>1, <1>2, <2>1 DEF count
<1> HIDE DEF Before, Block, After
<1> QED
  <2>1. \A k \in 0..n : SubSeq(bytes, 1, k) \in Seq(R)
    BY <1>1, PartIn DEF n
  <2>2. \A k \in 2..n : SubSeq(bytes, k, n) \in Seq(R)
    BY <1>1, PartIn DEF n
  <2>3. \A i \in 1..count : Before(i) \o After(i) \in Seq(R)
    BY <1>4, <1>6, ConcatProperties
  <2>4. \A i \in 1..(count - 1) : Before(i) \o Block(i + 1) \o Block(i) \o After(i + 1) \in Seq(R)
    <3>1. ASSUME NEW i \in 1..(count - 1)
          PROVE  Before(i) \o Block(i + 1) \o Block(i) \o After(i + 1) \in Seq(R)
      <4>1. {Before(i), Block(i + 1), Block(i), After(i + 1)} \subseteq Seq(R)
        BY <1>4, <1>6
      <4> QED
        BY <4>1, ConcatProperties
    <3> QED
      BY <3>1
  <2>5. {bytes \o Block(count), Append(bytes, bytes[1]), Block(1) \o bytes} \subseteq Seq(R)
    BY <1>1, <1>4, <1>6, <1>7, <1>8, ConcatProperties
  <2> QED
    BY <1>3, <2>1, <2>2, <2>3, <2>4, <2>5 DEF R

-----------------------------------------------------------------------------
(* Chunks.                                                                 *)

(* A chunk that is cut where its nonce says is sealed to genuine bytes.    *)
LEMMA SealsGenuine ==
  ASSUME NEW c, NEW n, NEW final, NEW chunk, Cuts(c, n, final, chunk), NEW result,
         result = sealChunk(SealHeader(c).key, n, chunk, final), ~Failed(result)
  PROVE  /\ List(result.sealed) /\ Len(result.sealed) > 0
         /\ \A i \in DOMAIN result.sealed : Genuine(c, result.sealed[i])
<1> DEFINE k == SealHeader(c).key
           size == Len(chunk) + TAG_SIZE
           sealed == SealedChunk(k, ChunkNonce(n, final), chunk)
           of == [key |-> k, nonce |-> ChunkNonce(n, final), plain |-> chunk]
<1>1. result.sealed = sealed
  BY DEF sealChunk, Failed, Failure
<1>2. size \in Nat \ {0}
  BY Sizes DEF Cuts, Slice
<1>3. sealed = [i \in 1..size |-> [of |-> of, at |-> i]]
  BY DEF SealedChunk
<1> HIDE DEF size, sealed, k
<1>4. sealed = [i \in 1..size |-> sealed[i]]
  BY <1>3
<1>5. List(sealed) /\ Len(sealed) = size /\ DOMAIN sealed = 1..size
  BY <1>2, <1>4, IsList
<1>6. ASSUME NEW i \in 1..size PROVE Genuine(c, sealed[i])
  <2> DEFINE b == sealed[i]
  <2>1. b = [of |-> of, at |-> i]
    BY <1>3
  <2>2. "of" \in DOMAIN b /\ b.of = of
    BY <2>1
  <2>3. of.nonce.counter = n /\ of.nonce.final = final /\ of.plain = chunk
    BY DEF ChunkNonce
  <2> HIDE DEF b
  <2> QED
    BY <2>2, <2>3 DEF Genuine, OfChunk, k, b
<1> QED
  BY <1>1, <1>2, <1>5, <1>6

(* The bytes that lead a body belong to no chunk.                          *)
LEMMA LeadIsNoChunk ==
  ASSUME NEW c, ~Failed(SealHeader(c)), NEW b \in Range(SealHeader(c).lead)
  PROVE  "of" \notin DOMAIN b
<1>1. CASE c.path = "slots"
  <2>1. SealHeader(c).lead = << >>
    BY <1>1 DEF SealHeader, SlotsHeader
  <2> QED
    BY <2>1 DEF Range
<1>2. CASE c.path # "slots"
  <2> DEFINE tag == passphraseSealedPoeSeal(c.args, << >>).blob.commitment
  <2>1. SealHeader(c).lead = Commitment(tag)
    BY <1>2 DEF SealHeader, PassphraseHeader
  <2> HIDE DEF tag
  <2>2. PICK i \in 1..COMMITMENT_LENGTH : b = [commitment |-> tag, at |-> i]
    BY <2>1 DEF Range, Commitment
  <2> QED
    BY <2>2
<1> QED
  BY <1>1, <1>2

(* A chunk of genuine bytes that opens is one that was sealed, under that  *)
(* key and for that place.                                                 *)
LEMMA OpensGenuine ==
  ASSUME NEW c, ~Failed(SealHeader(c)), NEW bytes, \A i \in DOMAIN bytes : Genuine(c, bytes[i]),
         NEW chunk \in Seq(Range(bytes)), NEW k, NEW n, NEW final, NEW result,
         result = openChunk(k, n, chunk, final), ~Failed(result)
  PROVE  k = SealHeader(c).key /\ Cuts(c, n, final, result.plain)
<1> DEFINE b == chunk[1]
           nonce == ChunkNonce(n, final)
           plain == b.of.plain
<1>1. /\ result.plain = plain /\ Len(chunk) >= TAG_SIZE /\ "of" \in DOMAIN b
      /\ chunk = SealedChunk(k, nonce, plain)
  BY Sizes DEF openChunk, Failed, Failure, Authentic
<1>2. 1 \in 1..Len(chunk) /\ b \in Range(bytes)
  BY <1>1, Sizes, ElementOfSeq
<1>3. Genuine(c, b)
  BY <1>2 DEF Range
<1>4. OfChunk(c, b)
  BY <1>1, <1>3, LeadIsNoChunk DEF Genuine
<1>5. b.of = [key |-> k, nonce |-> nonce, plain |-> plain]
  <2>1. DOMAIN chunk = 1..(Len(plain) + TAG_SIZE)
    BY <1>1 DEF SealedChunk
  <2>2. 1 \in DOMAIN chunk
    BY <1>2
  <2> HIDE DEF b, nonce
  <2>3. chunk[1] = [of |-> [key |-> k, nonce |-> nonce, plain |-> plain], at |-> 1]
    BY <1>1, <2>1, <2>2 DEF SealedChunk
  <2> QED
    BY <2>3 DEF b
<1>6. b.of.nonce = [counter |-> n, final |-> final]
  BY <1>5 DEF ChunkNonce
<1> HIDE DEF b
<1>7. b.of.nonce.counter = n /\ b.of.nonce.final = final
  BY <1>6
<1>8. b.of.key = k /\ b.of.key = SealHeader(c).key
  BY <1>4, <1>5 DEF OfChunk
<1> QED
  BY <1>1, <1>4, <1>7, <1>8 DEF OfChunk

-----------------------------------------------------------------------------
(* The invariant is kept.                                                  *)

(* A call that ends, but not as matched.                                   *)
LEMMA Ends ==
  ASSUME StreamInv, call' = call, header' = header, stage' = "ended",
         Slice(call, opened', 0), opened' # << >> => ~Altered, outcome' # "matched",
         blobSource' = "open" => end' \in {"rejected", "never driven"}
  PROVE  StreamInv'
<1>1. HeadInv' /\ BodyInv' /\ CutInv' /\ FetchInv'
  BY DEF HeadInv, BodyInv, CutInv, FetchInv, Sealed, Fetched
<1>2. Altered' <=> Altered
  BY DEF Altered
<1>3. OpenInv'
  BY <1>2 DEF OpenInv
<1>4. EndInv'
  BY DEF EndInv
<1> QED
  BY <1>1, <1>3, <1>4 DEF StreamInv

(* One that ends at once, with nothing more opened.                        *)
LEMMA EndsHere ==
  ASSUME StreamInv, call' = call, header' = header, opened' = opened, NEW how, NEW settled,
         settled # "matched",
         \/ EndWith(how, settled)
         \/ LeavingOpen(how, settled) /\ how \in {"rejected", "never driven"}
  PROVE  StreamInv'
<1>1. /\ stage' = "ended" /\ outcome' # "matched"
      /\ blobSource' = "open" => end' \in {"rejected", "never driven"}
  BY DEF EndWith, LeavingOpen
<1>2. Slice(call, opened', 0) /\ (opened' # << >> => ~Altered)
  BY DEF StreamInv, OpenInv
<1> QED
  BY <1>1, <1>2, Ends

LEMMA Calls ==
  ASSUME StreamInv
  PROVE  /\ call \in StreamCalls /\ call.path \in {"slots", "passphrase"}
         /\ List(call.plaintext) /\ Len(call.plaintext) \in Nat /\ Text0 = call.plaintext
<1>1. call \in StreamCalls
  BY DEF StreamInv
<1>2. call.path \in {"slots", "passphrase"} /\ List(call.plaintext)
  BY <1>1, StorageAssumption
<1> QED
  BY <1>1, <1>2 DEF List, Text0

(* Nobody is told "matched" before the end.                                *)
LEMMA Unsettled ==
  ASSUME StreamInv, stage # "ended"
  PROVE  outcome # "matched"
BY DEF StreamInv, EndInv

LEMMA SealStarts ==
  ASSUME StreamInv, sealStream
  PROVE  StreamInv'
<1>1. PICK built : built = SealHeader(call)
                   /\ IF aborted THEN EndWith("aborted", outcome)
                      ELSE IF Failed(built) THEN EndWith("rejected", outcome)
                      ELSE /\ Continue("seal")
                           /\ header' = [built |-> built.envelope, envelope |-> built.envelope,
                                         blob |-> << >>]
                           /\ key' = built.key /\ body' = built.lead /\ source' = call.plaintext
  BY DEF sealStream
<1>2. /\ stage = "start" /\ UNCHANGED << call, held, index, opened, aborted >>
  BY DEF sealStream
<1>3. CASE aborted
  <2>1. EndWith("aborted", outcome) /\ header' = header
    BY <1>3 DEF sealStream
  <2> QED
    BY <2>1, <1>2, EndsHere, Unsettled
<1>4. CASE ~aborted /\ Failed(built)
  <2>1. EndWith("rejected", outcome) /\ header' = header
    BY <1>1, <1>4 DEF sealStream
  <2> QED
    BY <2>1, <1>2, EndsHere, Unsettled
<1>5. CASE ~aborted /\ ~Failed(built)
  <2>1. /\ Continue("seal")
        /\ header' = [built |-> built.envelope, envelope |-> built.envelope, blob |-> << >>]
        /\ key' = built.key /\ body' = built.lead /\ source' = call.plaintext
    BY <1>1, <1>5
  <2>2. built = SealHeader(call) /\ Built' = built
    BY <1>1, <1>2 DEF Built
  <2>3. stage' = "seal" /\ outcome' = outcome /\ end' = end /\ blobSource' = blobSource
    BY <2>1 DEF Continue
  <2>4. HeadInv'
    BY <1>5, <2>1, <2>2 DEF HeadInv
  <2>5. List(built.lead) /\ \A i \in DOMAIN built.lead : Genuine(call, built.lead[i])
    <3>1. List(built.lead)
      <4>1. CASE call.path = "slots"
        <5>1. built.lead = << >>
          BY <1>5, <2>2, <4>1 DEF SealHeader, SlotsHeader
        <5> QED
          BY <5>1, EmptySeq DEF List
      <4>2. CASE call.path # "slots"
        <5> DEFINE tag == passphraseSealedPoeSeal(call.args, << >>).blob.commitment
                   lead == Commitment(tag)
        <5>1. built.lead = lead
          BY <1>5, <2>2, <4>2 DEF SealHeader, PassphraseHeader
        <5>2. lead = [i \in 1..COMMITMENT_LENGTH |-> lead[i]]
          BY DEF Commitment
        <5> HIDE DEF lead
        <5> QED
          BY <5>1, <5>2, Sizes, IsList
      <4> QED
        BY <4>1, <4>2
    <3>2. \A i \in DOMAIN built.lead : Genuine(call, built.lead[i])
      BY <2>2 DEF Genuine, Range
    <3> QED
      BY <3>1, <3>2
  <2>6. BodyInv'
    BY <1>2, <2>1, <2>3, <2>5 DEF BodyInv, Sealed
  <2>7. index = 0 /\ held = NothingHeld /\ opened = << >>
    BY <1>2 DEF StreamInv, OpenInv
  <2>8. CutInv'
    <3>1. held.pending = << >> /\ held.acc = << >> /\ held.piece = << >> /\ held.ended = FALSE
          /\ HeldForm'
      BY <1>2, <2>7 DEF HeldForm, NothingHeld
    <3>2. At(0) = 0
      BY Sizes DEF At
    <3>3. Slice(call, << >>, 0)
      BY Calls, SliceEmpty
    <3>4. Slice(call, call.plaintext, 0)
      BY Calls DEF Slice, List
    <3>5. PendingEnd' = 0 /\ AccEnd' = 0 /\ PieceEnd' = 0
      BY <1>2, <2>7, <3>1, <3>2 DEF PendingEnd, AccEnd, PieceEnd
    <3>6. held' = held /\ index' = 0 /\ call' = call /\ key' = Built'.key
      BY <1>2, <2>1, <2>2, <2>7
    <3>7. /\ Slice(call', held'.pending, At(index')) /\ Slice(call', held'.acc, PendingEnd')
          /\ Slice(call', held'.piece, AccEnd') /\ Slice(call', source', PieceEnd')
      BY <2>1, <3>1, <3>2, <3>3, <3>4, <3>5, <3>6
    <3>8. PieceEnd' + Len(source') = Len(Text0')
      BY <2>1, <3>5, <3>6, Calls DEF Text0
    <3>9. Len(held'.pending) \in {0, CHUNK_SIZE} /\ Len(held'.acc) < CHUNK_SIZE
      BY <3>1, <3>6, Sizes
    <3> QED
      BY <3>1, <3>6, <3>7, <3>8, <3>9 DEF CutInv
  <2>9. FetchInv' /\ OpenInv' /\ EndInv'
    BY <1>2, <2>3, <2>7 DEF StreamInv, FetchInv, OpenInv, EndInv, Fetched
  <2> QED
    BY <1>2, <2>3, <2>4, <2>6, <2>8, <2>9 DEF StreamInv
<1> QED
  BY <1>3, <1>4, <1>5

LEMMA Stores ==
  ASSUME StreamInv, Store
  PROVE  StreamInv'
<1>1. /\ stage = "sealed" /\ stage' = "fetched" /\ outcome' = outcome /\ end' = end
      /\ held' = NothingHeld /\ index' = 0 /\ UNCHANGED << body, opened, call, key, aborted >>
  BY DEF Store, Continue
<1>2. List(body) /\ body # << >>
  BY <1>1 DEF StreamInv, BodyInv, Sealed
<1>3. /\ source' \in Seq(Range(body))
      /\ header'.built = header.built
      /\ header'.envelope \in {header.built} \cup HeaderAttacks(header.built)
  <2>h. header.envelope \in {header.built} \cup HeaderAttacks(header.built)
    BY <1>1 DEF StreamInv, HeadInv, Sealed
  <2>1. CASE \E blob \in Deliveries(body) :
               source' = blob /\ header' = [header EXCEPT !.blob = blob]
    <3>1. source' \in Seq(Range(body))
      BY <1>2, <2>1, DeliveriesOf
    <3>2. header'.built = header.built /\ header'.envelope = header.envelope
      BY <2>1
    <3> QED
      BY <3>1, <3>2, <2>h
  <2>2. CASE \E envelope \in HeaderAttacks(header.built) :
               source' = body
               /\ header' = [header EXCEPT !.envelope = envelope, !.blob = body]
    <3>1. PICK envelope \in HeaderAttacks(header.built) :
            source' = body /\ header' = [header EXCEPT !.envelope = envelope, !.blob = body]
      BY <2>2
    <3>2. header'.built = header.built
      BY <3>1
    <3>3. header'.envelope \in {envelope, header.envelope}
      BY <3>1
    <3> QED
      BY <1>2, <3>1, <3>2, <3>3, <2>h DEF List
  <2> QED
    BY <2>1, <2>2 DEF Store
<1>4. HeadInv'
  BY <1>1, <1>3 DEF StreamInv, HeadInv, Sealed, Built
<1>5. BodyInv'
  BY <1>1 DEF StreamInv, BodyInv, Sealed
<1>6. FetchInv'
  <2>1. /\ HeldForm' /\ held'.pending = << >> /\ held'.acc = << >> /\ held'.piece = << >>
    BY <1>1 DEF HeldForm, NothingHeld
  <2>2. << >> \in Seq(Range(body))
    BY EmptySeq
  <2> QED
    BY <1>1, <1>3, <2>1, <2>2 DEF FetchInv
<1>7. opened = << >> /\ Slice(call, << >>, 0)
  BY <1>1 DEF StreamInv, OpenInv
<1>8. OpenInv'
  BY <1>1, <1>7 DEF OpenInv
<1>9. CutInv' /\ EndInv'
  BY <1>1 DEF CutInv, StreamInv, EndInv
<1> QED
  BY <1>1, <1>4, <1>5, <1>6, <1>8, <1>9 DEF StreamInv, Sealed

(* What an open does not touch is as it was.                               *)
LEMMA HeadKept ==
  ASSUME StreamInv, stage \in Sealed, stage' \in Sealed, call' = call, header' = header,
         body' = body
  PROVE  HeadInv' /\ BodyInv' /\ CutInv'
BY DEF StreamInv, HeadInv, BodyInv, CutInv, Sealed, Built

LEMMA Unwraps ==
  ASSUME StreamInv, unwrapStream
  PROVE  StreamInv'
<1> DEFINE trial == eciesSealedPoeTrialDecrypt(header.envelope, call.hashes, call.keys)
<1>1. /\ stage = "fetched" /\ call.path = "slots"
      /\ UNCHANGED << source, held, call, header, index, body, opened, aborted >>
      /\ IF aborted THEN EndWith("aborted", outcome)
         ELSE IF Failed(trial) THEN EndWith("rejected", outcome)
         ELSE IF trial.kind = "no_match" THEN EndWith("returned", "WRONG_RECIPIENT_KEY")
         ELSE /\ key' = slotsPayloadKey(trial.cek, Get(header.envelope, "nonce"))
              /\ Continue("open")
  BY DEF unwrapStream, OpenUnchanged
<1> HIDE DEF trial
<1>2. CASE aborted
  BY <1>1, <1>2, EndsHere, Unsettled
<1>3. CASE ~aborted /\ Failed(trial)
  BY <1>1, <1>3, EndsHere, Unsettled
<1>4. CASE ~aborted /\ ~Failed(trial) /\ trial.kind = "no_match"
  BY <1>1, <1>4, EndsHere
<1>5. CASE ~aborted /\ ~Failed(trial) /\ trial.kind # "no_match"
  <2>1. /\ key' = slotsPayloadKey(trial.cek, Get(header.envelope, "nonce"))
        /\ stage' = "open" /\ outcome' = outcome /\ end' = end
    BY <1>1, <1>5 DEF Continue
  <2>2. /\ HeadInv' /\ BodyInv' /\ CutInv'
    BY <1>1, <2>1, HeadKept DEF Sealed
  <2>3. FetchInv'
    <3>1. held.acc = << >> /\ Len(<< >>) < SEALED_CHUNK_SIZE
      BY <1>1, Sizes DEF StreamInv, FetchInv, Fetched, NothingHeld
    <3> QED
      BY <1>1, <2>1, <3>1 DEF StreamInv, FetchInv, Fetched, HeldForm
  <2>4. /\ ~Failed(Built) /\ header.built = Built.envelope /\ call \in StreamCalls
        /\ header.envelope \in {Built.envelope} \cup HeaderAttacks(Built.envelope)
    BY <1>1 DEF StreamInv, HeadInv, Sealed
  <2>5. key' = Built.key => ~Altered
    <3>1. ASSUME key' = Built.key PROVE ~Altered
      <4>1. header.envelope = SealHeader(call).envelope /\ call.hashes = call.args.hashes
        BY <1>1, <1>5, <2>1, <2>4, <3>1, SlotsBound DEF Built, trial
      <4> QED
        BY <4>1, <2>4 DEF Altered, Built
    <3> QED
      BY <3>1
  <2>6. index = 0 /\ opened = << >> /\ Slice(call, << >>, 0) /\ At(0) = 0
    BY <1>1, Sizes DEF StreamInv, OpenInv, At
  <2>7. Built' = Built /\ Altered' = Altered
    BY <1>1 DEF Built, Altered
  <2>8. OpenInv'
    BY <1>1, <2>1, <2>5, <2>6, <2>7 DEF OpenInv
  <2>9. EndInv'
    BY <1>1, <2>1 DEF StreamInv, EndInv
  <2> QED
    BY <1>1, <2>1, <2>2, <2>3, <2>8, <2>9 DEF StreamInv, Sealed
<1> QED
  BY <1>2, <1>3, <1>4, <1>5

LEMMA PassphraseOpens ==
  ASSUME StreamInv, passphraseOpenStream
  PROVE  StreamInv'
<1> DEFINE input == openInput(header.envelope, call.passphrase, call.hashes)
<1>1. /\ stage = "fetched" /\ call.path = "passphrase"
      /\ UNCHANGED << key, source, held, call, header, index, body, opened, aborted >>
      /\ IF aborted THEN EndWith("aborted", outcome)
         ELSE IF input # "ok" THEN EndWith("rejected", outcome) ELSE Continue("lookahead")
  BY DEF passphraseOpenStream, OpenUnchanged
<1>2. CASE aborted \/ input # "ok"
  BY <1>1, <1>2, EndsHere, Unsettled
<1>3. CASE ~aborted /\ input = "ok"
  <2>1. stage' = "lookahead" /\ outcome' = outcome /\ end' = end
    BY <1>1, <1>3 DEF Continue
  <2>2. /\ HeadInv' /\ BodyInv' /\ CutInv'
    BY <1>1, <2>1, HeadKept DEF Sealed
  <2>3. FetchInv'
    BY <1>1, <2>1 DEF StreamInv, FetchInv, Fetched, HeldForm
  <2>4. OpenInv'
    BY <1>1, <1>3, <2>1 DEF StreamInv, OpenInv, Altered
  <2>5. EndInv'
    BY <1>1, <2>1 DEF StreamInv, EndInv
  <2> QED
    BY <1>1, <2>1, <2>2, <2>3, <2>4, <2>5 DEF StreamInv, Sealed
<1> QED
  BY <1>2, <1>3

LEMMA LooksAhead ==
  ASSUME StreamInv, Lookahead
  PROVE  StreamInv'
<1>1. /\ stage = "lookahead"
      /\ UNCHANGED << key, call, header, index, body, opened, aborted >>
  BY DEF Lookahead, OpenUnchanged
<1>2. /\ HeldForm /\ List(body)
      /\ {held.pending, held.acc, held.piece, source} \subseteq Seq(Range(body))
  BY <1>1 DEF StreamInv, FetchInv, BodyInv, Fetched, Sealed
<1>3. CASE aborted
  <2>1. EndWith("aborted", outcome)
    BY <1>3 DEF Lookahead
  <2> QED
    BY <1>1, <2>1, EndsHere, Unsettled
<1>4. CASE ~aborted /\ Len(held.acc) >= MIN_PASSPHRASE_BLOB_LENGTH
  <2>1. /\ stage' = "kdf" /\ outcome' = outcome /\ end' = end /\ UNCHANGED << source, held >>
    BY <1>4 DEF Lookahead, Continue
  <2>2. /\ HeadInv' /\ BodyInv' /\ CutInv'
    BY <1>1, <2>1, HeadKept DEF Sealed
  <2>3. held.acc # << >>
    BY <1>4, Sizes
  <2>4. FetchInv'
    BY <1>1, <1>2, <2>1, <2>3 DEF FetchInv, HeldForm
  <2>5. OpenInv' /\ EndInv'
    BY <1>1, <2>1 DEF StreamInv, OpenInv, EndInv, Altered
  <2> QED
    BY <1>1, <2>1, <2>2, <2>4, <2>5 DEF StreamInv, Sealed
<1>5. CASE ~aborted /\ ~ (Len(held.acc) >= MIN_PASSPHRASE_BLOB_LENGTH) /\ source = << >>
  <2>1. EndWith("returned", "TAMPERED_CIPHERTEXT")
    BY <1>5 DEF Lookahead
  <2> QED
    BY <1>1, <2>1, EndsHere
<1>6. CASE ~aborted /\ ~ (Len(held.acc) >= MIN_PASSPHRASE_BLOB_LENGTH) /\ source # << >>
  <2>1. PICK n \in PieceSizes :
          /\ n <= Len(source)
          /\ held' = [held EXCEPT !.acc = @ \o SubSeq(source, 1, n)]
          /\ source' = SubSeq(source, n + 1, Len(source))
          /\ blobSource' = "open" /\ UNCHANGED << stage, outcome, end >>
    BY <1>6 DEF Lookahead
  <2>2. n \in Nat \ {0} /\ Len(source) \in Nat
    BY <1>2, Sizes
  <2>3. SubSeq(source, 1, n) \in Seq(Range(body)) /\ source' \in Seq(Range(body))
    BY <1>2, <2>1, <2>2, PartIn
  <2>4. /\ held'.acc = held.acc \o SubSeq(source, 1, n) /\ HeldForm'
        /\ held'.pending = held.pending /\ held'.piece = held.piece
    BY <1>2, <2>1 DEF HeldForm
  <2>5. held'.acc \in Seq(Range(body))
    BY <1>2, <2>3, <2>4, ConcatProperties
  <2>6. /\ HeadInv' /\ BodyInv' /\ CutInv'
    BY <1>1, <2>1, HeadKept DEF Sealed
  <2>7. FetchInv'
    BY <1>1, <1>2, <2>1, <2>3, <2>4, <2>5 DEF FetchInv
  <2>8. OpenInv' /\ EndInv'
    BY <1>1, <2>1 DEF StreamInv, OpenInv, EndInv, Altered
  <2> QED
    BY <1>1, <2>1, <2>6, <2>7, <2>8 DEF StreamInv, Sealed
<1> QED
  BY <1>3, <1>4, <1>5, <1>6

LEMMA Verifies ==
  ASSUME StreamInv, VerifyCommitment
  PROVE  StreamInv'
<1> DEFINE cek == argon2Cek(normalizePassphrase(call.passphrase), SaltOf(header.envelope),
                            ParamsOf(header.envelope))
           tag == commitmentFor(header.envelope, cek, itemHashesHash(call.hashes))
<1>1. /\ stage = "kdf" /\ held' = NothingHeld
      /\ UNCHANGED << call, header, index, body, opened, aborted >>
      /\ IF Failed(cek) THEN LeavingOpen("rejected", outcome)
         ELSE IF Committed(cek, tag)
         THEN /\ key' = passphrasePayloadKey(cek, Get(header.envelope, "nonce"))
              /\ source' = SubSeq(held.acc, COMMITMENT_LENGTH + 1, Len(held.acc)) \o source
              /\ Continue("open")
         ELSE EndWith("returned", "TAMPERED_CIPHERTEXT")
  BY DEF VerifyCommitment, OpenUnchanged
<1> HIDE DEF cek, tag
<1>2. CASE Failed(cek)
  BY <1>1, <1>2, EndsHere, Unsettled
<1>3. CASE ~Failed(cek) /\ ~Committed(cek, tag)
  BY <1>1, <1>3, EndsHere
<1>4. CASE ~Failed(cek) /\ Committed(cek, tag)
  <2>1. /\ source' = SubSeq(held.acc, COMMITMENT_LENGTH + 1, Len(held.acc)) \o source
        /\ stage' = "open" /\ outcome' = outcome /\ end' = end
    BY <1>1, <1>4 DEF Continue
  <2>2. /\ held.acc \in Seq(Range(body)) /\ source \in Seq(Range(body)) /\ held.acc # << >>
        /\ \A i \in DOMAIN body : Genuine(call, body[i])
        /\ ~Failed(Built) /\ header.built = Built.envelope /\ call \in StreamCalls
        /\ header.envelope \in {Built.envelope} \cup HeaderAttacks(Built.envelope)
        /\ call.path = "passphrase"
        /\ openInput(header.envelope, call.passphrase, call.hashes) = "ok"
        /\ index = 0 /\ opened = << >> /\ Slice(call, << >>, 0)
    BY <1>1 DEF StreamInv, HeadInv, BodyInv, FetchInv, OpenInv, Sealed, Fetched
  <2>3. ~Altered
    <3> DEFINE b == held.acc[1]
    <3>1. b = [commitment |-> tag, at |-> 1]
      <4>1. 1 \in 1..COMMITMENT_LENGTH
        BY Sizes
      <4>2. SubSeq(held.acc, 1, COMMITMENT_LENGTH)[1] = Commitment(tag)[1]
        BY <1>4 DEF Committed
      <4>3. Commitment(tag)[1] = [commitment |-> tag, at |-> 1]
        BY <4>1 DEF Commitment
      <4>4. SubSeq(held.acc, 1, COMMITMENT_LENGTH)[1] = held.acc[1]
        <5> DEFINE S == {held.acc[i] : i \in 1..COMMITMENT_LENGTH}
        <5>1. \A i \in 1..COMMITMENT_LENGTH : held.acc[i] \in S
          OBVIOUS
        <5> HIDE DEF S
        <5>2. \A i \in 1..(COMMITMENT_LENGTH - 1 + 1) :
                SubSeq(held.acc, 1, COMMITMENT_LENGTH)[i] = held.acc[1 + i - 1]
          BY <5>1, Sizes, SubSeqProperties
        <5>3. ASSUME NEW i \in 1..COMMITMENT_LENGTH
              PROVE  SubSeq(held.acc, 1, COMMITMENT_LENGTH)[i] = held.acc[i]
          <6>1. i \in 1..(COMMITMENT_LENGTH - 1 + 1) /\ 1 + i - 1 = i
            BY Sizes
          <6> QED
            BY <5>2, <6>1
        <5> QED
          BY <4>1, <5>3
      <4> QED
        BY <4>2, <4>3, <4>4
    <3>2. b \in Range(body) /\ "of" \notin DOMAIN b
      BY <2>2, <3>1, ElementOfSeq
    <3>3. Genuine(call, b)
      BY <2>2, <3>2 DEF Range
    <3>4. b \in Range(SealHeader(call).lead)
      BY <3>2, <3>3 DEF Genuine, OfChunk
    <3>5. b.commitment = commitmentFor(header.envelope, cek, itemHashesHash(call.hashes))
      BY <3>1 DEF tag
    <3> HIDE DEF b
    <3>6. header.envelope = SealHeader(call).envelope /\ call.hashes = call.args.hashes
      BY <2>2, <3>4, <3>5, PassphraseBound DEF Built
    <3> QED
      BY <2>2, <3>6 DEF Altered, Built
  <2>4. /\ HeadInv' /\ BodyInv' /\ CutInv'
    BY <1>1, <2>1, HeadKept DEF Sealed
  <2>5. source' \in Seq(Range(body))
    <3>1. SubSeq(held.acc, COMMITMENT_LENGTH + 1, Len(held.acc)) \in Seq(Range(body))
      BY <2>2, Sizes, PartIn
    <3> QED
      BY <2>1, <2>2, <3>1, ConcatProperties
  <2>6. FetchInv'
    <3>1. /\ HeldForm' /\ held'.pending = << >> /\ held'.acc = << >> /\ held'.piece = << >>
      BY <1>1 DEF HeldForm, NothingHeld
    <3>2. << >> \in Seq(Range(body)) /\ Len(<< >>) < SEALED_CHUNK_SIZE
      BY EmptySeq, Sizes
    <3> QED
      BY <1>1, <2>1, <2>5, <3>1, <3>2 DEF FetchInv
  <2>7. At(0) = 0 /\ Altered' = Altered
    BY <1>1, Sizes DEF At, Altered
  <2>8. OpenInv' /\ EndInv'
    BY <1>1, <2>1, <2>2, <2>3, <2>7 DEF StreamInv, OpenInv, EndInv
  <2> QED
    BY <1>1, <2>1, <2>4, <2>6, <2>8 DEF StreamInv, Sealed
<1> QED
  BY <1>2, <1>3, <1>4

LEMMA ReadsPiece ==
  ASSUME StreamInv, ReadPiece
  PROVE  StreamInv'
<1>1. /\ stage \in {"seal", "open"} /\ held.piece = << >> /\ ~held.ended /\ source # << >>
      /\ UNCHANGED << index, body, opened, call, header, key, aborted >>
  BY DEF ReadPiece, Driving, DriveUnchanged
<1>2. CASE aborted
  <2>1. EndWith("aborted", outcome)
    BY <1>2 DEF ReadPiece
  <2> QED
    BY <1>1, <2>1, EndsHere, Unsettled
<1>3. CASE ~aborted
  <2>1. PICK n \in PieceSizes :
          /\ n <= Len(source)
          /\ held' = [held EXCEPT !.piece = SubSeq(source, 1, n)]
          /\ source' = SubSeq(source, n + 1, Len(source))
          /\ UNCHANGED << stage, outcome, end >>
    BY <1>3 DEF ReadPiece
  <2>2. n \in Nat \ {0}
    BY Sizes
  <2>3. OpenInv' /\ EndInv'
    BY <1>1, <2>1 DEF StreamInv, OpenInv, EndInv, Altered, Built, Text0
  <2>4. HeadInv' /\ BodyInv'
    BY <1>1, <2>1 DEF StreamInv, HeadInv, BodyInv, Built
  <2>5. HeldForm
    BY <1>1 DEF StreamInv, CutInv, FetchInv, Fetched
  <2>6. /\ HeldForm' /\ held'.piece = SubSeq(source, 1, n) /\ held'.ended = held.ended
        /\ held'.acc = held.acc /\ held'.pending = held.pending
    BY <2>1, <2>5 DEF HeldForm
  <2>7. CutInv'
    <3>1. CASE stage = "seal"
      <4>1. /\ key = Built.key /\ index \in Nat /\ held.ended \in BOOLEAN
            /\ Slice(call, held.pending, At(index)) /\ Slice(call, held.acc, PendingEnd)
            /\ Slice(call, held.piece, AccEnd) /\ Slice(call, source, PieceEnd)
            /\ PieceEnd + Len(source) = Len(Text0)
            /\ Len(held.pending) \in {0, CHUNK_SIZE} /\ Len(held.acc) < CHUNK_SIZE
        BY <3>1 DEF StreamInv, CutInv
      <4>2. /\ Len(held.pending) \in Nat /\ Len(held.acc) \in Nat /\ Len(source) \in Nat
            /\ At(index) \in Nat
        BY <4>1, AtNext, SliceLen
      <4>3. /\ PendingEnd' = PendingEnd /\ AccEnd' = AccEnd /\ PieceEnd = AccEnd
            /\ AccEnd \in Nat
        BY <1>1, <2>6, <4>2 DEF PendingEnd, AccEnd, PieceEnd
      <4>4. /\ Slice(call, held'.piece, AccEnd) /\ Len(held'.piece) = n
            /\ Slice(call, source', AccEnd + n) /\ Len(source') = Len(source) - n
        <5>1. n \in 0..Len(source)
          BY <2>1, <2>2, <4>2
        <5>2. Slice(call, source, AccEnd) /\ List(call.plaintext)
          BY <4>1, <4>3, Calls
        <5>3. /\ Slice(call, SubSeq(source, 1, n), AccEnd) /\ Len(SubSeq(source, 1, n)) = n
              /\ Slice(call, SubSeq(source, n + 1, Len(source)), AccEnd + n)
              /\ Len(SubSeq(source, n + 1, Len(source))) = Len(source) - n
          BY <4>3, <5>1, <5>2, SliceSplit
        <5> QED
          BY <2>1, <2>6, <5>3
      <4>5. PieceEnd' = AccEnd + n
        BY <4>3, <4>4 DEF PieceEnd
      <4>6. PieceEnd' + Len(source') = Len(Text0')
        <5>1. Len(Text0') = AccEnd + Len(source) /\ n \in Int
          BY <1>1, <2>2, <4>1, <4>3 DEF Text0
        <5>2. (AccEnd + n) + (Len(source) - n) = AccEnd + Len(source)
          BY <4>2, <4>3, <5>1
        <5> QED
          BY <4>4, <4>5, <5>1, <5>2
      <4>7. stage' = "seal" /\ key' = Built'.key /\ index' \in Nat /\ ~held'.ended
        BY <1>1, <2>1, <2>6, <3>1, <4>1 DEF Built
      <4> QED
        BY <1>1, <2>6, <4>1, <4>3, <4>4, <4>5, <4>6, <4>7 DEF CutInv
    <3>2. CASE stage # "seal"
      BY <2>1, <3>2 DEF CutInv
    <3> QED
      BY <3>1, <3>2
  <2>8. FetchInv'
    <3>1. CASE stage = "open"
      <4>1. /\ {held.pending, held.acc, held.piece, source} \subseteq Seq(Range(body))
            /\ Len(held.acc) < SEALED_CHUNK_SIZE
        BY <3>1 DEF StreamInv, FetchInv, Fetched
      <4>2. SubSeq(source, 1, n) \in Seq(Range(body)) /\ source' \in Seq(Range(body))
        BY <2>1, <2>2, <4>1, PartIn
      <4> QED
        BY <1>1, <2>1, <2>6, <3>1, <4>1, <4>2 DEF FetchInv
    <3>2. CASE stage # "open"
      BY <1>1, <2>1, <3>2 DEF FetchInv, Fetched
    <3> QED
      BY <3>1, <3>2
  <2> QED
    BY <1>1, <2>1, <2>3, <2>4, <2>7, <2>8 DEF StreamInv
<1> QED
  BY <1>2, <1>3

(* A chunk is handed on: it is sealed, or what it holds is yielded.        *)
LEMMA EmitsSealed ==
  ASSUME StreamInv, stage = "seal", DriveUnchanged, NEW chunk, NEW final, NEW next \in {"seal", "sealed"},
         Cuts(call, index, final, chunk), Emit(chunk, final, next)
  PROVE  /\ opened' = opened /\ outcome' = outcome
         /\ \/ \E how : EndWith(how, outcome)
            \/ /\ stage' = next /\ index' = index + 1 /\ end' = end
               /\ List(body') /\ body' # << >>
               /\ \A i \in DOMAIN body' : Genuine(call, body'[i])
<1> DEFINE result == sealChunk(key, index, chunk, final)
<1>1. EmitTo(result, next)
  BY DEF Emit
<1>2. key = SealHeader(call).key /\ List(body) /\ \A i \in DOMAIN body : Genuine(call, body[i])
  BY DEF StreamInv, CutInv, BodyInv, Built
<1>3. ~Failed(result) => /\ List(result.sealed) /\ Len(result.sealed) > 0
                         /\ \A i \in DOMAIN result.sealed : Genuine(call, result.sealed[i])
  BY <1>2, SealsGenuine
<1> HIDE DEF result
<1>4. CASE Failed(result)
  <2>1. EndWith("threw", outcome) /\ opened' = opened
    BY <1>1, <1>4 DEF EmitTo
  <2> QED
    BY <2>1 DEF EndWith
<1>5. CASE ~Failed(result)
  <2>1. /\ index' = index + 1 /\ body' = body \o result.sealed /\ opened' = opened
        /\ Continue(next) \/ EndWith("stopped", outcome)
    BY <1>1, <1>5 DEF EmitTo
  <2> DEFINE S == Range(body) \cup Range(result.sealed)
  <2>2. body \in Seq(S) /\ result.sealed \in Seq(S) /\ Len(body) \in Nat /\ Len(result.sealed) \in Nat
    BY <1>2, <1>3, <1>5, SeqMonotonic DEF List
  <2>3. /\ body' \in Seq(S) /\ Len(body') = Len(body) + Len(result.sealed)
        /\ \A i \in 1..(Len(body) + Len(result.sealed)) :
             body'[i] = IF i <= Len(body) THEN body[i] ELSE result.sealed[i - Len(body)]
    BY <2>1, <2>2, ConcatProperties
  <2> HIDE DEF S
  <2>4. DOMAIN body' = 1..Len(body') /\ Len(body') \in Nat /\ body' # << >>
    BY <1>3, <1>5, <2>2, <2>3, LenProperties
  <2>5. List(body')
    <3>1. body' = [i \in 1..Len(body') |-> body'[i]]
      BY <2>3, LenProperties
    <3> QED
      BY <2>4, <3>1, IsList
  <2>6. ASSUME NEW i \in DOMAIN body' PROVE Genuine(call, body'[i])
    <3>1. DOMAIN body = 1..Len(body) /\ DOMAIN result.sealed = 1..Len(result.sealed)
      BY <2>2, LenProperties
    <3>2. i \in 1..(Len(body) + Len(result.sealed))
      BY <2>3, <2>4
    <3>3. CASE i <= Len(body)
      <4>1. i \in DOMAIN body /\ body'[i] = body[i]
        BY <2>2, <2>3, <3>1, <3>2, <3>3
      <4> QED
        BY <1>2, <4>1
    <3>4. CASE i > Len(body)
      <4>1. i - Len(body) \in DOMAIN result.sealed /\ body'[i] = result.sealed[i - Len(body)]
        BY <2>2, <2>3, <3>1, <3>2, <3>4
      <4> QED
        BY <1>3, <1>5, <4>1
    <3> QED
      BY <2>2, <3>2, <3>3, <3>4
  <2>7. outcome' = outcome
    BY <2>1 DEF Continue, EndWith
  <2>8. EndWith("stopped", outcome) \/ (stage' = next /\ end' = end)
    <3>1. CASE Continue(next)
      BY <3>1 DEF Continue
    <3> QED
      BY <2>1, <3>1
  <2> QED
    BY <2>1, <2>4, <2>5, <2>6, <2>7, <2>8
<1> QED
  BY <1>4, <1>5

LEMMA EmitsOpened ==
  ASSUME StreamInv, stage = "open", DriveUnchanged, NEW chunk \in Seq(Range(body)),
         NEW final \in BOOLEAN, NEW next, Emit(chunk, final, next)
  PROVE  /\ body' = body
         /\ \/ \E how, settled : EndWith(how, settled) /\ settled # "matched"
            \/ stage' = next /\ outcome' = outcome /\ end' = end /\ index' = index + 1
         /\ Slice(call, opened', 0) /\ (opened' # << >> => ~Altered)
         /\ stage' = next /\ stage' # "ended" =>
              /\ ~Altered
              /\ Len(opened') = IF final THEN Len(call.plaintext) ELSE At(index + 1)
<1> DEFINE result == openChunk(key, index, chunk, final)
<1>1. EmitTo(result, next)
  BY DEF Emit
<1>2. /\ ~Failed(SealHeader(call)) /\ \A i \in DOMAIN body : Genuine(call, body[i])
      /\ index \in Nat /\ Len(opened) = At(index) /\ Slice(call, opened, 0)
      /\ key = SealHeader(call).key => ~Altered
      /\ opened # << >> => ~Altered /\ outcome # "matched"
  BY DEF StreamInv, HeadInv, BodyInv, OpenInv, EndInv, Sealed, Built
<1>3. ~Failed(result) => key = SealHeader(call).key /\ Cuts(call, index, final, result.plain)
  BY <1>2, OpensGenuine
<1> HIDE DEF result
<1>4. CASE Failed(result)
  <2>1. EndWith("threw", "TAMPERED_CIPHERTEXT") /\ opened' = opened /\ body' = body
    BY <1>1, <1>4 DEF EmitTo
  <2>2. stage' = "ended"
    BY <2>1 DEF EndWith
  <2> QED
    BY <1>2, <2>1, <2>2
<1>5. CASE ~Failed(result)
  <2>1. /\ index' = index + 1 /\ opened' = opened \o result.plain /\ body' = body
        /\ Continue(next) \/ EndWith("stopped", outcome)
    BY <1>1, <1>5 DEF EmitTo
  <2>2. ~Altered /\ Cuts(call, index, final, result.plain)
    BY <1>2, <1>3, <1>5
  <2>3. Slice(call, result.plain, At(index)) /\ At(index) \in Nat
    BY <1>2, <2>2, AtNext DEF Cuts
  <2>4. Slice(call, result.plain, 0 + Len(opened))
    BY <1>2, <2>3
  <2>5. Slice(call, opened', 0) /\ Len(opened') = At(index) + Len(result.plain)
    <3>1. /\ Slice(call, opened \o result.plain, 0)
          /\ Len(opened \o result.plain) = Len(opened) + Len(result.plain)
      <4>1. List(call.plaintext)
        BY Calls
      <4>2. Slice(call, opened, 0)
        BY <1>2
      <4> QED
        BY <2>4, <4>1, <4>2, SliceJoin
    <3> QED
      BY <1>2, <2>1, <3>1
  <2>6. Len(opened') = IF final THEN Len(call.plaintext) ELSE At(index + 1)
    BY <1>2, <2>2, <2>5, AtNext DEF Cuts
  <2>7. outcome # "matched"
    BY Unsettled
  <2>8. EndWith("stopped", outcome) \/ (stage' = next /\ outcome' = outcome /\ end' = end)
    <3>1. CASE Continue(next)
      BY <3>1 DEF Continue
    <3> QED
      BY <2>1, <3>1
  <2> QED
    BY <2>1, <2>2, <2>5, <2>6, <2>7, <2>8
<1> QED
  BY <1>4, <1>5

LEMMA EndsSource ==
  ASSUME StreamInv, EndOfSource
  PROVE  StreamInv'
<1>1. /\ stage \in {"seal", "open"} /\ held.piece = << >> /\ ~held.ended /\ source = << >>
      /\ UNCHANGED << source, index, body, opened, call, header, key, aborted >>
  BY DEF EndOfSource, Driving, DriveUnchanged
<1>2. CASE aborted
  <2>1. EndWith("aborted", outcome)
    BY <1>2 DEF EndOfSource
  <2> QED
    BY <1>1, <2>1, EndsHere, Unsettled
<1>3. CASE ~aborted
  <2>1. /\ held' = [held EXCEPT !.ended = TRUE] /\ UNCHANGED << stage, outcome, end >>
    BY <1>3 DEF EndOfSource, Continue
  <2>2. HeldForm
    BY <1>1 DEF StreamInv, CutInv, FetchInv, Fetched
  <2>3. /\ HeldForm' /\ held'.piece = held.piece /\ held'.ended = TRUE
        /\ held'.acc = held.acc /\ held'.pending = held.pending
    BY <2>1, <2>2 DEF HeldForm
  <2>4. OpenInv' /\ EndInv' /\ HeadInv' /\ BodyInv'
    BY <1>1, <2>1 DEF StreamInv, OpenInv, EndInv, HeadInv, BodyInv, Altered, Built, Text0
  <2>5. CutInv'
    BY <1>1, <2>1, <2>3 DEF StreamInv, CutInv, PendingEnd, AccEnd, PieceEnd, Built, Text0
  <2>6. FetchInv'
    BY <1>1, <2>1, <2>3 DEF StreamInv, FetchInv
  <2> QED
    BY <1>1, <2>1, <2>4, <2>5, <2>6 DEF StreamInv
<1> QED
  BY <1>2, <1>3

(* What is left of the invariant to a step of the drive that goes on.      *)
LEMMA SealKept ==
  ASSUME StreamInv, stage = "seal", stage' \in {"seal", "sealed"}, call' = call, header' = header,
         opened' = opened, outcome' = outcome, end' = end, CutInv',
         List(body'), \A i \in DOMAIN body' : Genuine(call, body'[i]),
         stage' = "sealed" => body' # << >>
  PROVE  StreamInv'
<1>1. HeadInv'
  BY DEF StreamInv, HeadInv, Built, Sealed
<1>2. BodyInv'
  BY DEF BodyInv, Sealed
<1>3. FetchInv' /\ EndInv'
  BY DEF StreamInv, FetchInv, Fetched, EndInv
<1>4. OpenInv'
  BY DEF StreamInv, OpenInv
<1> QED
  BY <1>1, <1>2, <1>3, <1>4 DEF StreamInv, Sealed

LEMMA OpenKept ==
  ASSUME StreamInv, stage = "open", stage' \in {"open", "drained"}, DriveUnchanged,
         body' = body, outcome' = outcome, end' = end, index' \in Nat, HeldForm',
         {held'.pending, held'.acc, held'.piece, source'} \subseteq Seq(Range(body)),
         Len(held'.acc) < SEALED_CHUNK_SIZE,
         Slice(call, opened', 0), opened' # << >> => ~Altered,
         stage' = "open" => Len(opened') = At(index'),
         stage' = "drained" => ~Altered /\ Len(opened') = Len(call.plaintext)
  PROVE  StreamInv'
<1>1. call' = call /\ header' = header /\ key' = key
  BY DEF DriveUnchanged
<1>2. HeadInv' /\ BodyInv' /\ CutInv'
  BY <1>1, HeadKept DEF Sealed
<1>3. FetchInv'
  BY DEF FetchInv
<1>4. (Altered' <=> Altered) /\ Built' = Built /\ Text0' = call.plaintext
  BY <1>1 DEF Altered, Built, Text0
<1>5. OpenInv'
  <2>1. key = Built.key => ~Altered
    BY DEF StreamInv, OpenInv
  <2> QED
    BY <1>1, <1>4, <2>1 DEF OpenInv
<1>6. EndInv'
  BY DEF StreamInv, EndInv
<1> QED
  BY <1>1, <1>2, <1>3, <1>5, <1>6 DEF StreamInv, Sealed

(* What Take moves from the piece to the block.                            *)
TakeCount == Min({BlockSize - Len(held.acc), Len(held.piece)})
TakeAcc == held.acc \o SubSeq(held.piece, 1, TakeCount)
TakeRest == SubSeq(held.piece, TakeCount + 1, Len(held.piece))

LEMMA Takes ==
  ASSUME Take
  PROVE  /\ Driving /\ held.piece # << >> /\ UNCHANGED source /\ DriveUnchanged
         /\ IF Len(TakeAcc) < BlockSize
            THEN held' = [held EXCEPT !.piece = TakeRest, !.acc = TakeAcc] /\ Quiet
            ELSE /\ held' = [held EXCEPT !.piece = TakeRest, !.acc = << >>, !.pending = TakeAcc]
                 /\ IF held.pending = << >> THEN Quiet ELSE Emit(held.pending, FALSE, stage)
BY DEF Take, TakeAcc, TakeRest, TakeCount

LEMMA Lesser ==
  ASSUME NEW a \in Nat, NEW b \in Nat, NEW m, m = IF a <= b THEN a ELSE b
  PROVE  m \in 0..b /\ m <= a
OBVIOUS

LEMMA Moved ==
  ASSUME NEW a \in Nat, NEW m \in Nat, NEW n \in 0..m
  PROVE  (a + n) + (m - n) = a + m
OBVIOUS

LEMMA TakesSealed ==
  ASSUME StreamInv, stage = "seal", Take
  PROVE  StreamInv'
<1>1. /\ key = Built.key /\ index \in Nat /\ HeldForm /\ held.ended \in BOOLEAN
      /\ Slice(call, held.pending, At(index)) /\ Slice(call, held.acc, PendingEnd)
      /\ Slice(call, held.piece, AccEnd) /\ Slice(call, source, PieceEnd)
      /\ PieceEnd + Len(source) = Len(Text0)
      /\ Len(held.pending) \in {0, CHUNK_SIZE} /\ Len(held.acc) < CHUNK_SIZE
      /\ held.ended => held.piece = << >>
  BY DEF StreamInv, CutInv
<1>2. /\ Len(held.pending) \in Nat /\ Len(held.acc) \in Nat /\ Len(held.piece) \in Nat
      /\ Len(source) \in Nat /\ At(index) \in Nat /\ CHUNK_SIZE \in Nat \ {0}
  BY <1>1, AtNext, SliceLen, Sizes
<1>a. At(index + 1) = At(index) + CHUNK_SIZE
  BY <1>1, AtNext
<1>3. PendingEnd \in Nat /\ AccEnd \in Nat /\ PieceEnd \in Nat
  <2>1. PendingEnd \in Nat
    BY <1>2 DEF PendingEnd
  <2>2. AccEnd \in Nat
    BY <1>2, <2>1 DEF AccEnd
  <2> QED
    BY <1>2, <2>1, <2>2 DEF PieceEnd
<1>p. PieceEnd = AccEnd + Len(held.piece)
  BY DEF PieceEnd
<1> DEFINE n == TakeCount
<1>4. n \in 0..Len(held.piece) /\ n <= CHUNK_SIZE - Len(held.acc)
  <2>1. BlockSize = CHUNK_SIZE /\ CHUNK_SIZE - Len(held.acc) \in Nat
    BY <1>1, <1>2, Sizes DEF BlockSize
  <2>2. n = IF CHUNK_SIZE - Len(held.acc) <= Len(held.piece) THEN CHUNK_SIZE - Len(held.acc)
            ELSE Len(held.piece)
    BY <1>2, <2>1, MinOfTwo DEF TakeCount
  <2> HIDE DEF n
  <2> QED
    BY ONLY <1>2, <2>1, <2>2, Lesser
<1>m. (AccEnd + n) + (Len(held.piece) - n) = PieceEnd
  <2> DEFINE a == AccEnd  m == Len(held.piece)
  <2>1. a \in Nat /\ m \in Nat /\ n \in 0..m /\ PieceEnd = a + m
    BY <1>2, <1>3, <1>4, <1>p
  <2> HIDE DEF n, a, m
  <2>2. (a + n) + (m - n) = a + m
    BY ONLY <2>1, Moved
  <2> QED
    BY <2>1, <2>2 DEF a, m
<1>5. /\ Slice(call, SubSeq(held.piece, 1, n), AccEnd) /\ Len(SubSeq(held.piece, 1, n)) = n
      /\ Slice(call, TakeRest, AccEnd + n) /\ Len(TakeRest) = Len(held.piece) - n
  <2>1. List(call.plaintext)
    BY Calls
  <2> QED
    BY <1>1, <1>3, <1>4, <2>1, SliceSplit DEF TakeRest
<1> HIDE DEF n
<1>6. Slice(call, TakeAcc, PendingEnd) /\ Len(TakeAcc) = Len(held.acc) + n
  <2>1. Slice(call, SubSeq(held.piece, 1, n), PendingEnd + Len(held.acc)) /\ List(call.plaintext)
    BY <1>5, Calls DEF AccEnd
  <2>2. /\ Slice(call, held.acc \o SubSeq(held.piece, 1, n), PendingEnd)
        /\ Len(held.acc \o SubSeq(held.piece, 1, n)) = Len(held.acc) + Len(SubSeq(held.piece, 1, n))
    <3>1. Slice(call, held.acc, PendingEnd) /\ PendingEnd \in Nat
      BY <1>1, <1>3
    <3> QED
      BY <2>1, <3>1, SliceJoin
  <2> QED
    BY <1>5, <2>2 DEF TakeAcc, n
<1>7. /\ UNCHANGED << source, call, header, key, aborted >> /\ held.ended = FALSE
      /\ IF Len(TakeAcc) < CHUNK_SIZE
         THEN held' = [held EXCEPT !.piece = TakeRest, !.acc = TakeAcc] /\ Quiet
         ELSE /\ held' = [held EXCEPT !.piece = TakeRest, !.acc = << >>, !.pending = TakeAcc]
              /\ IF held.pending = << >> THEN Quiet ELSE Emit(held.pending, FALSE, stage)
  BY <1>1, Takes DEF BlockSize, DriveUnchanged
<1>8. List(body) /\ \A i \in DOMAIN body : Genuine(call, body[i])
  BY DEF StreamInv, BodyInv
<1>9. Slice(call, << >>, AccEnd + n)
  <2>1. AccEnd + n \in Nat
    BY <1>3, <1>4
  <2>2. AccEnd + n <= PieceEnd
    BY <1>2, <1>3, <1>4 DEF PieceEnd
  <2>3. PieceEnd <= Len(call.plaintext)
    BY <1>1, <1>2, <1>3 DEF Text0
  <2>4. AccEnd + n <= Len(call.plaintext)
    BY <1>3, <2>1, <2>2, <2>3, Calls
  <2> QED
    BY <2>1, <2>4, SliceEmpty
<1>10. CASE Len(TakeAcc) < CHUNK_SIZE
  <2>1. /\ held'.piece = TakeRest /\ held'.acc = TakeAcc /\ held'.pending = held.pending
        /\ held'.ended = FALSE /\ HeldForm' /\ stage' = "seal"
        /\ UNCHANGED << index, body, opened, outcome, end >>
    BY <1>1, <1>7, <1>10 DEF HeldForm, Quiet, Continue
  <2>2. PendingEnd' = PendingEnd /\ AccEnd' = AccEnd + n /\ PieceEnd' = PieceEnd
    <3>1. PendingEnd' = PendingEnd
      BY <2>1 DEF PendingEnd
    <3>2. AccEnd' = PendingEnd + (Len(held.acc) + n)
      BY <1>6, <2>1, <3>1 DEF AccEnd
    <3>3. AccEnd' = AccEnd + n
      BY <1>2, <1>3, <1>4, <3>2 DEF AccEnd
    <3>4. PieceEnd' = (AccEnd + n) + (Len(held.piece) - n)
      BY <1>5, <2>1, <3>3 DEF PieceEnd
    <3>5. PieceEnd' = PieceEnd
      BY <1>m, <3>4
    <3> QED
      BY <3>1, <3>3, <3>5
  <2>3. CutInv'
    BY <1>1, <1>5, <1>6, <1>7, <1>10, <2>1, <2>2 DEF CutInv, Built, Text0
  <2> QED
    BY <1>7, <1>8, <2>1, <2>3, SealKept
<1>11. CASE ~ (Len(TakeAcc) < CHUNK_SIZE)
  <2>1. /\ held'.piece = TakeRest /\ held'.acc = << >> /\ held'.pending = TakeAcc
        /\ held'.ended = FALSE /\ HeldForm'
        /\ IF held.pending = << >> THEN Quiet ELSE Emit(held.pending, FALSE, "seal")
    BY <1>1, <1>7, <1>11 DEF HeldForm
  <2>2. Len(TakeAcc) = CHUNK_SIZE /\ n = CHUNK_SIZE - Len(held.acc)
    BY <1>1, <1>2, <1>4, <1>6, <1>11, Sizes
  <2>e. ASSUME stage' = "seal", index' \in Nat, At(index') = PendingEnd,
               PendingEnd' = PendingEnd + (Len(held.acc) + n)
        PROVE  CutInv'
    <3>1. PendingEnd' = AccEnd + n
      BY <1>2, <1>3, <1>4, <2>e DEF AccEnd
    <3>2. AccEnd' = AccEnd + n
      BY <1>3, <1>4, <2>1, <3>1 DEF AccEnd
    <3>3. PieceEnd' = (AccEnd + n) + (Len(held.piece) - n)
      BY <1>5, <2>1, <3>2 DEF PieceEnd
    <3>4. PieceEnd' = PieceEnd
      BY <1>m, <3>3
    <3>5. /\ Slice(call', held'.pending, At(index')) /\ Slice(call', held'.acc, PendingEnd')
          /\ Slice(call', held'.piece, AccEnd') /\ Slice(call', source', PieceEnd')
      BY <1>1, <1>5, <1>6, <1>7, <1>9, <2>1, <2>e, <3>1, <3>2, <3>4
    <3>6. PieceEnd' + Len(source') = Len(Text0')
      BY <1>1, <1>7, <3>4 DEF Text0
    <3>7. Len(held'.pending) \in {0, CHUNK_SIZE} /\ Len(held'.acc) < CHUNK_SIZE
      BY <1>2, <2>1, <2>2
    <3>8. key' = Built'.key
      BY <1>1, <1>7 DEF Built
    <3> QED
      BY <2>1, <2>e, <3>5, <3>6, <3>7, <3>8 DEF CutInv
  <2>3. CASE held.pending = << >>
    <3>1. stage' = "seal" /\ UNCHANGED << index, body, opened, outcome, end >>
      BY <2>1, <2>3 DEF Quiet, Continue
    <3>2. PendingEnd = At(index) /\ PendingEnd' = PendingEnd + (Len(held.acc) + n)
      BY <1>2, <1>6, <2>1, <2>3, <3>1 DEF PendingEnd
    <3>3. CutInv'
      BY <1>1, <2>e, <3>1, <3>2
    <3> QED
      BY <1>7, <1>8, <3>1, <3>3, SealKept
  <2>4. CASE held.pending # << >>
    <3>1. Len(held.pending) = CHUNK_SIZE /\ PendingEnd = At(index + 1)
      BY <1>1, <1>2, <1>a, <2>4, EmptySeq, SliceLen DEF PendingEnd
    <3>2. Cuts(call, index, FALSE, held.pending)
      BY <1>1, <3>1 DEF Cuts
    <3>3. Emit(held.pending, FALSE, "seal")
      BY <2>1, <2>4
    <3>4. DriveUnchanged
      BY Takes
    <3>5. /\ opened' = opened /\ outcome' = outcome
          /\ \/ \E how : EndWith(how, outcome)
             \/ /\ stage' = "seal" /\ index' = index + 1 /\ end' = end
                /\ List(body') /\ body' # << >>
                /\ \A i \in DOMAIN body' : Genuine(call, body'[i])
      BY <3>2, <3>3, <3>4, EmitsSealed
    <3>6. CASE \E how : EndWith(how, outcome)
      BY <1>7, <3>5, <3>6, EndsHere, Unsettled
    <3>7. CASE /\ stage' = "seal" /\ index' = index + 1 /\ end' = end
               /\ List(body') /\ body' # << >>
               /\ \A i \in DOMAIN body' : Genuine(call, body'[i])
      <4>1. At(index') = PendingEnd /\ PendingEnd' = PendingEnd + (Len(held.acc) + n)
        BY <1>6, <2>1, <3>1, <3>7 DEF PendingEnd
      <4>2. CutInv'
        BY <1>1, <2>e, <3>7, <4>1
      <4> QED
        BY <1>7, <3>5, <3>7, <4>2, SealKept
    <3> QED
      BY <3>5, <3>6, <3>7
  <2> QED
    BY <2>3, <2>4
<1> QED
  BY <1>10, <1>11

LEMMA TakesOpened ==
  ASSUME StreamInv, stage = "open", Take
  PROVE  StreamInv'
<1> DEFINE S == Seq(Range(body))
           n == TakeCount
<1>1. /\ {held.pending, held.acc, held.piece, source} \subseteq S /\ HeldForm
      /\ Len(held.acc) < SEALED_CHUNK_SIZE
      /\ index \in Nat /\ Len(opened) = At(index) /\ Slice(call, opened, 0)
      /\ opened # << >> => ~Altered
  BY DEF StreamInv, FetchInv, OpenInv, Fetched
<1>2. n \in Nat /\ n <= Len(held.piece) /\ Len(held.piece) \in Nat
  <2>1. /\ Len(held.acc) \in Nat /\ Len(held.piece) \in Nat /\ SEALED_CHUNK_SIZE \in Nat
        /\ BlockSize = SEALED_CHUNK_SIZE
    BY <1>1, Sizes DEF BlockSize
  <2>2. BlockSize - Len(held.acc) \in Nat
    BY <1>1, <2>1
  <2> QED
    BY <2>1, <2>2, MinOfTwo DEF TakeCount
<1> HIDE DEF n
<1>3. TakeAcc \in S /\ TakeRest \in S /\ << >> \in S
  <2>1. SubSeq(held.piece, 1, n) \in S /\ TakeRest \in S
    BY <1>1, <1>2, PartIn DEF TakeRest, n
  <2> QED
    BY <1>1, <2>1, ConcatProperties, EmptySeq DEF TakeAcc, n
<1> HIDE DEF S
<1>4. /\ UNCHANGED source /\ DriveUnchanged /\ call' = call /\ header' = header
      /\ IF Len(TakeAcc) < SEALED_CHUNK_SIZE
         THEN held' = [held EXCEPT !.piece = TakeRest, !.acc = TakeAcc] /\ Quiet
         ELSE /\ held' = [held EXCEPT !.piece = TakeRest, !.acc = << >>, !.pending = TakeAcc]
              /\ IF held.pending = << >> THEN Quiet ELSE Emit(held.pending, FALSE, "open")
  BY Takes DEF BlockSize, DriveUnchanged
<1>5. /\ HeldForm' /\ Len(held'.acc) < SEALED_CHUNK_SIZE
      /\ {held'.pending, held'.acc, held'.piece, source'} \subseteq S
  <2>1. CASE Len(TakeAcc) < SEALED_CHUNK_SIZE
    <3>1. /\ HeldForm' /\ held'.acc = TakeAcc /\ held'.pending = held.pending
          /\ held'.piece = TakeRest
      BY <1>1, <1>4, <2>1 DEF HeldForm
    <3> QED
      BY <1>1, <1>3, <1>4, <2>1, <3>1
  <2>2. CASE ~ (Len(TakeAcc) < SEALED_CHUNK_SIZE)
    <3>1. /\ HeldForm' /\ held'.acc = << >> /\ held'.pending = TakeAcc
          /\ held'.piece = TakeRest
      BY <1>1, <1>4, <2>2 DEF HeldForm
    <3>2. Len(<< >>) < SEALED_CHUNK_SIZE
      BY Sizes
    <3> QED
      BY <1>1, <1>3, <1>4, <3>1, <3>2
  <2> QED
    BY <2>1, <2>2
<1>6. CASE Quiet
  <2>1. stage' = "open" /\ UNCHANGED << index, body, opened, outcome, end >>
    BY <1>6 DEF Quiet, Continue
  <2> QED
    BY <1>1, <1>4, <1>5, <2>1, OpenKept DEF S
<1>7. CASE Emit(held.pending, FALSE, "open")
  <2>1. /\ body' = body
        /\ \/ \E how, settled : EndWith(how, settled) /\ settled # "matched"
           \/ stage' = "open" /\ outcome' = outcome /\ end' = end /\ index' = index + 1
        /\ Slice(call, opened', 0) /\ (opened' # << >> => ~Altered)
        /\ stage' = "open" => ~Altered /\ Len(opened') = At(index + 1)
    <3>1. held.pending \in Seq(Range(body))
      BY <1>1 DEF S
    <3> QED
      BY <1>4, <1>7, <3>1, EmitsOpened
  <2>2. CASE \E how, settled : EndWith(how, settled) /\ settled # "matched"
    <3>1. /\ stage' = "ended" /\ outcome' # "matched" /\ blobSource' # "open"
      BY <2>2 DEF EndWith
    <3> QED
      BY <1>4, <2>1, <3>1, Ends
  <2>3. CASE stage' = "open" /\ outcome' = outcome /\ end' = end /\ index' = index + 1
    <3>1. index' \in Nat /\ Len(opened') = At(index')
      BY <1>1, <2>1, <2>3
    <3> QED
      BY <1>4, <1>5, <2>1, <2>3, <3>1, OpenKept DEF S
  <2> QED
    BY <2>1, <2>2, <2>3
<1> QED
  BY <1>4, <1>6, <1>7

(* The last blocks: the chunk that is handed on, and what is then held.    *)
LEMMA FlushesSealed ==
  ASSUME StreamInv, stage = "seal", LastBlocks
  PROVE  StreamInv'
<1>1. /\ key = Built.key /\ index \in Nat /\ HeldForm /\ held.ended = TRUE
      /\ Slice(call, held.pending, At(index)) /\ Slice(call, held.acc, PendingEnd)
      /\ PieceEnd + Len(source) = Len(Text0)
      /\ Len(held.pending) \in {0, CHUNK_SIZE} /\ Len(held.acc) < CHUNK_SIZE
      /\ held.piece = << >> /\ source = << >>
      /\ List(body) /\ \A i \in DOMAIN body : Genuine(call, body[i])
  BY DEF StreamInv, CutInv, BodyInv, LastBlocks
<1>2. /\ Len(held.pending) \in Nat /\ Len(held.acc) \in Nat /\ At(index) \in Nat
      /\ CHUNK_SIZE \in Nat \ {0}
  BY <1>1, AtNext, SliceLen, Sizes
<1>3. At(index + 1) = At(index) + CHUNK_SIZE
  BY <1>1, AtNext
<1>4. PendingEnd \in Nat /\ PendingEnd = At(index) + Len(held.pending)
  BY <1>2 DEF PendingEnd
<1>5. PendingEnd + Len(held.acc) = Len(call.plaintext)
  <2>1. AccEnd = PendingEnd + Len(held.acc) /\ AccEnd \in Nat
    BY <1>2, <1>4 DEF AccEnd
  <2>2. PieceEnd = AccEnd
    BY <1>1, <2>1 DEF PieceEnd
  <2> QED
    BY <1>1, <2>1, <2>2 DEF Text0
<1>6. /\ UNCHANGED << source, call, header, key, aborted >> /\ DriveUnchanged
      /\ IF held.acc # << >> /\ held.pending # << >>
         THEN held' = [held EXCEPT !.pending = << >>] /\ Emit(held.pending, FALSE, "seal")
         ELSE held' = NothingHeld /\ Emit(held.acc \o held.pending, TRUE, "sealed")
  BY DEF LastBlocks, Flush, DriveUnchanged, Whole
<1>7. CASE held.acc # << >> /\ held.pending # << >>
  <2>1. Len(held.pending) = CHUNK_SIZE /\ PendingEnd = At(index + 1)
    BY <1>1, <1>2, <1>3, <1>4, <1>7, EmptySeq, SliceLen
  <2>2. Cuts(call, index, FALSE, held.pending)
    BY <1>1, <2>1 DEF Cuts
  <2>3. /\ opened' = opened /\ outcome' = outcome
        /\ \/ \E how : EndWith(how, outcome)
           \/ /\ stage' = "seal" /\ index' = index + 1 /\ end' = end
              /\ List(body') /\ body' # << >>
              /\ \A i \in DOMAIN body' : Genuine(call, body'[i])
    BY <1>6, <1>7, <2>2, EmitsSealed
  <2>4. CASE \E how : EndWith(how, outcome)
    BY <1>6, <2>3, <2>4, EndsHere, Unsettled
  <2>5. CASE /\ stage' = "seal" /\ index' = index + 1 /\ end' = end
             /\ List(body') /\ body' # << >>
             /\ \A i \in DOMAIN body' : Genuine(call, body'[i])
    <3>1. /\ HeldForm' /\ held'.pending = << >> /\ held'.acc = held.acc
          /\ held'.piece = << >> /\ held'.ended = TRUE
      BY <1>1, <1>6, <1>7 DEF HeldForm
    <3>2. At(index') = PendingEnd
      BY <2>1, <2>5
    <3>3. PendingEnd' = PendingEnd
      BY <1>4, <3>1, <3>2 DEF PendingEnd
    <3>4. AccEnd' = Len(call.plaintext)
      BY <1>5, <3>1, <3>3 DEF AccEnd
    <3>5. PieceEnd' = Len(call.plaintext) /\ PieceEnd' + Len(source') = Len(Text0')
      BY <1>1, <1>6, <3>1, <3>4, Calls DEF PieceEnd, Text0
    <3>6. Slice(call, << >>, PendingEnd) /\ Slice(call, << >>, Len(call.plaintext))
      <4>1. PendingEnd <= Len(call.plaintext)
        BY <1>2, <1>4, <1>5
      <4> QED
        BY <1>4, <4>1, Calls, SliceEmpty
    <3>7. /\ Slice(call', held'.pending, At(index')) /\ Slice(call', held'.acc, PendingEnd')
          /\ Slice(call', held'.piece, AccEnd') /\ Slice(call', source', PieceEnd')
      BY <1>1, <1>6, <3>1, <3>2, <3>3, <3>4, <3>5, <3>6
    <3>8. index' \in Nat /\ key' = Built'.key /\ Len(held'.pending) = 0
      BY <1>1, <1>6, <2>5, <3>1 DEF Built
    <3>9. CutInv'
      BY <1>1, <1>6, <3>1, <3>5, <3>7, <3>8 DEF CutInv
    <3> QED
      BY <1>6, <2>3, <2>5, <3>9, SealKept
  <2> QED
    BY <2>3, <2>4, <2>5
<1>8. CASE held.acc = << >> \/ held.pending = << >>
  <2> DEFINE chunk == held.acc \o held.pending
  <2>1. Slice(call, chunk, At(index)) /\ At(index) + Len(chunk) = Len(call.plaintext)
    <3>1. held.acc \in Seq(Range(call.plaintext)) /\ held.pending \in Seq(Range(call.plaintext))
      BY <1>1, SliceLen
    <3>2. CASE held.acc = << >>
      <4>1. chunk = held.pending
        BY <3>1, <3>2, ConcatEmptySeq
      <4> QED
        BY <1>1, <1>2, <1>4, <1>5, <3>2, <4>1
    <3>3. CASE held.pending = << >>
      <4>1. chunk = held.acc /\ PendingEnd = At(index)
        BY <1>2, <1>4, <3>1, <3>3, ConcatEmptySeq
      <4> QED
        BY <1>1, <1>2, <1>4, <1>5, <3>3, <4>1
    <3> QED
      BY <1>8, <3>2, <3>3
  <2> HIDE DEF chunk
  <2>2. Cuts(call, index, TRUE, chunk)
    BY <1>1, <2>1 DEF Cuts
  <2>3. /\ opened' = opened /\ outcome' = outcome
        /\ \/ \E how : EndWith(how, outcome)
           \/ /\ stage' = "sealed" /\ index' = index + 1 /\ end' = end
              /\ List(body') /\ body' # << >>
              /\ \A i \in DOMAIN body' : Genuine(call, body'[i])
    <3>1. Emit(chunk, TRUE, "sealed")
      BY <1>6, <1>8 DEF chunk
    <3> QED
      BY <1>6, <2>2, <3>1, EmitsSealed
  <2>4. CASE \E how : EndWith(how, outcome)
    BY <1>6, <2>3, <2>4, EndsHere, Unsettled
  <2>5. CASE /\ stage' = "sealed" /\ index' = index + 1 /\ end' = end
             /\ List(body') /\ body' # << >>
             /\ \A i \in DOMAIN body' : Genuine(call, body'[i])
    <3>1. CutInv'
      BY <2>5 DEF CutInv
    <3> QED
      BY <1>6, <2>3, <2>5, <3>1, SealKept
  <2> QED
    BY <2>3, <2>4, <2>5
<1> QED
  BY <1>7, <1>8

LEMMA FlushesOpened ==
  ASSUME StreamInv, stage = "open", LastBlocks
  PROVE  StreamInv'
<1>1. /\ {held.pending, held.acc, held.piece, source} \subseteq Seq(Range(body)) /\ HeldForm
      /\ Len(held.acc) < SEALED_CHUNK_SIZE /\ index \in Nat
  BY DEF StreamInv, FetchInv, OpenInv, Fetched
<1>2. UNCHANGED << source, call, header, key, aborted >> /\ DriveUnchanged /\ Flush
  BY DEF LastBlocks, DriveUnchanged
<1>3. CASE \/ Len(held.acc) \in 1..(TAG_SIZE - 1)
           \/ held.acc = << >> /\ held.pending = << >>
  <2>1. EndWith("threw", "TAMPERED_CIPHERTEXT") /\ opened' = opened
    BY <1>2, <1>3 DEF Flush, Tampered
  <2> QED
    BY <1>2, <2>1, EndsHere
<1>4. CASE /\ held.acc # << >> /\ held.pending # << >>
           /\ held' = [held EXCEPT !.pending = << >>] /\ Emit(held.pending, FALSE, "open")
  <2>1. /\ body' = body
        /\ \/ \E how, settled : EndWith(how, settled) /\ settled # "matched"
           \/ stage' = "open" /\ outcome' = outcome /\ end' = end /\ index' = index + 1
        /\ Slice(call, opened', 0) /\ (opened' # << >> => ~Altered)
        /\ stage' = "open" => ~Altered /\ Len(opened') = At(index + 1)
    BY <1>1, <1>2, <1>4, EmitsOpened
  <2>2. CASE \E how, settled : EndWith(how, settled) /\ settled # "matched"
    <3>1. stage' = "ended" /\ outcome' # "matched" /\ blobSource' # "open"
      BY <2>2 DEF EndWith
    <3> QED
      BY <1>2, <2>1, <3>1, Ends
  <2>3. CASE stage' = "open" /\ outcome' = outcome /\ end' = end /\ index' = index + 1
    <3>1. /\ HeldForm' /\ held'.pending = << >> /\ held'.acc = held.acc
          /\ held'.piece = held.piece
      BY <1>1, <1>4 DEF HeldForm
    <3>2. /\ {held'.pending, held'.acc, held'.piece, source'} \subseteq Seq(Range(body))
          /\ Len(held'.acc) < SEALED_CHUNK_SIZE /\ index' \in Nat
      BY <1>1, <1>2, <2>3, <3>1, EmptySeq
    <3> QED
      BY <1>2, <2>1, <2>3, <3>1, <3>2, OpenKept
  <2> QED
    BY <2>1, <2>2, <2>3
<1>5. CASE held' = NothingHeld /\ Emit(held.acc \o held.pending, TRUE, "drained")
  <2> DEFINE chunk == held.acc \o held.pending
  <2>1. chunk \in Seq(Range(body))
    BY <1>1, ConcatProperties
  <2> HIDE DEF chunk
  <2>2. /\ body' = body
        /\ \/ \E how, settled : EndWith(how, settled) /\ settled # "matched"
           \/ stage' = "drained" /\ outcome' = outcome /\ end' = end /\ index' = index + 1
        /\ Slice(call, opened', 0) /\ (opened' # << >> => ~Altered)
        /\ stage' = "drained" => ~Altered /\ Len(opened') = Len(call.plaintext)
    <3>1. Emit(chunk, TRUE, "drained")
      BY <1>5 DEF chunk
    <3> QED
      BY <1>2, <2>1, <3>1, EmitsOpened
  <2>3. CASE \E how, settled : EndWith(how, settled) /\ settled # "matched"
    <3>1. stage' = "ended" /\ outcome' # "matched" /\ blobSource' # "open"
      BY <2>3 DEF EndWith
    <3> QED
      BY <1>2, <2>2, <3>1, Ends
  <2>4. CASE stage' = "drained" /\ outcome' = outcome /\ end' = end /\ index' = index + 1
    <3>1. /\ HeldForm' /\ held'.pending = << >> /\ held'.acc = << >> /\ held'.piece = << >>
      BY <1>5 DEF HeldForm, NothingHeld
    <3>2. /\ {held'.pending, held'.acc, held'.piece, source'} \subseteq Seq(Range(body))
          /\ Len(held'.acc) < SEALED_CHUNK_SIZE /\ index' \in Nat
      <4>1. << >> \in Seq(Range(body)) /\ Len(<< >>) < SEALED_CHUNK_SIZE
        BY EmptySeq, Sizes
      <4> QED
        BY <1>1, <1>2, <2>4, <3>1, <4>1
    <3> QED
      BY <1>2, <2>2, <2>4, <3>1, <3>2, OpenKept
  <2> QED
    BY <2>2, <2>3, <2>4
<1> QED
  BY <1>2, <1>3, <1>4, <1>5 DEF Flush, Whole

LEMMA Drains ==
  ASSUME StreamInv, Drained
  PROVE  StreamInv'
<1>1. /\ stage = "drained" /\ EndWith("returned", "matched")
      /\ UNCHANGED << opened, call, header >>
  BY DEF Drained, DriveUnchanged
<1>2. ~Altered /\ Len(opened) = Len(Text0) /\ Slice(call, opened, 0)
  BY <1>1 DEF StreamInv, OpenInv
<1>3. stage' = "ended" /\ outcome' = "matched" /\ end' = "returned" /\ blobSource' # "open"
  BY <1>1 DEF EndWith
<1>4. HeadInv' /\ BodyInv' /\ CutInv' /\ FetchInv'
  BY <1>3 DEF HeadInv, BodyInv, CutInv, FetchInv, Sealed, Fetched
<1>5. OpenInv' /\ EndInv'
  BY <1>1, <1>2, <1>3 DEF OpenInv, EndInv, Altered, Text0
<1> QED
  BY <1>1, <1>3, <1>4, <1>5 DEF StreamInv

(* A step that changes nothing but whether the caller gave up.             *)
LEMMA Still ==
  ASSUME StreamInv, UNCHANGED << call, stage, header, key, source, held, index, body, opened,
                                 outcome, end, blobSource >>
  PROVE  StreamInv'
<1>1. HeadInv' /\ BodyInv' /\ FetchInv'
  BY DEF StreamInv, HeadInv, BodyInv, FetchInv, HeldForm, Built
<1>2. CutInv'
  BY DEF StreamInv, CutInv, HeldForm, PendingEnd, AccEnd, PieceEnd, Built, Text0
<1>3. OpenInv' /\ EndInv'
  BY DEF StreamInv, OpenInv, EndInv, Altered, Built, Text0
<1> QED
  BY <1>1, <1>2, <1>3 DEF StreamInv

(* Every step keeps the invariant.                                         *)
LEMMA StreamInvStep ==
  StreamInv /\ [StreamNext]_streamVars => StreamInv'
<1> SUFFICES ASSUME StreamInv, [StreamNext]_streamVars
             PROVE  StreamInv'
  OBVIOUS
<1>1. CASE sealStream \/ Store \/ unwrapStream \/ passphraseOpenStream
  BY <1>1, SealStarts, Stores, Unwraps, PassphraseOpens
<1>2. CASE Lookahead \/ VerifyCommitment
  BY <1>2, LooksAhead, Verifies
<1>3. CASE ReadPiece \/ EndOfSource \/ Drained
  BY <1>3, ReadsPiece, EndsSource, Drains
<1>4. CASE Take
  <2>1. stage \in {"seal", "open"}
    BY <1>4 DEF Take, Driving
  <2> QED
    BY <1>4, <2>1, TakesSealed, TakesOpened
<1>5. CASE LastBlocks
  <2>1. stage \in {"seal", "open"}
    BY <1>5 DEF LastBlocks, Driving
  <2> QED
    BY <1>5, <2>1, FlushesSealed, FlushesOpened
<1>6. CASE Abort
  BY <1>6, Still DEF Abort
<1>7. CASE SourceFails
  <2>1. /\ EndWith("source failed", outcome) /\ stage # "ended"
        /\ call' = call /\ header' = header /\ opened' = opened
    BY <1>7 DEF SourceFails, Driving, DriveUnchanged
  <2> QED
    BY <2>1, EndsHere, Unsettled
<1>8. CASE NeverDriven
  <2>1. /\ LeavingOpen("never driven", outcome) /\ stage # "ended"
        /\ call' = call /\ header' = header /\ opened' = opened
    BY <1>8 DEF NeverDriven, DriveUnchanged
  <2> QED
    BY <2>1, EndsHere, Unsettled
<1>9. CASE StreamEnded \/ UNCHANGED streamVars
  BY <1>9, Still DEF StreamEnded, streamVars
<1> QED
  BY <1>1, <1>2, <1>3, <1>4, <1>5, <1>6, <1>7, <1>8, <1>9 DEF StreamNext

-----------------------------------------------------------------------------

(* Initially nothing is sealed and nothing opened.                         *)
LEMMA StreamInvInit ==
  StreamInit => StreamInv
<1> SUFFICES ASSUME StreamInit PROVE StreamInv
  OBVIOUS
<1>1. /\ call \in StreamCalls /\ stage = "start" /\ held = NothingHeld /\ index = 0
      /\ opened = << >> /\ outcome = "unsettled" /\ end = "none"
  BY DEF StreamInit, StreamIdle
<1>2. Slice(call, opened, 0)
  <2>1. Len(call.plaintext) \in Nat
    BY <1>1, StorageAssumption DEF List
  <2> QED
    BY <1>1, <2>1, SliceEmpty
<1>3. HeadInv /\ BodyInv /\ CutInv /\ FetchInv
  BY <1>1 DEF HeadInv, BodyInv, CutInv, FetchInv, Sealed, Fetched
<1>4. OpenInv /\ EndInv
  BY <1>1, <1>2 DEF OpenInv, EndInv
<1> QED
  BY <1>1, <1>3, <1>4 DEF StreamInv

(* The invariant of the sealed stream: what is held is the rest of what    *)
(* was to be sealed, what is stored is made of genuine bytes, and what is  *)
(* opened is a beginning of the plaintext.                                 *)
THEOREM StreamInvAlways ==
  StreamSpec => []StreamInv
BY StreamInvInit, StreamInvStep, PTL DEF StreamSpec

(* What is opened is a beginning of what was sealed, for this envelope and *)
(* these hashes, whatever storage made of either; "matched" is said only   *)
(* of the whole, and the source of the blob is closed.                     *)
THEOREM OnlyWhatWasSealedAlways ==
  StreamSpec => []OnlyWhatWasSealed
<1>1. StreamInv => OnlyWhatWasSealed
  <2> SUFFICES ASSUME StreamInv PROVE OnlyWhatWasSealed
    OBVIOUS
  <2>1. /\ Slice(call, opened, 0) /\ (opened # << >> => ~Altered)
        /\ outcome = "matched" => end = "returned" /\ ~Altered /\ Len(opened) = Len(call.plaintext)
        /\ stage = "ended" /\ blobSource = "open" => end \in {"rejected", "never driven"}
    BY Calls DEF StreamInv, OpenInv, EndInv
  <2>2. /\ IsPrefix(opened, call.plaintext)
        /\ Len(opened) = Len(call.plaintext) => opened = call.plaintext
    BY <2>1, Calls, SliceWhole
  <2> QED
    BY <2>1, <2>2 DEF OnlyWhatWasSealed
<1> QED
  BY <1>1, StreamInvAlways, PTL

-----------------------------------------------------------------------------
(* The grid that cuts a sequence into blocks.                              *)

LEMMA Order ==
  ASSUME NEW s \in Nat \ {0}, NEW a \in Nat, NEW b \in Nat
  PROVE  /\ a * s \in Nat /\ (a + 1) * s = a * s + s
         /\ a < b => a * s + s <= b * s
<1>1. a * s \in Nat /\ (a + 1) * s = a * s + s
  BY SMT
<1>2. ASSUME a < b PROVE a * s + s <= b * s
  <2> DEFINE d == b - a - 1
  <2>1. d \in Nat /\ b = a + 1 + d
    BY <1>2
  <2> HIDE DEF d
  <2>2. b * s = a * s + s + d * s /\ d * s \in Nat
    BY <2>1, SMT
  <2> QED
    BY <1>1, <2>2
<1> QED
  BY <1>1, <1>2

(* How many blocks of s there are in n: one at least, the last not empty.  *)
Blocks(n, s) == IF n = 0 THEN 1 ELSE (n + s - 1) \div s

LEMMA BlocksBound ==
  ASSUME NEW n \in Nat, NEW s \in Nat \ {0}
  PROVE  /\ Blocks(n, s) \in Nat \ {0} /\ n <= Blocks(n, s) * s
         /\ n > 0 => (Blocks(n, s) - 1) * s < n
<1>1. CASE n = 0
  BY <1>1 DEF Blocks
<1>2. CASE n > 0
  <2> DEFINE q == (n + s - 1) \div s
  <2>1. q \in Int /\ s * q <= n + s - 1 /\ n + s - 1 < s * q + s
    BY <1>2, SMT
  <2> HIDE DEF q
  <2>2. q * s = s * q /\ (q - 1) * s = q * s - s
    BY <2>1, SMT
  <2>3. q > 0
    <3>1. SUFFICES ASSUME q <= 0 PROVE FALSE
      BY <2>1
    <3>2. s * q <= 0
      BY <2>1, <3>1, SMT
    <3> QED
      BY <1>2, <2>1, <3>2
  <2> QED
    BY <1>2, <2>1, <2>2, <2>3 DEF Blocks, q
<1> QED
  BY <1>1, <1>2

LEMMA BlocksAre ==
  ASSUME NEW n \in Nat, NEW s \in Nat \ {0}, NEW k \in Nat, n <= k * s + s, k > 0 => k * s < n
  PROVE  Blocks(n, s) = k + 1
<1> DEFINE q == Blocks(n, s)
<1>1. q \in Nat \ {0} /\ n <= q * s /\ (n > 0 => (q - 1) * s < n)
  BY BlocksBound
<1>2. CASE n = 0
  BY <1>2, Order DEF Blocks
<1>3. CASE n > 0
  <2> HIDE DEF q
  <2>1. k * s < n
    <3>1. k = 0 => k * s = 0
      BY SMT
    <3> QED
      BY <1>3, <3>1
  <2>2. ~ (k + 1 < q)
    <3>1. SUFFICES ASSUME k + 1 < q PROVE FALSE
      OBVIOUS
    <3>2. k + 1 <= q - 1 /\ q - 1 \in Nat /\ k + 1 \in Nat
      BY <1>1, <3>1
    <3>3. (k + 1) * s <= (q - 1) * s
      <4>1. CASE k + 1 = q - 1
        BY <3>2, <4>1, Order
      <4>2. CASE k + 1 < q - 1
        BY <3>2, <4>2, Order
      <4> QED
        BY <3>2, <4>1, <4>2
    <3>4. (k + 1) * s = k * s + s /\ k * s \in Nat /\ (q - 1) * s \in Nat
      BY <3>2, Order
    <3> QED
      BY <1>1, <1>3, <3>3, <3>4
  <2>3. ~ (q <= k)
    <3>1. SUFFICES ASSUME q <= k PROVE FALSE
      OBVIOUS
    <3>2. q * s <= k * s
      <4>1. CASE q = k
        BY <4>1, <1>1, Order
      <4>2. CASE q < k
        BY <4>2, <1>1, Order
      <4> QED
        BY <1>1, <3>1, <4>1, <4>2
    <3>3. q * s \in Nat /\ k * s \in Nat
      BY <1>1, Order
    <3> QED
      BY <1>1, <2>1, <3>2, <3>3
  <2>4. q = k + 1
    BY <1>1, <2>2, <2>3
  <2> QED
    BY <2>4 DEF q
<1> QED
  BY <1>2, <1>3

(* A part p of some bytes, after the first k blocks of s: a full one with  *)
(* more behind it, or all that is left, which is empty only when nothing   *)
(* is before it.                                                           *)
Of(bytes) == [plaintext |-> bytes]
Block(bytes, s, k, p, final) ==
  /\ Slice(Of(bytes), p, k * s)
  /\ IF final THEN k * s + Len(p) = Len(bytes) /\ Len(p) <= s /\ (k > 0 => p # << >>)
     ELSE Len(p) = s /\ k * s + s < Len(bytes)

LEMMA SliceOf ==
  ASSUME NEW bytes, NEW p, NEW n
  PROVE  Slice(Of(bytes), p, n) <=>
           /\ p \in Seq(Range(bytes)) /\ n + Len(p) <= Len(bytes)
           /\ \A i \in 1..Len(p) : p[i] = bytes[n + i]
BY DEF Slice, Of

LEMMA CutForm ==
  ASSUME NEW bytes, List(bytes), NEW s
  PROVE  LET count == Blocks(Len(bytes), s) IN
         Cut(bytes, s) = [i \in 1..count |->
                            SubSeq(bytes, (i - 1) * s + 1,
                                   IF i = count THEN Len(bytes) ELSE i * s)]
<1>1. bytes = << >> <=> Len(bytes) = 0
  BY EmptySeq DEF List
<1> QED
  BY <1>1 DEF Cut, Blocks

LEMMA SliceIsPart ==
  ASSUME NEW bytes, List(bytes), NEW n \in Nat, NEW p, Slice(Of(bytes), p, n)
  PROVE  p = SubSeq(bytes, n + 1, n + Len(p))
<1> DEFINE q == SubSeq(bytes, n + 1, n + Len(p))
<1>1. /\ p \in Seq(Range(bytes)) /\ n + Len(p) <= Len(bytes) /\ Len(p) \in Nat
      /\ \A i \in 1..Len(p) : p[i] = bytes[n + i]
  BY SliceOf
<1>2. /\ q \in Seq(Range(bytes)) /\ Len(q) = Len(p)
      /\ \A i \in 1..Len(p) : q[i] = bytes[n + i]
  <2> DEFINE l == Len(p)
  <2>1. /\ bytes \in Seq(Range(bytes)) /\ n + 1 \in Nat \ {0} /\ n + l \in Nat
        /\ n + 1 <= (n + l) + 1 /\ (n + l) - (n + 1) + 1 = l
    <3>1. l \in Nat /\ bytes \in Seq(Range(bytes))
      BY <1>1 DEF List
    <3> HIDE DEF l
    <3> QED
      BY <3>1
  <2>2. /\ q \in Seq(Range(bytes)) /\ Len(q) = Len(p)
        /\ \A i \in 1..Len(p) : q[i] = bytes[n + 1 + i - 1]
    <3> DEFINE from == n + 1  to == n + l
    <3>1. /\ from \in Nat \ {0} /\ to \in Nat /\ to <= Len(bytes) /\ from <= to + 1
          /\ to - from + 1 = Len(p)
      BY <1>1, <2>1
    <3>2. q = SubSeq(bytes, from, to)
      OBVIOUS
    <3> HIDE DEF from, to, q, l
    <3>3. /\ q \in Seq(Range(bytes)) /\ Len(q) = Len(p)
          /\ \A i \in 1..Len(p) : q[i] = bytes[from + i - 1]
      <4>1. /\ SubSeq(bytes, from, to) \in Seq(Range(bytes))
            /\ Len(SubSeq(bytes, from, to)) = to - from + 1
            /\ \A i \in 1..(to - from + 1) : SubSeq(bytes, from, to)[i] = bytes[from + i - 1]
        BY <2>1, <3>1, Part
      <4> QED
        BY <3>1, <3>2, <4>1
    <3> QED
      BY <3>3 DEF from
  <2>3. \A i \in 1..Len(p) : n + 1 + i - 1 = n + i
    BY <1>1
  <2> QED
    BY <2>2, <2>3
<1> HIDE DEF q
<1>3. p = q
  BY <1>1, <1>2, SeqEqual
<1> QED
  BY <1>3 DEF q

(* A block is the chunk of its place.                                      *)
LEMMA CutIs ==
  ASSUME NEW bytes, List(bytes), NEW s \in Nat \ {0}, NEW k \in Nat, NEW p,
         NEW final \in BOOLEAN, Block(bytes, s, k, p, final)
  PROVE  LET chunks == Cut(bytes, s) IN
         /\ DOMAIN chunks = 1..Len(chunks) /\ Len(chunks) \in Nat \ {0}
         /\ k + 1 \in DOMAIN chunks /\ chunks[k + 1] = p
         /\ final <=> k + 1 = Len(chunks)
<1> DEFINE count == Blocks(Len(bytes), s)
           chunks == Cut(bytes, s)
<1>1. Len(bytes) \in Nat /\ Len(p) \in Nat /\ k * s \in Nat /\ (k + 1) * s = k * s + s
  <2>1. Len(p) \in Nat
    BY SliceLen DEF Block
  <2> QED
    BY <2>1, Order DEF List
<1>2. count \in Nat \ {0} /\ Len(bytes) <= count * s
  BY <1>1, BlocksBound
<1>3. /\ chunks = [i \in 1..count |-> SubSeq(bytes, (i - 1) * s + 1,
                                            IF i = count THEN Len(bytes) ELSE i * s)]
      /\ Len(chunks) = count
  <2>1. chunks = [i \in 1..count |-> SubSeq(bytes, (i - 1) * s + 1,
                                           IF i = count THEN Len(bytes) ELSE i * s)]
    BY CutForm
  <2> HIDE DEF chunks, count
  <2>2. Len(chunks) = count
    BY <1>2, <2>1
  <2> QED
    BY <2>1, <2>2
<1>4. p = SubSeq(bytes, k * s + 1, k * s + Len(p))
  BY <1>1, SliceIsPart DEF Block
<1>5. (k + 1) - 1 = k
  OBVIOUS
<1>6. CASE final
  <2>1. count = k + 1
    <3>1. k > 0 => k * s < Len(bytes)
      <4>1. k > 0 => Len(p) # 0
        BY <1>6, EmptySeq, SliceLen DEF Block
      <4> QED
        BY <1>1, <1>6, <4>1 DEF Block
    <3>2. Len(bytes) <= k * s + s
      BY <1>1, <1>6 DEF Block
    <3> QED
      BY <1>1, <3>1, <3>2, BlocksAre
  <2>2. chunks[k + 1] = SubSeq(bytes, k * s + 1, Len(bytes))
    <3> DEFINE i == k + 1
    <3>1. i \in 1..count /\ i = count /\ i - 1 = k
      BY <2>1
    <3> HIDE DEF chunks, count, i
    <3>2. chunks[i] = SubSeq(bytes, k * s + 1, Len(bytes))
      BY <1>3, <3>1
    <3> QED
      BY <3>2 DEF i
  <2>3. Len(bytes) = k * s + Len(p)
    BY <1>6 DEF Block
  <2> HIDE DEF chunks, count
  <2>4. chunks[k + 1] = p
    BY <1>4, <2>2, <2>3
  <2>5. DOMAIN chunks = 1..count
    BY <1>3
  <2> QED
    BY <1>2, <1>3, <1>6, <2>1, <2>4, <2>5 DEF chunks
<1>7. CASE ~final
  <2>1. k + 1 < count
    <3>1. (k + 1) * s < count * s
      BY <1>1, <1>2, <1>7, Order DEF Block
    <3>2. SUFFICES ASSUME count <= k + 1 PROVE FALSE
      BY <1>2
    <3> HIDE DEF count
    <3>3. count * s <= (k + 1) * s
      <4>1. CASE count = k + 1
        BY <4>1, <1>1, Order
      <4>2. CASE count < k + 1
        <5>1. count * s + s <= (k + 1) * s /\ count * s \in Nat /\ (k + 1) * s \in Nat
          BY <1>2, <4>2, Order
        <5> QED
          BY <5>1
      <4> QED
        BY <1>2, <3>2, <4>1, <4>2
    <3>4. count * s \in Nat /\ (k + 1) * s \in Nat
      BY <1>2, Order
    <3> QED
      BY <3>1, <3>3, <3>4
  <2> HIDE DEF chunks, count
  <2>2. chunks[k + 1] = SubSeq(bytes, k * s + 1, (k + 1) * s)
    <3> DEFINE i == k + 1
    <3>1. i \in 1..count /\ i # count /\ i - 1 = k
      BY <1>2, <2>1
    <3> HIDE DEF i
    <3>2. chunks[i] = SubSeq(bytes, k * s + 1, i * s)
      BY <1>3, <3>1
    <3> QED
      BY <3>2 DEF i
  <2>3. Len(p) = s
    BY <1>7 DEF Block
  <2>4. chunks[k + 1] = p
    BY <1>1, <1>4, <2>2, <2>3
  <2>5. DOMAIN chunks = 1..count /\ k + 1 \in 1..count
    BY <1>2, <1>3, <2>1
  <2> QED
    BY <1>2, <1>3, <1>7, <2>1, <2>4, <2>5 DEF chunks
<1> QED
  BY <1>6, <1>7

(* And every chunk is a block.                                             *)
LEMMA CutGives ==
  ASSUME NEW bytes, List(bytes), NEW s \in Nat \ {0}
  PROVE  LET chunks == Cut(bytes, s) IN
         /\ chunks = [i \in 1..Len(chunks) |-> chunks[i]] /\ Len(chunks) \in Nat \ {0}
         /\ Len(chunks) = Blocks(Len(bytes), s)
         /\ \A i \in 1..Len(chunks) :
              i - 1 \in Nat /\ Block(bytes, s, i - 1, chunks[i], i = Len(chunks))
<1> DEFINE count == Blocks(Len(bytes), s)
           chunks == Cut(bytes, s)
<1>1. Len(bytes) \in Nat /\ bytes \in Seq(Range(bytes))
  BY DEF List
<1>2. /\ count \in Nat \ {0} /\ Len(bytes) <= count * s
      /\ Len(bytes) > 0 => (count - 1) * s < Len(bytes)
      /\ Len(bytes) = 0 => count = 1
  BY <1>1, BlocksBound DEF Blocks
<1>3. chunks = [i \in 1..count |-> SubSeq(bytes, (i - 1) * s + 1,
                                         IF i = count THEN Len(bytes) ELSE i * s)]
  BY CutForm
<1> HIDE DEF count, chunks
<1>4. Len(chunks) = count
  BY <1>2, <1>3
<1>5. ASSUME NEW i \in 1..count
      PROVE  i - 1 \in Nat /\ Block(bytes, s, i - 1, chunks[i], i = count)
  <2> DEFINE k == i - 1
             last == IF i = count THEN Len(bytes) ELSE i * s
  <2>1. k \in Nat /\ k * s \in Nat /\ i * s = k * s + s /\ i * s \in Nat
    <3>1. k \in Nat /\ k + 1 = i
      BY <1>2, <1>5
    <3> HIDE DEF k
    <3> QED
      BY <3>1, Order
  <2>2. chunks[i] = SubSeq(bytes, k * s + 1, last)
    BY <1>3, <1>5
  <2>3. /\ i # count => i * s < Len(bytes)
        /\ i = count => (k > 0 => k * s < Len(bytes)) /\ k * s <= Len(bytes)
                        /\ Len(bytes) <= k * s + s
    <3>1. CASE i # count
      <4>1. Len(bytes) > 0
        BY <1>1, <1>2, <1>5, <3>1
      <4>2. i * s <= (count - 1) * s
        <5>1. CASE i = count - 1
          BY <5>1, <2>1
        <5>2. CASE i < count - 1
          <6>1. count - 1 \in Nat /\ i \in Nat
            BY <1>2, <1>5
          <6>2. i * s + s <= (count - 1) * s /\ i * s \in Nat /\ (count - 1) * s \in Nat
            BY <5>2, <6>1, Order
          <6> QED
            BY <6>2
        <5> QED
          BY <1>2, <1>5, <3>1, <5>1, <5>2
      <4>3. (count - 1) * s \in Nat
        BY <1>2, Order
      <4> QED
        BY <1>1, <1>2, <2>1, <3>1, <4>1, <4>2, <4>3
    <3>2. CASE i = count
      <4>1. Len(bytes) <= k * s + s
        BY <1>2, <2>1, <3>2
      <4>2. Len(bytes) > 0 => k * s < Len(bytes)
        BY <1>2, <3>2
      <4>3. Len(bytes) = 0 => k = 0 /\ k * s = 0
        BY <1>2, <3>2, SMT
      <4> HIDE DEF k
      <4> QED
        BY <1>1, <2>1, <3>2, <4>1, <4>2, <4>3
    <3> QED
      BY <3>1, <3>2
  <2>4. last \in Nat /\ last <= Len(bytes) /\ k * s <= last
    BY <1>1, <2>1, <2>3
  <2> HIDE DEF k, last
  <2>5. /\ chunks[i] \in Seq(Range(bytes)) /\ Len(chunks[i]) = last - k * s
        /\ \A j \in 1..Len(chunks[i]) : chunks[i][j] = bytes[k * s + j]
    <3>1. /\ k * s + 1 \in Nat \ {0} /\ k * s + 1 <= last + 1
          /\ last - (k * s + 1) + 1 = last - k * s
      BY <2>1, <2>4
    <3>2. /\ chunks[i] \in Seq(Range(bytes)) /\ Len(chunks[i]) = last - k * s
          /\ \A j \in 1..(last - k * s) : chunks[i][j] = bytes[(k * s + 1) + j - 1]
      BY <1>1, <2>2, <2>4, <3>1, Part
    <3>3. \A j \in 1..(last - k * s) : (k * s + 1) + j - 1 = k * s + j
      BY <2>1
    <3> QED
      BY <3>2, <3>3
  <2>6. Slice(Of(bytes), chunks[i], k * s)
    <3>1. k * s + Len(chunks[i]) <= Len(bytes)
      BY <1>1, <2>1, <2>4, <2>5
    <3> QED
      BY <2>5, <3>1, SliceOf
  <2>7. CASE i = count
    <3>0. last = Len(bytes)
      BY <2>7 DEF last
    <3>1. /\ k * s + Len(chunks[i]) = Len(bytes) /\ Len(chunks[i]) <= s
          /\ k > 0 => Len(chunks[i]) > 0
      <4> DEFINE at == k * s
      <4>1. /\ at \in Nat /\ (k > 0 => at < Len(bytes)) /\ Len(bytes) <= at + s
            /\ at <= Len(bytes) /\ Len(chunks[i]) = Len(bytes) - at
        BY <1>1, <2>1, <2>3, <2>5, <2>7, <3>0
      <4> HIDE DEF at
      <4>2. at + Len(chunks[i]) = Len(bytes) /\ Len(chunks[i]) <= s /\ (k > 0 => Len(chunks[i]) > 0)
        BY <1>1, <4>1
      <4> QED
        BY <4>2 DEF at
    <3>2. k > 0 => chunks[i] # << >>
      BY <3>1
    <3> QED
      BY <2>1, <2>6, <2>7, <3>1, <3>2 DEF Block, k
  <2>8. CASE i # count
    <3>0. last = i * s
      BY <2>8 DEF last
    <3>1. Len(chunks[i]) = s /\ k * s + s < Len(bytes)
      <4> DEFINE at == k * s  next == i * s
      <4>1. /\ at \in Nat /\ next = at + s /\ next < Len(bytes)
            /\ last = next /\ Len(chunks[i]) = last - at
        BY <2>1, <2>3, <2>5, <2>8, <3>0
      <4> HIDE DEF at, next
      <4>2. Len(chunks[i]) = s /\ at + s < Len(bytes)
        BY <1>1, <4>1
      <4> QED
        BY <4>2 DEF at
    <3> QED
      BY <2>1, <2>6, <2>8, <3>1 DEF Block, k
  <2> QED
    BY <2>7, <2>8
<1>6. chunks = [i \in 1..Len(chunks) |-> chunks[i]]
  BY <1>3, <1>4
<1> QED
  BY <1>2, <1>4, <1>5, <1>6 DEF chunks, count

-----------------------------------------------------------------------------
(* What flattening has put together after k of its sequences.              *)

Upto(seqs, k) ==
  IF k = 0 THEN << >>
  ELSE LET flatten[i \in 1..Len(seqs)] ==
             IF i = 1 THEN seqs[i] ELSE flatten[i-1] \o seqs[i]
       IN flatten[k]
Flattened(f, n, seqs) ==
  f = [i \in 1..n |-> IF i = 1 THEN seqs[i] ELSE f[i-1] \o seqs[i]]

LEMMA FlattenExists ==
  ASSUME NEW seqs, NEW n \in Nat
  PROVE  \E f : Flattened(f, n, seqs)
<1> DEFINE Missed == {k \in Nat : ~ \E f : Flattened(f, k, seqs)}
<1>1. SUFFICES ASSUME Missed # {} PROVE FALSE
  OBVIOUS
<1>2. PICK m \in Missed : \A k \in Missed : m <= k
  BY <1>1, Least
<1>3. m # 0
  <2>1. Flattened([i \in 1..0 |-> << >>], 0, seqs)
    BY DEF Flattened
  <2> QED
    BY <2>1, <1>2
<1>4. PICK f : Flattened(f, m - 1, seqs)
  BY <1>2, <1>3
<1> DEFINE next == [i \in 1..m |-> IF i = m THEN IF m = 1 THEN seqs[m] ELSE f[m - 1] \o seqs[m]
                                   ELSE f[i]]
<1>5. Flattened(next, m, seqs)
  <2>1. ASSUME NEW i \in 1..m
        PROVE  next[i] = IF i = 1 THEN seqs[i] ELSE next[i - 1] \o seqs[i]
    <3>1. CASE i = m
      <4>1. m # 1 => next[m - 1] = f[m - 1]
        BY <1>2, <1>3
      <4> QED
        BY <3>1, <4>1
    <3>2. CASE i # m
      <4>1. i \in 1..(m - 1) /\ next[i] = f[i] /\ (i # 1 => next[i - 1] = f[i - 1])
        BY <3>2, <1>2
      <4>2. f[i] = IF i = 1 THEN seqs[i] ELSE f[i - 1] \o seqs[i]
        BY <4>1, <1>4 DEF Flattened
      <4> QED
        BY <4>1, <4>2
    <3> QED
      BY <3>1, <3>2
  <2> HIDE DEF next
  <2> QED
    BY <2>1 DEF Flattened, next
<1> QED
  BY <1>2, <1>5

LEMMA UptoNext ==
  ASSUME NEW seqs, Len(seqs) \in Nat, NEW k \in Nat, k < Len(seqs)
  PROVE  /\ Upto(seqs, 0) = << >>
         /\ Upto(seqs, k + 1) = IF k = 0 THEN seqs[1] ELSE Upto(seqs, k) \o seqs[k + 1]
<1> DEFINE n == Len(seqs)
           flatten == CHOOSE f : Flattened(f, n, seqs)
<1>1. Flattened(flatten, n, seqs)
  BY FlattenExists
<1>2. \A i : i # 0 => Upto(seqs, i) = flatten[i]
  BY DEF Upto, Flattened
<1> HIDE DEF flatten
<1>3. flatten[k + 1] = IF k = 0 THEN seqs[1] ELSE flatten[k] \o seqs[k + 1]
  <2> DEFINE i == k + 1
  <2>1. i \in 1..n /\ i - 1 = k /\ (i = 1 <=> k = 0)
    OBVIOUS
  <2> HIDE DEF i, n
  <2>2. flatten[i] = IF k = 0 THEN seqs[1] ELSE flatten[k] \o seqs[i]
    BY <1>1, <2>1 DEF Flattened
  <2> QED
    BY <2>2 DEF i
<1>4. Upto(seqs, 0) = << >>
  BY DEF Upto
<1> QED
  BY <1>2, <1>3, <1>4

LEMMA UptoAll ==
  ASSUME NEW seqs, Len(seqs) \in Nat \ {0}
  PROVE  FlattenSeq(seqs) = Upto(seqs, Len(seqs))
BY DEF FlattenSeq, Upto

-----------------------------------------------------------------------------
(* A sequence put behind another.                                          *)

LEMMA Joins ==
  ASSUME NEW a, NEW b, List(a), List(b)
  PROVE  /\ List(a \o b) /\ Len(a \o b) = Len(a) + Len(b)
         /\ \A n \in Nat : \A p : Slice(Of(a), p, n) => Slice(Of(a \o b), p, n)
         /\ Slice(Of(a \o b), b, Len(a))
<1> DEFINE S == Range(a) \cup Range(b)
           ab == a \o b
<1>1. a \in Seq(S) /\ b \in Seq(S)
  <2>1. a \in Seq(Range(a)) /\ b \in Seq(Range(b))
    BY DEF List
  <2> QED
    BY <2>1
<1>2. /\ ab \in Seq(S) /\ Len(ab) = Len(a) + Len(b) /\ Len(a) \in Nat /\ Len(b) \in Nat
      /\ \A i \in 1..Len(a) : ab[i] = a[i]
      /\ \A i \in 1..Len(b) : ab[Len(a) + i] = b[i]
  <2>1. /\ ab \in Seq(S) /\ Len(ab) = Len(a) + Len(b) /\ Len(a) \in Nat /\ Len(b) \in Nat
        /\ \A i \in 1..(Len(a) + Len(b)) : ab[i] = IF i <= Len(a) THEN a[i] ELSE b[i - Len(a)]
    BY <1>1, ConcatProperties
  <2> HIDE DEF ab, S
  <2>2. \A i \in 1..Len(a) : ab[i] = a[i]
    BY <2>1
  <2>3. ASSUME NEW i \in 1..Len(b) PROVE ab[Len(a) + i] = b[i]
    <3>1. /\ Len(a) + i \in 1..(Len(a) + Len(b)) /\ ~ (Len(a) + i <= Len(a))
          /\ (Len(a) + i) - Len(a) = i
      BY <2>1
    <3> QED
      BY <2>1, <3>1
  <2> QED
    BY <2>1, <2>2, <2>3
<1> HIDE DEF ab
<1>3. ab = [i \in 1..Len(ab) |-> ab[i]] /\ Len(ab) \in Nat
  BY <1>2
<1>4. List(ab)
  BY <1>3, IsList
<1>5. ASSUME NEW p, NEW T, p \in Seq(T), NEW m \in Nat, m + Len(p) <= Len(ab),
             \A i \in 1..Len(p) : p[i] = ab[m + i]
      PROVE  Slice(Of(ab), p, m)
  <2>1. Len(p) \in Nat /\ DOMAIN p = 1..Len(p) /\ p \in [1..Len(p) -> T]
    BY <1>5
  <2>2. \A i \in 1..Len(p) : p[i] \in Range(ab)
    <3>1. SUFFICES ASSUME NEW i \in 1..Len(p) PROVE ab[m + i] \in Range(ab)
      BY <1>5
    <3>2. m + i \in 1..Len(ab)
      BY <1>2, <1>5, <2>1
    <3> QED
      BY <1>3, <3>2 DEF Range
  <2>3. p \in [1..Len(p) -> Range(ab)]
    BY <2>1, <2>2
  <2>4. p \in Seq(Range(ab))
    BY <2>1, <2>3, SeqDef
  <2> QED
    BY <1>5, <2>4, SliceOf
<1>6. ASSUME NEW n \in Nat, NEW p, Slice(Of(a), p, n) PROVE Slice(Of(ab), p, n)
  <2>1. /\ p \in Seq(Range(a)) /\ n + Len(p) <= Len(a) /\ \A i \in 1..Len(p) : p[i] = a[n + i]
        /\ Len(p) \in Nat
    BY <1>6, SliceOf
  <2>2. n + Len(p) <= Len(ab) /\ \A i \in 1..Len(p) : n + i \in 1..Len(a)
    BY <1>2, <2>1
  <2> QED
    BY <1>2, <1>5, <2>1, <2>2
<1>7. Slice(Of(ab), b, Len(a))
  BY <1>1, <1>2, <1>5
<1> QED
  BY <1>2, <1>4, <1>6, <1>7 DEF ab

LEMMA Itself ==
  ASSUME NEW a, List(a)
  PROVE  Slice(Of(a), a, 0) /\ Len(a) \in Nat
<1>1. a \in Seq(Range(a)) /\ Len(a) \in Nat
  BY DEF List
<1> QED
  BY <1>1, SliceOf

LEMMA Behind ==
  ASSUME NEW a, NEW b, List(a), List(b)
  PROVE  SubSeq(a \o b, Len(a) + 1, Len(a \o b)) = b
<1>1. Slice(Of(a \o b), b, Len(a)) /\ List(a \o b) /\ Len(a \o b) = Len(a) + Len(b) /\ Len(a) \in Nat
  BY Joins, Itself
<1> QED
  BY <1>1, SliceIsPart

-----------------------------------------------------------------------------
(* The sealed chunks of a call, laid one behind the other.                 *)

Chunks(c) == Cut(c.plaintext, CHUNK_SIZE)
ChunksOf(c) ==
  [i \in DOMAIN Chunks(c) |->
     SealedChunk(SealHeader(c).key, ChunkNonce(i - 1, i = Len(Chunks(c))), Chunks(c)[i])]
Stream(c) == streamSeal(SealHeader(c).key, c.plaintext)

LEMMA ChunkLen ==
  ASSUME NEW k, NEW nonce, NEW plain, Len(plain) \in Nat
  PROVE  /\ List(SealedChunk(k, nonce, plain))
         /\ Len(SealedChunk(k, nonce, plain)) = Len(plain) + TAG_SIZE
         /\ \A i \in 1..(Len(plain) + TAG_SIZE) : SealedChunk(k, nonce, plain)[i].of
              = [key |-> k, nonce |-> nonce, plain |-> plain]
         /\ \A i \in 1..(Len(plain) + TAG_SIZE) :
              "of" \in DOMAIN SealedChunk(k, nonce, plain)[i]
<1> DEFINE chunk == SealedChunk(k, nonce, plain)
           n == Len(plain) + TAG_SIZE
<1>1. chunk = [i \in 1..n |-> [of |-> [key |-> k, nonce |-> nonce, plain |-> plain], at |-> i]]
  BY DEF SealedChunk
<1>2. n \in Nat
  BY Sizes
<1> HIDE DEF chunk, n
<1>3. chunk = [i \in 1..n |-> chunk[i]]
  BY <1>1
<1>4. List(chunk) /\ Len(chunk) = n
  BY <1>2, <1>3, IsList
<1>5. \A i \in 1..n : chunk[i] = [of |-> [key |-> k, nonce |-> nonce, plain |-> plain], at |-> i]
  BY <1>1
<1>6. ASSUME NEW i \in 1..n
      PROVE  chunk[i].of = [key |-> k, nonce |-> nonce, plain |-> plain] /\ "of" \in DOMAIN chunk[i]
  <2> DEFINE byte == chunk[i]  of == [key |-> k, nonce |-> nonce, plain |-> plain]
  <2>1. byte = [of |-> of, at |-> i]
    BY <1>5
  <2> HIDE DEF byte, of
  <2>2. byte.of = of /\ DOMAIN byte = {"of", "at"}
    BY <2>1
  <2> QED
    BY <2>2 DEF byte, of
<1> QED
  BY <1>4, <1>6 DEF chunk, n

LEMMA ChunksAre ==
  ASSUME NEW c, List(c.plaintext)
  PROVE  /\ Len(Chunks(c)) \in Nat \ {0} /\ Len(ChunksOf(c)) = Len(Chunks(c))
         /\ DOMAIN Chunks(c) = 1..Len(Chunks(c)) /\ DOMAIN ChunksOf(c) = 1..Len(Chunks(c))
         /\ Len(Chunks(c)) = Blocks(Len(c.plaintext), CHUNK_SIZE)
         /\ \A i \in 1..Len(Chunks(c)) :
              /\ i - 1 \in Nat
              /\ Block(c.plaintext, CHUNK_SIZE, i - 1, Chunks(c)[i], i = Len(Chunks(c)))
              /\ ChunksOf(c)[i] = SealedChunk(SealHeader(c).key,
                                    ChunkNonce(i - 1, i = Len(Chunks(c))), Chunks(c)[i])
              /\ Len(Chunks(c)[i]) \in Nat /\ List(ChunksOf(c)[i])
              /\ Len(ChunksOf(c)[i]) = Len(Chunks(c)[i]) + TAG_SIZE
              /\ Len(Chunks(c)[i]) <= CHUNK_SIZE
              /\ i # Len(Chunks(c)) => Len(Chunks(c)[i]) = CHUNK_SIZE
         /\ Stream(c) = FlattenSeq(ChunksOf(c))
<1> DEFINE chunks == Chunks(c)  n == Len(chunks)
<1>1. /\ chunks = [i \in 1..n |-> chunks[i]] /\ n \in Nat \ {0}
      /\ n = Blocks(Len(c.plaintext), CHUNK_SIZE)
      /\ \A i \in 1..n : i - 1 \in Nat /\ Block(c.plaintext, CHUNK_SIZE, i - 1, chunks[i], i = n)
  BY CutGives, Sizes DEF Chunks
<1>2. Stream(c) = FlattenSeq(ChunksOf(c))
  BY DEF Stream, streamSeal, ChunksOf, Chunks
<1> HIDE DEF chunks
<1>3. DOMAIN chunks = 1..n
  BY <1>1
<1>4. ChunksOf(c) = [i \in 1..n |-> SealedChunk(SealHeader(c).key, ChunkNonce(i - 1, i = n), chunks[i])]
  BY <1>3 DEF ChunksOf, chunks
<1>5. DOMAIN ChunksOf(c) = 1..n /\ Len(ChunksOf(c)) = n
  BY <1>1, <1>4
<1>6. ASSUME NEW i \in 1..n
      PROVE  /\ ChunksOf(c)[i] = SealedChunk(SealHeader(c).key, ChunkNonce(i - 1, i = n), chunks[i])
             /\ Len(chunks[i]) \in Nat /\ List(ChunksOf(c)[i])
             /\ Len(ChunksOf(c)[i]) = Len(chunks[i]) + TAG_SIZE
             /\ Len(chunks[i]) <= CHUNK_SIZE
             /\ i # n => Len(chunks[i]) = CHUNK_SIZE
  <2>1. ChunksOf(c)[i] = SealedChunk(SealHeader(c).key, ChunkNonce(i - 1, i = n), chunks[i])
    BY <1>4
  <2>2. Slice(Of(c.plaintext), chunks[i], (i - 1) * CHUNK_SIZE)
    BY <1>1 DEF Block
  <2>3. Len(chunks[i]) \in Nat
    BY <2>2, SliceLen
  <2>4. Len(chunks[i]) <= CHUNK_SIZE /\ (i # n => Len(chunks[i]) = CHUNK_SIZE)
    BY <1>1, Sizes DEF Block
  <2>5. List(ChunksOf(c)[i]) /\ Len(ChunksOf(c)[i]) = Len(chunks[i]) + TAG_SIZE
    <3> DEFINE nonce == ChunkNonce(i - 1, i = n)
    <3>1. ChunksOf(c)[i] = SealedChunk(SealHeader(c).key, nonce, chunks[i])
      BY <2>1
    <3> DEFINE k == SealHeader(c).key  plain == chunks[i]
    <3>3. Len(plain) \in Nat
      BY <2>3
    <3>4. List(SealedChunk(k, nonce, plain)) /\ Len(SealedChunk(k, nonce, plain)) = Len(plain) + TAG_SIZE
      <4> HIDE DEF k, nonce, plain
      <4> QED
        BY <3>3, ChunkLen
    <3> HIDE DEF nonce
    <3>2. /\ List(SealedChunk(SealHeader(c).key, nonce, chunks[i]))
          /\ Len(SealedChunk(SealHeader(c).key, nonce, chunks[i])) = Len(chunks[i]) + TAG_SIZE
      BY <3>4
    <3> QED
      BY <3>1, <3>2
  <2> QED
    BY <2>1, <2>3, <2>4, <2>5
<1> QED
  BY <1>1, <1>2, <1>3, <1>5, <1>6 DEF chunks

(* After k of them: how long it is, and where each of them stands.         *)
Laid(c, k) ==
  /\ List(Upto(ChunksOf(c), k))
  /\ Len(Upto(ChunksOf(c), k)) = (k - 1) * SEALED_CHUNK_SIZE + Len(ChunksOf(c)[k])
  /\ \A j \in 1..k : Slice(Of(Upto(ChunksOf(c), k)), ChunksOf(c)[j], (j - 1) * SEALED_CHUNK_SIZE)

LEMMA LaysChunks ==
  ASSUME NEW c, List(c.plaintext)
  PROVE  \A k \in 1..Len(Chunks(c)) : Laid(c, k)
<1> DEFINE P == ChunksOf(c)  n == Len(Chunks(c))
           Missed == {k \in 1..n : ~Laid(c, k)}
<1>1. /\ n \in Nat \ {0} /\ Len(P) = n
      /\ \A i \in 1..n : List(P[i]) /\ Len(P[i]) \in Nat
      /\ \A i \in 1..n : i # n => Len(P[i]) = SEALED_CHUNK_SIZE
  <2>1. \A i \in 1..n : i # n => Len(P[i]) = SEALED_CHUNK_SIZE
    <3>1. \A i \in 1..n : /\ Len(P[i]) = Len(Chunks(c)[i]) + TAG_SIZE
                          /\ i # n => Len(Chunks(c)[i]) = CHUNK_SIZE
      BY ChunksAre
    <3> HIDE DEF P, n
    <3> QED
      BY <3>1 DEF SEALED_CHUNK_SIZE
  <2>2. \A i \in 1..n : List(P[i]) /\ Len(P[i]) \in Nat
    BY ChunksAre DEF List
  <2> QED
    BY <2>1, <2>2, ChunksAre
<1> HIDE DEF P, n
<1>2. SUFFICES ASSUME Missed # {} PROVE FALSE
  BY DEF n
<1>3. PICK m \in Missed : \A k \in Missed : m <= k
  <2>1. Missed \in SUBSET Nat
    BY <1>1
  <2> QED
    BY <1>2, <2>1, Least
<1>4. m \in 1..n /\ ~Laid(c, m)
  BY <1>3
<1>5. CASE m = 1
  <2>1. Upto(P, 1) = P[1]
    <3>1. /\ 0 \in Nat /\ 0 < Len(P)
      BY <1>1
    <3>2. Upto(P, 0 + 1) = P[1]
      BY <1>1, <3>1, UptoNext
    <3> QED
      BY <3>2
  <2>2. List(P[1]) /\ Slice(Of(P[1]), P[1], 0)
    BY <1>1, <1>4, <1>5, Itself
  <2>3. (1 - 1) * SEALED_CHUNK_SIZE = 0 /\ Len(P[1]) \in Nat
    BY <1>1, Sizes, SMT
  <2>4. \A j \in 1..1 : j = 1
    OBVIOUS
  <2>5. Laid(c, 1)
    BY <2>1, <2>2, <2>3, <2>4 DEF Laid, P
  <2> QED
    BY <1>4, <1>5, <2>5
<1>6. CASE m # 1
  <2> DEFINE k == m - 1  S == SEALED_CHUNK_SIZE  U == Upto(P, k)  V == Upto(P, m)
  <2>1. k \in 1..n /\ k # n /\ k \in Nat /\ k + 1 = m /\ k < Len(P) /\ k # 0 /\ m \in Nat
    BY <1>1, <1>4, <1>6
  <2>2. Laid(c, k)
    BY <1>3, <2>1
  <2>3. V = U \o P[m]
    BY <1>1, <2>1, UptoNext
  <2>4. /\ List(U) /\ Len(U) = (k - 1) * S + Len(P[k])
        /\ \A j \in 1..k : Slice(Of(U), P[j], (j - 1) * S)
    BY <2>2 DEF Laid, P
  <2> HIDE DEF U, V
  <2>5. Len(U) = k * S
    <3>1. k - 1 \in Nat /\ (k - 1) + 1 = k /\ Len(P[k]) = S
      BY <1>1, <2>1
    <3>2. ((k - 1) + 1) * S = (k - 1) * S + S
      BY <3>1, Order, Sizes
    <3> QED
      BY <2>4, <3>1, <3>2
  <2>6. /\ List(V) /\ Len(V) = Len(U) + Len(P[m])
        /\ \A i \in Nat : \A p : Slice(Of(U), p, i) => Slice(Of(V), p, i)
        /\ Slice(Of(V), P[m], Len(U))
    BY <1>1, <1>4, <2>3, <2>4, Joins
  <2>7. ASSUME NEW j \in 1..m PROVE Slice(Of(V), P[j], (j - 1) * S)
    <3>1. CASE j = m
      BY <2>5, <2>6, <3>1
    <3>2. CASE j # m
      <4>1. j \in 1..k /\ j - 1 \in Nat
        BY <2>1, <3>2
      <4>2. (j - 1) * S \in Nat
        BY <4>1, Order, Sizes
      <4> QED
        BY <2>4, <2>6, <4>1, <4>2
    <3> QED
      BY <3>1, <3>2
  <2>8. Laid(c, m)
    BY <2>5, <2>6, <2>7 DEF Laid, P, V
  <2> QED
    BY <1>4, <2>8
<1> QED
  BY <1>5, <1>6

(* The stream of a call, and the chunks that are cut from it again.        *)
LEMMA StreamIs ==
  ASSUME NEW c, List(c.plaintext)
  PROVE  /\ List(Stream(c)) /\ Len(Stream(c)) = streamSealedLength(Len(c.plaintext))
         /\ Len(Stream(c)) >= TAG_SIZE
         /\ Stream(c) = Upto(ChunksOf(c), Len(Chunks(c)))
         /\ Len(Cut(Stream(c), SEALED_CHUNK_SIZE)) = Len(Chunks(c))
         /\ DOMAIN Cut(Stream(c), SEALED_CHUNK_SIZE) = 1..Len(Chunks(c))
         /\ \A i \in 1..Len(Chunks(c)) : Cut(Stream(c), SEALED_CHUNK_SIZE)[i] = ChunksOf(c)[i]
<1> DEFINE P == ChunksOf(c)  n == Len(Chunks(c))  F == Stream(c)  S == SEALED_CHUNK_SIZE
           chunks == Chunks(c)
<1>1. /\ n \in Nat \ {0} /\ Len(P) = n /\ n = Blocks(Len(c.plaintext), CHUNK_SIZE)
      /\ \A i \in 1..n : /\ i - 1 \in Nat /\ Len(P[i]) = Len(chunks[i]) + TAG_SIZE
                         /\ Len(chunks[i]) \in Nat /\ Len(chunks[i]) <= CHUNK_SIZE
                         /\ i # n => Len(chunks[i]) = CHUNK_SIZE
                         /\ Block(c.plaintext, CHUNK_SIZE, i - 1, chunks[i], i = n)
  BY ChunksAre
<1>2. F = Upto(P, n)
  BY ChunksAre, UptoAll
<1>3. /\ List(F) /\ Len(F) = (n - 1) * S + Len(P[n])
      /\ \A j \in 1..n : Slice(Of(F), P[j], (j - 1) * S)
  <2>1. Laid(c, n)
    BY <1>1, LaysChunks
  <2> QED
    BY <1>2, <2>1 DEF Laid
<1>4. S = CHUNK_SIZE + TAG_SIZE /\ S \in Nat \ {0} /\ CHUNK_SIZE \in Nat \ {0} /\ TAG_SIZE \in Nat \ {0}
  BY Sizes DEF SEALED_CHUNK_SIZE
<1> HIDE DEF F, P, chunks, S, n
<1>5. Len(F) \in Nat
  BY <1>3 DEF List
<1>6. Len(F) = Len(c.plaintext) + n * TAG_SIZE
  <2> DEFINE k == n - 1
  <2>1. k \in Nat /\ k + 1 = n /\ n \in 1..n
    BY <1>1
  <2>2. k * CHUNK_SIZE + Len(chunks[n]) = Len(c.plaintext)
    BY <1>1, <2>1 DEF Block
  <2>3. Len(F) = k * S + (Len(chunks[n]) + TAG_SIZE) /\ Len(chunks[n]) \in Nat
    BY <1>1, <1>3, <2>1
  <2> HIDE DEF k
  <2>4. k * S = k * CHUNK_SIZE + k * TAG_SIZE
    BY <1>4, <2>1, SMT
  <2>5. n * TAG_SIZE = k * TAG_SIZE + TAG_SIZE /\ k * TAG_SIZE \in Nat /\ k * CHUNK_SIZE \in Nat
    BY <1>4, <2>1, Order
  <2> QED
    BY <1>4, <2>2, <2>3, <2>4, <2>5
<1>7. Len(F) = streamSealedLength(Len(c.plaintext)) /\ Len(F) >= TAG_SIZE
  <2> DEFINE k == n - 1
  <2>1. Len(c.plaintext) \in Nat /\ k \in Nat /\ k + 1 = n
    BY <1>1 DEF List
  <2>2. n * TAG_SIZE = TAG_SIZE * n
    BY <1>1, <1>4, SMT
  <2>3. n * TAG_SIZE >= TAG_SIZE
    <3> HIDE DEF k
    <3>1. (k + 1) * TAG_SIZE = k * TAG_SIZE + TAG_SIZE /\ k * TAG_SIZE \in Nat
      BY <1>4, <2>1, Order
    <3> QED
      BY <1>4, <2>1, <3>1
  <2>4. n * TAG_SIZE \in Nat
    BY <1>1, <1>4, Order
  <2>5. Len(F) >= TAG_SIZE
    BY <1>4, <1>6, <2>1, <2>3, <2>4
  <2>6. Len(F) = Len(c.plaintext) + TAG_SIZE * n
    BY <1>6, <2>2
  <2> QED
    BY <1>1, <2>5, <2>6 DEF streamSealedLength, Blocks
<1>8. ASSUME NEW i \in 1..n
      PROVE  LET again == Cut(F, S) IN
             /\ DOMAIN again = 1..Len(again) /\ Len(again) \in Nat \ {0}
             /\ i \in DOMAIN again /\ again[i] = P[i] /\ (i = n <=> i = Len(again))
  <2> DEFINE k == i - 1  final == i = n
  <2>1. k \in Nat /\ k + 1 = i /\ Slice(Of(F), P[i], k * S) /\ final \in BOOLEAN
    BY <1>1, <1>3
  <2>2. Len(P[i]) = Len(chunks[i]) + TAG_SIZE /\ Len(chunks[i]) \in Nat /\ Len(chunks[i]) <= CHUNK_SIZE
    BY <1>1
  <2>0. final <=> i = n
    OBVIOUS
  <2>3. ASSUME final PROVE Block(F, S, k, P[i], final)
    <3>1. k * S + Len(P[i]) = Len(F)
      BY <1>3, <2>3
    <3>2. Len(P[i]) <= S /\ Len(P[i]) > 0
      BY <1>4, <2>2
    <3>3. P[i] # << >>
      BY <3>2
    <3> HIDE DEF k, final
    <3> QED
      BY <2>1, <2>3, <3>1, <3>2, <3>3 DEF Block
  <2>4. ASSUME ~final PROVE Block(F, S, k, P[i], final)
    <3>1. Len(P[i]) = S
      BY <1>1, <1>4, <2>2, <2>4
    <3>2. k * S + S < Len(F)
      <4>1. i + 1 \in 1..n /\ (i + 1) - 1 = i /\ i \in Nat
        BY <1>1, <2>4
      <4>2. Slice(Of(F), P[i + 1], i * S) /\ Len(P[i + 1]) > 0
        <5> DEFINE ii == i + 1
        <5>1. ii \in 1..n /\ ii - 1 = i
          BY <4>1
        <5> HIDE DEF ii
        <5>2. Slice(Of(F), P[ii], i * S)
          BY <1>3, <5>1
        <5>3. Len(P[ii]) = Len(chunks[ii]) + TAG_SIZE /\ Len(chunks[ii]) \in Nat
          BY <1>1, <5>1
        <5>4. Len(P[ii]) > 0
          BY <1>4, <5>3
        <5> QED
          BY <5>2, <5>4 DEF ii
      <4>3. i * S + Len(P[i + 1]) <= Len(F) /\ Len(P[i + 1]) \in Nat
        BY <4>2, SliceOf, SliceLen
      <4>4. i * S = k * S + S /\ i * S \in Nat
        <5>1. (k + 1) * S = k * S + S /\ (k + 1) * S \in Nat
          BY <1>4, <2>1, Order
        <5> QED
          BY <2>1, <5>1
      <4> QED
        BY <1>5, <4>2, <4>3, <4>4
    <3> HIDE DEF k, final
    <3> QED
      BY <2>1, <2>4, <3>1, <3>2 DEF Block
  <2>5. Block(F, S, k, P[i], final)
    <3> HIDE DEF k, final
    <3> QED
      BY <2>3, <2>4
  <2> HIDE DEF k, final
  <2>6. LET again == Cut(F, S) IN
        /\ DOMAIN again = 1..Len(again) /\ Len(again) \in Nat \ {0}
        /\ k + 1 \in DOMAIN again /\ again[k + 1] = P[i] /\ (final <=> k + 1 = Len(again))
    BY <1>3, <1>4, <2>1, <2>5, CutIs
  <2> QED
    BY <2>1, <2>6 DEF final
<1>9. /\ Len(Cut(F, S)) = n /\ DOMAIN Cut(F, S) = 1..n
      /\ \A i \in 1..n : Cut(F, S)[i] = P[i]
  <2>1. n \in 1..n
    BY <1>1
  <2>2. Len(Cut(F, S)) = n /\ DOMAIN Cut(F, S) = 1..n
    BY <1>8, <2>1
  <2> QED
    BY <1>8, <2>2
<1> QED
  BY <1>2, <1>3, <1>7, <1>9 DEF F, P, S, n

-----------------------------------------------------------------------------
(* Every chunk of a call is sealed, and opens under its key at its place.  *)

LEMMA SealsChunk ==
  ASSUME NEW c, List(c.plaintext), NEW k \in Nat, NEW final \in BOOLEAN,
         k + 1 \in 1..Len(Chunks(c)), final <=> k + 1 = Len(Chunks(c)), NEW result,
         result = sealChunk(SealHeader(c).key, k, Chunks(c)[k + 1], final)
  PROVE  ~Failed(result) /\ result.sealed = ChunksOf(c)[k + 1]
<1> DEFINE i == k + 1  n == Len(Chunks(c))  plain == Chunks(c)[i]  key0 == SealHeader(c).key
<1>1. /\ i \in 1..n /\ i - 1 = k /\ n \in Nat \ {0} /\ (final <=> i = n)
      /\ Block(c.plaintext, CHUNK_SIZE, i - 1, plain, i = n)
      /\ ChunksOf(c)[i] = SealedChunk(key0, ChunkNonce(i - 1, i = n), plain)
      /\ Len(plain) \in Nat /\ Len(plain) <= CHUNK_SIZE /\ (i # n => Len(plain) = CHUNK_SIZE)
  BY ChunksAre
<1> HIDE DEF i, plain, n, key0
<1>2. final => (k > 0 => Len(plain) # 0)
  <2>1. final /\ k > 0 => plain # << >>
    BY <1>1 DEF Block
  <2>2. plain \in Seq(Range(c.plaintext))
    BY <1>1, SliceOf DEF Block
  <2> QED
    BY <2>1, <2>2, EmptySeq
<1>3. result = [sealed |-> SealedChunk(key0, ChunkNonce(k, final), plain)]
  <2>1. /\ final => ~ (Len(plain) > CHUNK_SIZE) /\ ~ (Len(plain) = 0 /\ k > 0)
        /\ ~final => Len(plain) = CHUNK_SIZE
    BY <1>1, <1>2, Sizes
  <2> QED
    BY <2>1 DEF sealChunk, i, plain, key0
<1>4. ChunkNonce(i - 1, i = n) = ChunkNonce(k, final)
  BY <1>1 DEF ChunkNonce
<1>5. ~Failed(result) /\ result.sealed = SealedChunk(key0, ChunkNonce(k, final), plain)
  BY <1>3 DEF Failed
<1> QED
  BY <1>1, <1>4, <1>5 DEF i

LEMMA OpensChunk ==
  ASSUME NEW c, List(c.plaintext), NEW k \in Nat, NEW final \in BOOLEAN,
         k + 1 \in 1..Len(Chunks(c)), final <=> k + 1 = Len(Chunks(c)), NEW result,
         result = openChunk(SealHeader(c).key, k, ChunksOf(c)[k + 1], final)
  PROVE  ~Failed(result)
<1> DEFINE i == k + 1  n == Len(Chunks(c))  plain == Chunks(c)[i]  key0 == SealHeader(c).key
           nonce == ChunkNonce(k, final)  chunk == SealedChunk(key0, nonce, plain)
<1>1. /\ i \in 1..n /\ i - 1 = k /\ n \in Nat \ {0} /\ (final <=> i = n)
      /\ Block(c.plaintext, CHUNK_SIZE, i - 1, plain, i = n)
      /\ ChunksOf(c)[i] = SealedChunk(key0, ChunkNonce(i - 1, i = n), plain)
      /\ Len(plain) \in Nat /\ Len(plain) <= CHUNK_SIZE /\ (i # n => Len(plain) = CHUNK_SIZE)
  BY ChunksAre
<1> HIDE DEF i, plain, n, key0
<1>2. final => (k > 0 => Len(plain) # 0)
  <2>1. final /\ k > 0 => plain # << >>
    BY <1>1 DEF Block
  <2>2. plain \in Seq(Range(c.plaintext))
    BY <1>1, SliceOf DEF Block
  <2> QED
    BY <2>1, <2>2, EmptySeq
<1>3. ChunksOf(c)[i] = chunk
  BY <1>1 DEF ChunkNonce
<1> HIDE DEF nonce
<1>4. /\ Len(chunk) = Len(plain) + TAG_SIZE
      /\ chunk[1].of = [key |-> key0, nonce |-> nonce, plain |-> plain]
      /\ "of" \in DOMAIN chunk[1]
  <2>1. 1 \in 1..(Len(plain) + TAG_SIZE)
    BY <1>1, Sizes
  <2> QED
    BY <1>1, <2>1, ChunkLen
<1>5. Authentic(key0, nonce, chunk)
  <2>1. chunk[1].of.plain = plain
    BY <1>4
  <2> QED
    BY <1>4, <2>1 DEF Authentic
<1> HIDE DEF chunk
<1>6. /\ ~ (Len(chunk) < TAG_SIZE)
      /\ ~final => Len(chunk) = SEALED_CHUNK_SIZE
      /\ final => ~ (Len(chunk) > SEALED_CHUNK_SIZE) /\ ~ (Len(chunk) = TAG_SIZE /\ k > 0)
  BY <1>1, <1>2, <1>4, Sizes DEF SEALED_CHUNK_SIZE
<1>7. result = openChunk(key0, k, chunk, final)
  BY <1>3 DEF i, key0
<1>8. result = [plain |-> chunk[1].of.plain]
  BY <1>5, <1>6, <1>7 DEF openChunk, nonce
<1> QED
  BY <1>8 DEF Failed

(* So the stream of a call opens whole.                                    *)
LEMMA StreamOpensWhole ==
  ASSUME NEW c, List(c.plaintext)
  PROVE  LET results == OpenedChunks(SealHeader(c).key, Cut(Stream(c), SEALED_CHUNK_SIZE)) IN
         \A i \in DOMAIN results : ~Failed(results[i])
<1> DEFINE chunks == Cut(Stream(c), SEALED_CHUNK_SIZE)  n == Len(Chunks(c))  key0 == SealHeader(c).key
           results == OpenedChunks(key0, chunks)
<1>1. /\ DOMAIN chunks = 1..n /\ Len(chunks) = n /\ \A i \in 1..n : chunks[i] = ChunksOf(c)[i]
      /\ n \in Nat \ {0}
  BY StreamIs, ChunksAre
<1> HIDE DEF chunks, key0
<1>2. results = [i \in 1..n |-> openChunk(key0, i - 1, chunks[i], i = n)]
  BY <1>1 DEF OpenedChunks
<1> HIDE DEF results
<1>3. ASSUME NEW i \in 1..n PROVE ~Failed(results[i])
  <2> DEFINE k == i - 1  final == i = n
  <2>1. k \in Nat /\ k + 1 = i /\ final \in BOOLEAN /\ (final <=> i = n)
    BY <1>1
  <2>2. results[i] = openChunk(key0, k, ChunksOf(c)[i], final)
    BY <1>1, <1>2
  <2> HIDE DEF k, final
  <2>3. results[i] = openChunk(SealHeader(c).key, k, ChunksOf(c)[k + 1], final)
    BY <2>1, <2>2 DEF key0
  <2>4. k + 1 \in 1..Len(Chunks(c)) /\ (final <=> k + 1 = Len(Chunks(c)))
    BY <2>1
  <2> QED
    BY <2>1, <2>3, <2>4, OpensChunk
<1>4. DOMAIN results = 1..n
  BY <1>2
<1> QED
  BY <1>3, <1>4 DEF results, chunks, key0

-----------------------------------------------------------------------------
(* Acceptance that fails nobody: when the slots that are accepted agree on *)
(* the content key, one is found and nothing conflicts.                    *)

LEMMA FoldAgrees ==
  ASSUME NEW accepted, NEW ceks, NEW n \in Nat, n = Len(ceks), NEW cek,
         \A i \in 1..n : accepted[i] \in BOOLEAN /\ (accepted[i] => ceks[i] = cek)
  PROVE  LET fold == FoldedAcceptance(accepted, ceks) IN
         /\ fold.found \in BOOLEAN /\ fold.conflict = FALSE
         /\ fold.found <=> \E i \in 1..n : accepted[i]
         /\ fold.found => fold.cek = cek
<1> DEFINE state == CHOOSE st : Folded(st, n, accepted, ceks)
<1>1. Folded(state, n, accepted, ceks)
  BY FoldExists
<1>2. FoldedAcceptance(accepted, ceks) = state[n]
  BY DEF FoldedAcceptance, Folded
<1> DEFINE Fine(k) == /\ state[k].found \in BOOLEAN /\ state[k].conflict = FALSE
                      /\ state[k].found <=> \E i \in 1..k : accepted[i]
                      /\ state[k].found => state[k].cek = cek
           Missed == {k \in 0..n : ~Fine(k)}
<1> HIDE DEF state
<1>3. CASE Missed = {}
  <2>1. Fine(n)
    BY <1>3
  <2> QED
    BY <2>1, <1>2
<1>4. CASE Missed # {}
  <2>1. PICK m \in Missed : \A k \in Missed : m <= k
    <3>1. Missed \in SUBSET Nat
      OBVIOUS
    <3> QED
      BY <3>1, <1>4, Least
  <2>2. m \in 0..n /\ ~Fine(m)
    BY <2>1
  <2>3. m # 0
    <3>1. state[0] = newSlotAcceptanceState
      BY <1>1 DEF Folded
    <3>2. state[0].found = FALSE /\ state[0].conflict = FALSE
      BY <3>1 DEF newSlotAcceptanceState
    <3>3. ~ \E i \in 1..0 : accepted[i]
      OBVIOUS
    <3>4. Fine(0)
      BY <3>2, <3>3, Zenon
    <3> QED
      BY <3>4, <2>2
  <2>4. state[m] = foldSlotAcceptance(state[m - 1], accepted[m], ceks[m], m)
    BY <1>1, <2>2, <2>3 DEF Folded
  <2>5. Fine(m - 1) /\ m \in 1..n /\ accepted[m] \in BOOLEAN /\ (accepted[m] => ceks[m] = cek)
    BY <2>1, <2>2, <2>3
  <2>6. /\ state[m].found \in BOOLEAN
        /\ state[m].found <=> state[m - 1].found \/ accepted[m]
        /\ state[m].cek = IF accepted[m] /\ ~state[m - 1].found THEN ceks[m]
                          ELSE state[m - 1].cek
    BY <2>4, <2>5, FoldStep
  <2>7. state[m].conflict = (state[m - 1].conflict \/ (accepted[m] /\ state[m - 1].found
                                                       /\ ceks[m] # state[m - 1].cek))
    BY <2>4 DEF foldSlotAcceptance
  <2>8. state[m].conflict = FALSE
    BY <2>5, <2>7
  <2>9. (\E i \in 1..m : accepted[i]) <=> (\E i \in 1..(m - 1) : accepted[i]) \/ accepted[m]
    <3>1. \A i : i \in 1..m <=> i \in 1..(m - 1) \/ i = m
      BY <2>5
    <3> QED
      BY <3>1
  <2> QED
    BY <2>2, <2>5, <2>6, <2>8, <2>9
<1> QED
  BY <1>3, <1>4

(* The slot of a recipient opens under their secret, to the content key.   *)
Tried(kem, slot, nonce, secret) ==
  IF kem = "x25519" THEN tryX25519Slot(slot, nonce, secret)
  ELSE tryMlkem768X25519Slot(slot, nonce, secret)
PublicKeyOf(kem, secret) ==
  IF kem = "x25519" THEN x25519PublicKey(secret) ELSE xwingPublicKey(secret)

LEMMA WrapOpened ==
  ASSUME NEW kek, NEW cek, cek.len = CEK_LENGTH
  PROVE  LET unwrapped == wrapOpenOrDummy(kek, Wrapped(kek, cek)) IN
         unwrapped = [ok |-> TRUE, cek |-> cek]
<1> DEFINE wrap == Wrapped(kek, cek)
<1>1. wrap.kek = kek /\ wrap.cek = cek /\ "kek" \in DOMAIN wrap
  BY DEF Wrapped
<1> HIDE DEF wrap
<1>2. wrapOpens(kek, wrap)
  BY <1>1 DEF wrapOpens
<1>3. wrapOpenOrDummy(kek, wrap) = [ok |-> TRUE, cek |-> cek]
  BY <1>1, <1>2 DEF wrapOpenOrDummy
<1> QED
  BY <1>3 DEF wrap

LEMMA SlotOpens ==
  ASSUME NEW args, NEW i, ~Failed(SlotFor(args, i)), args.fresh[i].who # "low-order",
         args.cek.len = CEK_LENGTH, NEW secret,
         args.recipientPublicKeys[i] = PublicKeyOf(args.kem, secret)
  PROVE  LET tried == Tried(args.kem, SlotFor(args, i), args.nonce, secret) IN
         tried.ok = TRUE /\ tried.cek = args.cek
<1> DEFINE pub == args.recipientPublicKeys[i]  eph == args.fresh[i]  nonce == args.nonce
           cek == args.cek  slot == SlotFor(args, i)
<1>1. CASE args.kem = "x25519"
  <2> DEFINE epk == [t |-> "bytes", len |-> 32, eph |-> eph.who]
             shared == x25519Ecdh(eph.who, pub.id)
             kek == hkdf(shared, x25519KekSalt(nonce, epk, pub))
  <2>1. slot = wrapSlotX25519(pub, eph, cek, nonce) /\ pub = x25519PublicKey(secret)
    BY <1>1 DEF SlotFor, PublicKeyOf
  <2>2. shared # LowOrder /\ slot = Map([epk |-> epk, wrap |-> Wrapped(kek, cek)])
    BY <2>1 DEF wrapSlotX25519, Failed, Failure
  <2>3. pub.id = secret.who
    BY <2>1 DEF x25519PublicKey
  <2>4. shared = [dh |-> {eph.who, pub.id}] /\ x25519Ecdh(secret.who, epk.eph) = shared
    BY <2>2, <2>3 DEF x25519Ecdh
  <2>5. epk # Missing /\ Wrapped(kek, cek) # Missing
    BY DEF Wrapped, Missing
  <2> DEFINE wrap == Wrapped(kek, cek)
  <2>6. Get(slot, "epk") = epk /\ Get(slot, "wrap") = wrap
    <3> HIDE DEF epk, wrap, slot
    <3>1. slot.m = [epk |-> epk, wrap |-> wrap] /\ slot.t = "map"
      BY <2>2 DEF Map, wrap
    <3>2. slot.m["epk"] = epk /\ slot.m["wrap"] = wrap /\ {"epk", "wrap"} \subseteq DOMAIN slot.m
      BY <3>1
    <3> QED
      BY <2>5, <3>1, <3>2 DEF Get, Keys, wrap
  <2> DEFINE unwrapped == wrapOpenOrDummy(kek, wrap)
  <2>7. unwrapped = [ok |-> TRUE, cek |-> cek]
    BY WrapOpened
  <2> HIDE DEF epk, wrap, slot, shared, kek
  <2>8. tryX25519Slot(slot, nonce, secret)
          = [wrapOpenOrDummy(hkdf(shared, x25519KekSalt(nonce, epk, x25519PublicKey(secret))), wrap)
               EXCEPT !.ok = @ /\ shared # LowOrder]
    BY <2>4, <2>6 DEF tryX25519Slot
  <2>9. tryX25519Slot(slot, nonce, secret) = [unwrapped EXCEPT !.ok = @ /\ shared # LowOrder]
    BY <2>1, <2>8 DEF kek
  <2> HIDE DEF unwrapped
  <2>10. /\ tryX25519Slot(slot, nonce, secret).ok = TRUE
         /\ tryX25519Slot(slot, nonce, secret).cek = cek
    BY <2>2, <2>7, <2>9
  <2> QED
    BY <1>1, <2>10 DEF Tried, slot
<1>2. CASE args.kem # "x25519"
  <2> DEFINE ct == KemCt(pub.id, eph.who)
             kek == hkdf([to |-> pub.id, eseed |-> eph.who], xwingKekSalt(nonce, ct, pub))
             wrap == Wrapped(kek, cek)
  <2>1. slot = Map([kem_ct |-> ct, wrap |-> wrap]) /\ pub = xwingPublicKey(secret)
    BY <1>2 DEF SlotFor, PublicKeyOf, wrapSlotMlkem768X25519
  <2>2. pub.id = secret.who
    BY <2>1 DEF xwingPublicKey
  <2>3. mlkem768x25519Decapsulate(secret.who, ct) = [to |-> pub.id, eseed |-> eph.who]
    <3>1. "to" \in DOMAIN ct /\ ct.to = pub.id /\ ct.eseed = eph.who
      BY DEF KemCt
    <3> HIDE DEF ct
    <3> QED
      BY <2>2, <3>1 DEF mlkem768x25519Decapsulate
  <2>4. ct # Missing /\ wrap # Missing
    BY DEF Wrapped, Missing, KemCt
  <2> HIDE DEF ct, wrap, slot, pub
  <2>5. Get(slot, "kem_ct") = ct /\ Get(slot, "wrap") = wrap
    <3>1. slot.m = [kem_ct |-> ct, wrap |-> wrap] /\ slot.t = "map"
      BY <2>1 DEF Map
    <3>2. slot.m["kem_ct"] = ct /\ slot.m["wrap"] = wrap /\ {"kem_ct", "wrap"} \subseteq DOMAIN slot.m
      BY <3>1
    <3> QED
      BY <2>4, <3>1, <3>2 DEF Get, Keys
  <2>6. tryMlkem768X25519Slot(slot, nonce, secret) = wrapOpenOrDummy(kek, wrap)
    BY <2>1, <2>3, <2>5 DEF tryMlkem768X25519Slot
  <2>7. tryMlkem768X25519Slot(slot, nonce, secret) = [ok |-> TRUE, cek |-> cek]
    BY <2>6, WrapOpened DEF wrap
  <2> QED
    BY <1>2, <2>7 DEF Tried, slot
<1> QED
  BY <1>1, <1>2

(* A pass over the slots of an envelope whose MAC stands under one content *)
(* key finds that key, in a slot that opens to it, or finds nothing.       *)
Agrees(pass, cek, kem, slots, nonce, secret) ==
  /\ pass.found \in BOOLEAN /\ pass.conflict = FALSE
  /\ pass.found => pass.cek = cek
  /\ \A i \in DOMAIN slots :
       LET tried == Tried(kem, slots[i], nonce, secret) IN
       tried.ok = TRUE /\ tried.cek = cek => pass.found

LEMMA PassAgrees ==
  ASSUME NEW envelope, NEW secret, NEW slotsHash, NEW cek,
         List(Elems(Get(envelope, "slots"))), NEW kem, Get(envelope, "kem") = Text(kem),
         Get(envelope, "slots_mac") = computeSlotsMac(cek, slotsHash)
  PROVE  Agrees(runPrivPass(envelope, secret, slotsHash), cek, kem,
                Elems(Get(envelope, "slots")), Get(envelope, "nonce"), secret)
<1> DEFINE slots == Elems(Get(envelope, "slots"))
           nonce == Get(envelope, "nonce")
           mac == Get(envelope, "slots_mac")
           tried == [i \in DOMAIN slots |-> Tried(kem, slots[i], nonce, secret)]
           accepted == [i \in DOMAIN slots |-> acceptsSlot(tried[i], mac, slotsHash)]
           ceks == [i \in DOMAIN slots |-> tried[i].cek]
           fold == FoldedAcceptance(accepted, ceks)
           pass == runPrivPass(envelope, secret, slotsHash)
<1>1. Len(slots) \in Nat /\ DOMAIN slots = 1..Len(slots)
  BY DEF List
<1>2. pass = PrivPassResult(fold, \E i \in DOMAIN slots : tried[i].ok)
  <2>1. Text(kem) = Text("x25519") <=> kem = "x25519"
    BY DEF Text
  <2>2. tried = [i \in DOMAIN slots |->
                   IF Get(envelope, "kem") = Text("x25519")
                   THEN tryX25519Slot(slots[i], nonce, secret)
                   ELSE tryMlkem768X25519Slot(slots[i], nonce, secret)]
    BY <2>1 DEF Tried
  <2> HIDE DEF tried
  <2> QED
    BY <2>2 DEF runPrivPass
<1>3. ASSUME NEW i \in 1..Len(slots)
      PROVE  /\ accepted[i] \in BOOLEAN
             /\ accepted[i] => ceks[i] = cek
             /\ tried[i].ok = TRUE /\ tried[i].cek = cek => accepted[i]
  <2> HIDE DEF tried, mac
  <2>1. /\ accepted[i] \in BOOLEAN
        /\ accepted[i] => computeSlotsMac(ceks[i], slotsHash) = mac
        /\ tried[i].ok = TRUE /\ computeSlotsMac(tried[i].cek, slotsHash) = mac => accepted[i]
    BY <1>1, <1>3 DEF acceptsSlot
  <2>2. mac = computeSlotsMac(cek, slotsHash)
    BY DEF mac
  <2>3. \A k : computeSlotsMac(k, slotsHash) = computeSlotsMac(cek, slotsHash) => k = cek
    BY DEF computeSlotsMac, Tag
  <2> QED
    BY <2>1, <2>2, <2>3
<1> HIDE DEF tried
<1>4. Len(ceks) = Len(slots)
  <2> HIDE DEF slots
  <2> QED
    BY <1>1
<1> HIDE DEF slots, accepted, ceks
<1>5. /\ fold.found \in BOOLEAN /\ fold.conflict = FALSE
      /\ fold.found <=> \E i \in 1..Len(slots) : accepted[i]
      /\ fold.found => fold.cek = cek
  BY <1>1, <1>3, <1>4, FoldAgrees
<1> HIDE DEF fold
<1>6. pass.found = fold.found /\ pass.cek = fold.cek /\ pass.conflict = fold.conflict
  BY <1>2 DEF PrivPassResult
<1> HIDE DEF pass
<1>7. \A i \in DOMAIN slots : tried[i].ok = TRUE /\ tried[i].cek = cek => pass.found
  BY <1>1, <1>3, <1>5, <1>6
<1>8. \A i \in DOMAIN slots : tried[i] = Tried(kem, slots[i], nonce, secret)
  BY DEF tried
<1>9. pass.found \in BOOLEAN /\ pass.conflict = FALSE /\ (pass.found => pass.cek = cek)
  BY <1>5, <1>6
<1> QED
  BY <1>7, <1>8, <1>9 DEF Agrees, pass, slots

(* Who holds the secret of a recipient matches the envelope as it was      *)
(* built, unless the call is refused, and has the key of the seal.         *)
SecretsOf(c) ==
  IF "bundle" \in DOMAIN c.keys THEN selectBundleSecrets(SealHeader(c).envelope, c.keys.bundle)
  ELSE c.keys.secrets
Recipient(c) ==
  \E k \in DOMAIN SecretsOf(c) :
    {x25519PublicKey(SecretsOf(c)[k]), xwingPublicKey(SecretsOf(c)[k])}
      \cap Range(c.args.recipientPublicKeys) # {}

LEMMA RecipientMatches ==
  ASSUME NEW c \in StreamCalls, c.path = "slots", ~Failed(SealHeader(c)),
         c.hashes = c.args.hashes, Recipient(c), NEW e, e = SealHeader(c).envelope,
         NEW trial, trial = eciesSealedPoeTrialDecrypt(e, c.hashes, c.keys), ~Failed(trial)
  PROVE  /\ trial.kind # "no_match"
         /\ slotsPayloadKey(trial.cek, Get(e, "nonce")) = SealHeader(c).key
<1> DEFINE built == buildSealedEnvelope(c.args)  pubs == c.args.recipientPublicKeys
           args == c.args  secrets == SecretsOf(c)
<1>1. ~Failed(built) /\ SealHeader(c) = [envelope |-> built.envelope, key |-> built.payloadKey,
                                          lead |-> << >>]
  BY DEF SealHeader, SlotsHeader
<1>2. /\ List(pubs) /\ {args.order[i] : i \in DOMAIN pubs} = DOMAIN pubs
      /\ \A i \in DOMAIN pubs : args.fresh[i].who # "low-order"
      /\ \A list \in KeyLists(c.keys) : List(list)
  BY StorageAssumption
<1>3. PICK slots : /\ List(slots) /\ \A i \in DOMAIN slots : BuiltSlot(args.kem, slots[i])
                   /\ DOMAIN slots = DOMAIN pubs
                   /\ \A i \in DOMAIN slots :
                        /\ slots[i] = SlotFor(args, args.order[i]) /\ ~Failed(SlotFor(args, i))
                        /\ pubs[i].len = KEM[args.kem].pub
                   /\ args.cek.len = CEK_LENGTH
                   /\ built = [envelope |-> BuiltEnvelope(args, slots),
                               payloadKey |-> slotsPayloadKey(args.cek, args.nonce)]
  <2>1. \A i \in DOMAIN pubs : args.order[i] \in DOMAIN pubs
    BY <1>2
  <2> QED
    BY <1>1, <1>2, <2>1, BuiltBySlots
<1>4. e = BuiltEnvelope(args, slots) /\ SealHeader(c).key = slotsPayloadKey(args.cek, args.nonce)
  BY <1>1, <1>3
<1>5. e = Map(e.m) /\ SlotsForm(e.m)
  BY <1>3, <1>4, BuiltForm
<1> DEFINE h == computeSlotsHash(SEALED_POE_AEAD, args.kem, args.nonce, slots,
                                 itemHashesHash(args.hashes))
<1>6. /\ e.m.aead = Text(SEALED_POE_AEAD) /\ e.m.kem = Text(args.kem)
      /\ e.m.nonce = args.nonce /\ e.m.slots = Arr(slots)
      /\ e.m.slots_mac = computeSlotsMac(args.cek, h)
  BY <1>4 DEF BuiltEnvelope, Map
<1> HIDE DEF h
<1>7. /\ Get(e, "nonce") = args.nonce /\ Get(e, "kem") = Text(args.kem)
      /\ Get(e, "aead") = Text(SEALED_POE_AEAD) /\ Elems(Get(e, "slots")) = slots
      /\ Get(e, "slots_mac") = computeSlotsMac(args.cek, h)
  <2>1. /\ \A k \in {"aead", "kem", "nonce", "slots", "slots_mac"} : Get(e, k) = e.m[k]
        /\ Elems(Get(e, "slots")) = e.m.slots.a
    <3>1. \A k \in {"scheme", "aead", "kem", "nonce", "slots", "slots_mac"} : Get(e, k) = e.m[k]
      BY <1>5, SlotsMembers
    <3>2. Elems(Get(e, "slots")) = e.m.slots.a
      BY <1>5, SlotsMembers
    <3> QED
      BY <3>1, <3>2
  <2>2. e.m.slots.a = slots
    BY <1>6 DEF Arr
  <2> QED
    BY <1>6, <2>1, <2>2
<1>8. slotsHashBytes(e, c.hashes) = h
  BY <1>7 DEF slotsHashBytes, h, Text
<1> DEFINE passes == [k \in DOMAIN secrets |-> runPrivPass(e, secrets[k], h)]
           hits == {k \in DOMAIN passes : passes[k].found}
<1>9. ASSUME NEW k \in DOMAIN secrets
      PROVE  Agrees(passes[k], args.cek, args.kem, slots, args.nonce, secrets[k])
  <2> DEFINE secret == secrets[k]  cek == args.cek  kem == args.kem  nonce == args.nonce
             pass == runPrivPass(e, secret, h)
  <2>1. /\ List(Elems(Get(e, "slots"))) /\ Get(e, "kem") = Text(kem)
        /\ Get(e, "slots_mac") = computeSlotsMac(cek, h)
        /\ Elems(Get(e, "slots")) = slots /\ Get(e, "nonce") = nonce
    BY <1>3, <1>7
  <2> HIDE DEF secret, cek, kem, nonce
  <2>2. Agrees(pass, cek, kem, Elems(Get(e, "slots")), Get(e, "nonce"), secret)
    BY <2>1, PassAgrees
  <2>3. passes[k] = pass
    BY DEF secret
  <2> HIDE DEF pass, passes
  <2>4. Agrees(passes[k], cek, kem, slots, nonce, secret)
    BY <2>1, <2>2, <2>3
  <2> QED
    BY <2>4 DEF secret, cek, kem, nonce
<1>10. PICK k \in DOMAIN secrets :
         {x25519PublicKey(secrets[k]), xwingPublicKey(secrets[k])} \cap Range(pubs) # {}
  BY DEF Recipient
<1> HIDE DEF secrets
<1>13. DOMAIN secrets \in SUBSET Nat /\ secrets # << >>
  <2>1. secrets \in KeyLists(c.keys)
    BY DEF KeyLists, selectBundleSecrets, secrets, SecretsOf
  <2>2. List(secrets)
    BY <1>2, <2>1
  <2> QED
    BY <1>10, <2>2 DEF List
<1> DEFINE scan == Scan(e, c.hashes, c.keys)
<1>17. trial = TrialResult(scan)
  BY DEF eciesSealedPoeTrialDecrypt
<1>18. \A code : Failed(Failure(code))
  BY DEF Failed, Failure
<1>19. scan = ScanSecrets(e, c.hashes, secrets, assertEnvelopeStructure(e, secrets))
  <2>1. secrets = IF "bundle" \in DOMAIN c.keys THEN selectBundleSecrets(e, c.keys.bundle)
                  ELSE c.keys.secrets
    BY DEF secrets, SecretsOf
  <2> QED
    BY <1>13, <2>1 DEF Scan
<1> HIDE DEF scan
<1>20. ~Failed(scan)
  BY <1>17 DEF TrialResult
<1>23. assertEnvelopeStructure(e, secrets) = "ok"
  BY <1>18, <1>19, <1>20 DEF ScanSecrets
<1>11. PICK j \in DOMAIN pubs : pubs[j] = PublicKeyOf(args.kem, secrets[k])
  <2>1. PICK j \in DOMAIN pubs : pubs[j] \in {x25519PublicKey(secrets[k]), xwingPublicKey(secrets[k])}
    BY <1>10 DEF Range
  <2>2. pubs[j].len = KEM[args.kem].pub
    BY <1>3, <2>1
  <2>3. args.kem \in DOMAIN KEM
    <3>1. TextIn(Text(args.kem), DOMAIN KEM)
      BY <1>7, <1>23, StructureStands
    <3> QED
      BY <3>1 DEF TextIn, Text
  <2> QED
    BY <2>1, <2>2, <2>3 DEF PublicKeyOf, x25519PublicKey, xwingPublicKey, KEM
<1>12. k \in hits
  <2>1. PICK i \in DOMAIN pubs : args.order[i] = j
    BY <1>2, <1>11
  <2>2. slots[i] = SlotFor(args, j) /\ ~Failed(SlotFor(args, j))
    BY <1>3, <1>11, <2>1
  <2>3. LET tried == Tried(args.kem, SlotFor(args, j), args.nonce, secrets[k]) IN
        tried.ok = TRUE /\ tried.cek = args.cek
    <3> DEFINE secret == secrets[k]  a == args
    <3>1. /\ ~Failed(SlotFor(a, j)) /\ a.fresh[j].who # "low-order" /\ a.cek.len = CEK_LENGTH
          /\ a.recipientPublicKeys[j] = PublicKeyOf(a.kem, secret)
      BY <1>2, <1>3, <1>11, <2>2
    <3> HIDE DEF secret, a
    <3>2. LET tried == Tried(a.kem, SlotFor(a, j), a.nonce, secret) IN
          tried.ok = TRUE /\ tried.cek = a.cek
      BY <3>1, SlotOpens
    <3> QED
      BY <3>2 DEF a, secret
  <2>4. passes[k].found
    <3> HIDE DEF passes
    <3> QED
      BY <1>3, <1>9, <1>10, <2>1, <2>2, <2>3 DEF Agrees
  <2> QED
    BY <1>10, <2>4
<1>14. Min(hits) \in hits
  <2>1. hits \in SUBSET Nat
    BY <1>13
  <2> QED
    BY <1>12, <2>1, MinInSet
<1> DEFINE pass == ScanWith(e, h, secrets)
<1>15. pass = passes[Min(hits)]
  BY <1>12 DEF ScanWith, FirstHit
<1>16. pass.found = TRUE /\ pass.conflict = FALSE /\ pass.cek = args.cek
  <2>1. Min(hits) \in DOMAIN secrets /\ passes[Min(hits)].found
    BY <1>14
  <2> HIDE DEF passes, hits, pass
  <2> QED
    BY <1>9, <1>15, <2>1 DEF Agrees
<1> HIDE DEF passes, hits, pass
<1>21. scan = pass
  <2>1. ScanSecrets(e, c.hashes, secrets, assertEnvelopeStructure(e, secrets))
          = IF assertEnvelopeStructure(e, secrets) # "ok"
            THEN Failure(assertEnvelopeStructure(e, secrets))
            ELSE IF Failed(itemHashesHash(c.hashes)) THEN itemHashesHash(c.hashes)
            ELSE ScanWith(e, slotsHashBytes(e, c.hashes), secrets)
    BY DEF ScanSecrets
  <2> QED
    BY <1>8, <1>18, <1>19, <1>20, <2>1 DEF pass
<1>22. trial = [kind |-> "match", slotIdx |-> pass.idx, cek |-> pass.cek]
  BY <1>16, <1>17, <1>20, <1>21 DEF TrialResult
<1> QED
  BY <1>4, <1>7, <1>16, <1>22

(* Who knows the passphrase derives the key of the seal, and the           *)
(* commitment that leads the body.                                         *)
LEMMA PassphraseMatches ==
  ASSUME NEW c \in StreamCalls, c.path = "passphrase", ~Failed(SealHeader(c)),
         c.hashes = c.args.hashes,
         normalizePassphrase(c.passphrase) = normalizePassphrase(c.args.passphrase),
         NEW e, e = SealHeader(c).envelope,
         NEW cek, cek = argon2Cek(normalizePassphrase(c.passphrase), SaltOf(e), ParamsOf(e))
  PROVE  /\ SealHeader(c).lead = Commitment(commitmentFor(e, cek, itemHashesHash(c.hashes)))
         /\ passphrasePayloadKey(cek, Get(e, "nonce")) = SealHeader(c).key
<1> DEFINE sealed == passphraseSealedPoeSeal(c.args, << >>)
           built == SealHeader(c)  a == c.args
           env == PassphraseEnvelope(Num(1), SEALED_POE_AEAD, a.nonce,
                    Text("argon2id"), a.salt, a.params)
           cek0 == argon2Cek(normalizePassphrase(a.passphrase), a.salt, a.params)
<1>1. built = PassphraseHeader(sealed)
  BY DEF SealHeader
<1>2. ~Failed(sealed) /\ built = [envelope |-> sealed.envelope, key |-> sealed.blob.stream.sealed,
                                  lead |-> Commitment(sealed.blob.commitment)]
  BY <1>1 DEF PassphraseHeader
<1>3. /\ sealed.envelope = env
      /\ sealed.blob.commitment = commitmentFor(sealed.envelope, cek0, itemHashesHash(a.hashes))
      /\ sealed.blob.stream.sealed = passphrasePayloadKey(cek0, a.nonce)
  BY <1>2, BuiltByPassphrase
<1> HIDE DEF sealed, built, env
<1>4. e = env
  BY <1>2, <1>3 DEF built
<1>5. Get(e, "nonce") = a.nonce /\ SaltOf(e) = a.salt /\ ParamsOf(e) = [f \in Costs |-> a.params[f]]
  BY <1>4, PassphraseMembers DEF env
<1>6. ParamsOf(e) = a.params
  <2>1. a.params = [f \in {"m", "t", "p"} |-> a.params[f]]
    BY StorageAssumption
  <2> QED
    BY <1>5, <2>1 DEF Costs
<1>7. cek = cek0
  BY <1>5, <1>6
<1> HIDE DEF cek0
<1>8. built.lead = Commitment(sealed.blob.commitment) /\ built.key = sealed.blob.stream.sealed
  BY <1>2
<1> QED
  BY <1>3, <1>4, <1>5, <1>7, <1>8 DEF built

LEMMA LeadLen ==
  ASSUME NEW c \in StreamCalls, ~Failed(SealHeader(c))
  PROVE  /\ List(SealHeader(c).lead)
         /\ Len(SealHeader(c).lead) = IF c.path = "slots" THEN 0 ELSE COMMITMENT_LENGTH
<1>1. CASE c.path = "slots"
  <2>1. SealHeader(c).lead = << >>
    BY <1>1 DEF SealHeader, SlotsHeader
  <2>2. List(<< >>) /\ Len(<< >>) = 0
    <3>1. << >> = [i \in 1..0 |-> << >>[i]]
      OBVIOUS
    <3> QED
      BY <3>1, EmptySeq DEF List
  <2> QED
    BY <1>1, <2>1, <2>2
<1>2. CASE c.path # "slots"
  <2> DEFINE lead == SealHeader(c).lead
  <2>1. PICK tag : lead = Commitment(tag)
    <3>1. SealHeader(c) = PassphraseHeader(passphraseSealedPoeSeal(c.args, << >>))
      BY <1>2 DEF SealHeader
    <3>2. lead = Commitment(passphraseSealedPoeSeal(c.args, << >>).blob.commitment)
      BY <3>1 DEF PassphraseHeader
    <3> QED
      BY <3>2
  <2> HIDE DEF lead
  <2>2. lead = [i \in 1..COMMITMENT_LENGTH |-> lead[i]]
    BY <2>1 DEF Commitment
  <2>3. List(lead) /\ Len(lead) = COMMITMENT_LENGTH
    BY <2>2, IsList, Sizes
  <2> QED
    BY <1>2, <2>3 DEF lead
<1> QED
  BY <1>1, <1>2

-----------------------------------------------------------------------------
(* The rechunker: of some bytes, the first k blocks have been handed on;   *)
(* what it holds, and what the source has, is the rest.                    *)
HoldsAt(bytes, size, k, pending, acc, piece, src) ==
  LET start == k * size
      accAt == start + Len(pending)
      pieceAt == accAt + Len(acc)
      srcAt == pieceAt + Len(piece) IN
  /\ Slice(Of(bytes), pending, start) /\ Slice(Of(bytes), acc, accAt)
  /\ Slice(Of(bytes), piece, pieceAt) /\ Slice(Of(bytes), src, srcAt)
  /\ srcAt + Len(src) = Len(bytes)
  /\ Len(pending) \in {0, size} /\ Len(acc) < size
  /\ k > 0 => pending # << >> \/ acc # << >>

LEMMA HeldLens ==
  ASSUME NEW bytes, List(bytes), NEW size \in Nat \ {0}, NEW k \in Nat,
         NEW pending, NEW acc, NEW piece, NEW src,
         HoldsAt(bytes, size, k, pending, acc, piece, src)
  PROVE  /\ Len(pending) \in Nat /\ Len(acc) \in Nat /\ Len(piece) \in Nat /\ Len(src) \in Nat
         /\ k * size \in Nat /\ (k + 1) * size = k * size + size /\ Len(bytes) \in Nat
         /\ {pending, acc, piece, src} \subseteq Seq(Range(bytes))
<1>1. \A p, n : Slice(Of(bytes), p, n) => Len(p) \in Nat /\ p \in Seq(Range(bytes))
  BY SliceLen DEF Of
<1>2. /\ (\E n : Slice(Of(bytes), pending, n)) /\ (\E n : Slice(Of(bytes), acc, n))
      /\ (\E n : Slice(Of(bytes), piece, n)) /\ (\E n : Slice(Of(bytes), src, n))
  BY DEF HoldsAt
<1>3. k * size \in Nat /\ (k + 1) * size = k * size + size
  BY Order
<1>4. Len(bytes) \in Nat
  BY DEF List
<1> QED
  BY <1>1, <1>2, <1>3, <1>4

(* At first nothing is held.                                               *)
LEMMA HoldsNothing ==
  ASSUME NEW bytes, List(bytes), NEW size \in Nat \ {0}
  PROVE  HoldsAt(bytes, size, 0, << >>, << >>, << >>, bytes)
<1>1. 0 * size = 0 /\ Len(bytes) \in Nat
  BY SMT DEF List
<1>2. Slice(Of(bytes), bytes, 0)
  BY Itself
<1>3. Slice(Of(bytes), << >>, 0)
  BY <1>1, SliceEmpty DEF Of
<1>4. Len(<< >>) = 0
  OBVIOUS
<1> QED
  BY <1>1, <1>2, <1>3, <1>4 DEF HoldsAt

(* A piece is read.                                                        *)
LEMMA HoldsPiece ==
  ASSUME NEW bytes, List(bytes), NEW size \in Nat \ {0}, NEW k \in Nat,
         NEW pending, NEW acc, NEW src, HoldsAt(bytes, size, k, pending, acc, << >>, src),
         NEW n \in 0..Len(src)
  PROVE  HoldsAt(bytes, size, k, pending, acc, SubSeq(src, 1, n), SubSeq(src, n + 1, Len(src)))
<1> DEFINE at == k * size + Len(pending) + Len(acc)
           a == SubSeq(src, 1, n)  b == SubSeq(src, n + 1, Len(src))
<1>1. /\ Len(pending) \in Nat /\ Len(acc) \in Nat /\ Len(src) \in Nat /\ k * size \in Nat
      /\ Len(<< >>) = 0 /\ Len(bytes) \in Nat
  BY HeldLens
<1>2. at \in Nat /\ at + Len(<< >>) = at
  BY <1>1
<1>3. Slice(Of(bytes), src, at) /\ at + Len(src) = Len(bytes)
  BY <1>1, <1>2 DEF HoldsAt
<1>4. Slice(Of(bytes), a, at) /\ Len(a) = n /\ Slice(Of(bytes), b, at + n) /\ Len(b) = Len(src) - n
  BY <1>1, <1>2, <1>3, SliceSplit DEF Of
<1> HIDE DEF a, b
<1>5. (at + n) + Len(b) = Len(bytes)
  <2> DEFINE lb == Len(b)  ls == Len(src)  l == Len(bytes)
  <2> HIDE DEF at, lb, ls, l
  <2>1. at \in Nat /\ ls \in Nat /\ n \in Nat /\ at + ls = l /\ lb = ls - n
    BY <1>1, <1>2, <1>3, <1>4 DEF lb, ls, l
  <2>2. (at + n) + lb = l
    BY <2>1
  <2> QED
    BY <2>2 DEF lb, l
<1> QED
  BY <1>4, <1>5 DEF HoldsAt, a, b

LEMMA SliceMove ==
  ASSUME NEW bytes, List(bytes), NEW at \in Nat, NEW acc, NEW piece,
         Slice(Of(bytes), acc, at), Slice(Of(bytes), piece, at + Len(acc)), NEW n \in 1..Len(piece)
  PROVE  LET acc2 == acc \o SubSeq(piece, 1, n)
             rest == SubSeq(piece, n + 1, Len(piece)) IN
         /\ Slice(Of(bytes), acc2, at) /\ Len(acc2) = Len(acc) + n
         /\ Slice(Of(bytes), rest, at + (Len(acc) + n)) /\ Len(rest) = Len(piece) - n
<1>1. Len(acc) \in Nat /\ Len(piece) \in Nat
  BY SliceLen
<1>2. /\ at + Len(acc) \in Nat /\ n \in 0..Len(piece) /\ List(Of(bytes).plaintext)
      /\ (at + Len(acc)) + n = at + (Len(acc) + n)
  BY <1>1 DEF Of
<1> DEFINE a == SubSeq(piece, 1, n)  rest == SubSeq(piece, n + 1, Len(piece))
<1>3. /\ Slice(Of(bytes), a, at + Len(acc)) /\ Len(a) = n
      /\ Slice(Of(bytes), rest, (at + Len(acc)) + n) /\ Len(rest) = Len(piece) - n
  BY <1>2, SliceSplit
<1> HIDE DEF a, rest
<1>4. Slice(Of(bytes), acc \o a, at) /\ Len(acc \o a) = Len(acc) + Len(a)
  BY <1>2, <1>3, SliceJoin
<1> QED
  BY <1>2, <1>3, <1>4 DEF a, rest

(* Some of it is moved to the block that is put together: a block that is  *)
(* full waits, and one that waited is handed on.                           *)
LEMMA MovesOn ==
  ASSUME NEW bytes, List(bytes), NEW size \in Nat \ {0}, NEW k \in Nat,
         NEW pending, NEW acc2, NEW rest, NEW src, NEW start, start = k * size,
         Slice(Of(bytes), pending, start), Slice(Of(bytes), acc2, start + Len(pending)),
         Slice(Of(bytes), rest, (start + Len(pending)) + Len(acc2)),
         Slice(Of(bytes), src, ((start + Len(pending)) + Len(acc2)) + Len(rest)),
         ((start + Len(pending)) + Len(acc2)) + Len(rest) + Len(src) = Len(bytes),
         Len(pending) \in {0, size}, acc2 # << >>
  PROVE  /\ Len(acc2) < size => HoldsAt(bytes, size, k, pending, acc2, rest, src)
         /\ Len(acc2) = size /\ pending = << >> =>
              HoldsAt(bytes, size, k, acc2, << >>, rest, src)
         /\ Len(acc2) = size /\ pending # << >> =>
              /\ Block(bytes, size, k, pending, FALSE)
              /\ HoldsAt(bytes, size, k + 1, acc2, << >>, rest, src)
<1>1. /\ Len(pending) \in Nat /\ Len(acc2) \in Nat /\ Len(rest) \in Nat /\ Len(src) \in Nat
      /\ pending \in Seq(Range(bytes)) /\ Len(bytes) \in Nat
  BY SliceLen DEF List, Of
<1>2. start \in Nat
  BY Order
<1>3. (k + 1) * size = start + size
  BY Order
<1> DEFINE at == start + Len(pending)  restAt == at + Len(acc2)
<1>4. /\ at \in Nat /\ restAt \in Nat /\ restAt <= Len(bytes)
      /\ restAt + Len(rest) + Len(src) = Len(bytes)
  BY <1>1, <1>2
<1>5. Slice(Of(bytes), << >>, restAt)
  BY <1>4, SliceEmpty DEF Of
<1>6. Len(<< >>) = 0
  OBVIOUS
<1>7. ASSUME Len(acc2) < size PROVE HoldsAt(bytes, size, k, pending, acc2, rest, src)
  BY <1>7 DEF HoldsAt
<1>8. \A j, p : LET from == j * size IN
        HoldsAt(bytes, size, j, acc2, p, rest, src) <=>
          /\ Slice(Of(bytes), acc2, from) /\ Slice(Of(bytes), p, from + Len(acc2))
          /\ Slice(Of(bytes), rest, (from + Len(acc2)) + Len(p))
          /\ Slice(Of(bytes), src, ((from + Len(acc2)) + Len(p)) + Len(rest))
          /\ ((from + Len(acc2)) + Len(p)) + Len(rest) + Len(src) = Len(bytes)
          /\ Len(acc2) \in {0, size} /\ Len(p) < size
          /\ (j > 0 => acc2 # << >> \/ p # << >>)
  BY Zenon DEF HoldsAt
<1>9. ASSUME Len(acc2) = size, NEW j \in Nat, j * size = at
      PROVE  HoldsAt(bytes, size, j, acc2, << >>, rest, src)
  <2>1. /\ (at + Len(acc2)) + Len(<< >>) = restAt /\ Len(acc2) \in {0, size}
        /\ Len(<< >>) < size
    BY <1>4, <1>6, <1>9
  <2>2. Slice(Of(bytes), acc2, at) /\ Slice(Of(bytes), rest, restAt)
        /\ Slice(Of(bytes), src, restAt + Len(rest))
    OBVIOUS
  <2> HIDE DEF at, restAt
  <2> QED
    BY <1>4, <1>5, <1>8, <1>9, <2>1, <2>2 DEF restAt
<1>10. ASSUME Len(acc2) = size, pending = << >>
       PROVE  HoldsAt(bytes, size, k, acc2, << >>, rest, src)
  <2>1. k * size = at
    BY <1>2, <1>6, <1>10
  <2> QED
    BY <1>9, <1>10, <2>1
<1>11. ASSUME Len(acc2) = size, pending # << >>
       PROVE  /\ Block(bytes, size, k, pending, FALSE)
              /\ HoldsAt(bytes, size, k + 1, acc2, << >>, rest, src)
  <2>1. Len(pending) = size
    BY <1>1, <1>11, EmptySeq
  <2>2. (k + 1) * size = at
    BY <1>3, <2>1
  <2>3. start + size < Len(bytes)
    BY <1>1, <1>2, <1>4, <1>11, <2>1
  <2>4. Block(bytes, size, k, pending, FALSE)
    BY <2>1, <2>3 DEF Block
  <2> QED
    <3>1. k + 1 \in Nat
      OBVIOUS
    <3>2. HoldsAt(bytes, size, k + 1, acc2, << >>, rest, src)
      BY <1>9, <1>11, <2>2, <3>1
    <3> QED
      BY <2>4, <3>2
<1> QED
  BY <1>7, <1>10, <1>11

(* A piece is split: its first n bytes go to the block, and the rest waits. *)
Split(acc, piece, n, acc2, rest) ==
  acc2 = acc \o SubSeq(piece, 1, n) /\ rest = SubSeq(piece, n + 1, Len(piece))
Handed(bytes, size, k, pending, acc2, rest, src) ==
  /\ Len(acc2) \in Nat /\ Len(acc2) <= size
  /\ Len(acc2) < size => HoldsAt(bytes, size, k, pending, acc2, rest, src)
  /\ Len(acc2) = size /\ pending = << >> => HoldsAt(bytes, size, k, acc2, << >>, rest, src)
  /\ Len(acc2) = size /\ pending # << >> =>
       /\ Block(bytes, size, k, pending, FALSE)
       /\ HoldsAt(bytes, size, k + 1, acc2, << >>, rest, src)

LEMMA HoldsMoved ==
  ASSUME NEW bytes, List(bytes), NEW size \in Nat \ {0}, NEW k \in Nat,
         NEW pending, NEW acc, NEW piece, NEW src,
         HoldsAt(bytes, size, k, pending, acc, piece, src),
         NEW n \in 1..Len(piece), n <= size - Len(acc),
         NEW acc2, NEW rest, Split(acc, piece, n, acc2, rest)
  PROVE  Handed(bytes, size, k, pending, acc2, rest, src)
<1> DEFINE start == k * size  at == start + Len(pending)
           la == Len(acc)  lp == Len(piece)  l2 == Len(acc2)  lr == Len(rest)
<1>0. acc2 = acc \o SubSeq(piece, 1, n) /\ rest = SubSeq(piece, n + 1, Len(piece))
  BY DEF Split
<1>1. Len(pending) \in Nat /\ la \in Nat /\ lp \in Nat /\ Len(src) \in Nat /\ start \in Nat
  BY HeldLens
<1>2. /\ Slice(Of(bytes), pending, start) /\ Slice(Of(bytes), acc, at)
      /\ Slice(Of(bytes), piece, at + la) /\ Slice(Of(bytes), src, (at + la) + lp)
      /\ (at + la) + lp + Len(src) = Len(bytes) /\ Len(pending) \in {0, size}
  BY DEF HoldsAt
<1> HIDE DEF start
<1>3. at \in Nat
  BY <1>1, <1>2
<1> HIDE DEF at
<1>4. /\ Slice(Of(bytes), acc2, at) /\ l2 = la + n
      /\ Slice(Of(bytes), rest, at + (la + n)) /\ lr = lp - n
  BY <1>0, <1>2, <1>3, SliceMove
<1> HIDE DEF la, lp, l2, lr
<1>5. n \in Nat /\ n > 0 /\ n <= lp /\ n <= size - la
  BY <1>1 DEF la, lp
<1>6. /\ l2 \in Nat /\ l2 <= size /\ l2 # 0
      /\ at + (la + n) = at + l2 /\ (at + la) + lp = (at + l2) + lr
  BY <1>1, <1>3, <1>4, <1>5
<1>7. acc2 # << >>
  <2>1. Len(<< >>) = 0
    OBVIOUS
  <2> QED
    BY <1>6, <2>1 DEF l2
<1>8. /\ Slice(Of(bytes), rest, at + Len(acc2)) /\ Slice(Of(bytes), src, (at + Len(acc2)) + Len(rest))
      /\ (at + Len(acc2)) + Len(rest) + Len(src) = Len(bytes)
  BY <1>2, <1>4, <1>6 DEF l2, lr
<1>9. at = start + Len(pending) /\ start = k * size
  BY DEF at, start
<1>10. /\ Len(acc2) < size => HoldsAt(bytes, size, k, pending, acc2, rest, src)
       /\ Len(acc2) = size /\ pending = << >> =>
            HoldsAt(bytes, size, k, acc2, << >>, rest, src)
       /\ Len(acc2) = size /\ pending # << >> =>
            /\ Block(bytes, size, k, pending, FALSE)
            /\ HoldsAt(bytes, size, k + 1, acc2, << >>, rest, src)
  BY <1>2, <1>4, <1>7, <1>8, <1>9, MovesOn
<1>11. Len(acc2) \in Nat /\ Len(acc2) <= size
  BY <1>6 DEF l2
<1> QED
  BY <1>10, <1>11 DEF Handed

(* The last blocks are handed on.                                          *)
LEMMA HoldsLast ==
  ASSUME NEW bytes, List(bytes), NEW size \in Nat \ {0}, NEW k \in Nat, NEW pending, NEW acc,
         HoldsAt(bytes, size, k, pending, acc, << >>, << >>)
  PROVE  IF acc # << >> /\ pending # << >>
         THEN /\ Block(bytes, size, k, pending, FALSE)
              /\ HoldsAt(bytes, size, k + 1, << >>, acc, << >>, << >>)
         ELSE Block(bytes, size, k, acc \o pending, TRUE)
<1> DEFINE start == k * size  accAt == start + Len(pending)
<1>1. /\ Len(pending) \in Nat /\ Len(acc) \in Nat /\ Len(<< >>) = 0
      /\ start \in Nat /\ (k + 1) * size = start + size /\ Len(bytes) \in Nat
      /\ pending \in Seq(Range(bytes)) /\ acc \in Seq(Range(bytes))
  BY HeldLens
<1>2. /\ Slice(Of(bytes), pending, start) /\ Slice(Of(bytes), acc, accAt)
      /\ ((accAt + Len(acc)) + Len(<< >>)) + Len(<< >>) = Len(bytes)
      /\ Slice(Of(bytes), << >>, (accAt + Len(acc)) + Len(<< >>))
      /\ Len(pending) \in {0, size} /\ Len(acc) < size
      /\ k > 0 => pending # << >> \/ acc # << >>
  BY DEF HoldsAt
<1> HIDE DEF start
<1>3. accAt \in Nat /\ accAt + Len(acc) = Len(bytes)
  BY <1>1, <1>2
<1>4. CASE acc # << >> /\ pending # << >>
  <2>1. Len(pending) = size /\ Len(acc) > 0
    BY <1>1, <1>2, <1>4, EmptySeq
  <2>2. accAt = (k + 1) * size /\ start + size < Len(bytes)
    BY <1>1, <1>3, <2>1
  <2>3. Block(bytes, size, k, pending, FALSE)
    BY <1>2, <2>1, <2>2 DEF Block, start
  <2> DEFINE next == (k + 1) * size
  <2>4. /\ next + Len(<< >>) = next /\ Slice(Of(bytes), acc, next) /\ next + Len(acc) = Len(bytes)
        /\ next \in Nat /\ next <= Len(bytes)
    <3>1. Slice(Of(bytes), acc, next) /\ next + Len(acc) = Len(bytes) /\ next \in Nat
      BY <1>2, <1>3, <2>2
    <3> HIDE DEF next
    <3> QED
      BY <1>1, <3>1
  <2>5. Slice(Of(bytes), << >>, next) /\ Slice(Of(bytes), << >>, Len(bytes))
    BY <1>1, <2>4, SliceEmpty DEF Of
  <2>6. ((next + Len(acc)) + Len(<< >>)) = Len(bytes) /\ Len(bytes) + Len(<< >>) = Len(bytes)
    BY <1>1, <2>4
  <2>7. HoldsAt(bytes, size, k + 1, << >>, acc, << >>, << >>)
    <3> HIDE DEF next
    <3> QED
      BY <1>1, <1>2, <1>4, <2>4, <2>5, <2>6 DEF HoldsAt, next
  <2> QED
    BY <1>4, <2>3, <2>7
<1>5. CASE acc = << >> \/ pending = << >>
  <2> DEFINE chunk == acc \o pending
  <2>1. /\ Slice(Of(bytes), chunk, start) /\ start + Len(chunk) = Len(bytes) /\ Len(chunk) <= size
        /\ k > 0 => chunk # << >>
    <3>1. CASE acc = << >>
      <4>1. chunk = pending
        BY <1>1, <3>1, ConcatEmptySeq
      <4> HIDE DEF chunk
      <4> QED
        BY <1>1, <1>2, <1>3, <3>1, <4>1
    <3>2. CASE pending = << >>
      <4>1. chunk = acc
        BY <1>1, <3>2, ConcatEmptySeq
      <4> HIDE DEF chunk
      <4> QED
        BY <1>1, <1>2, <1>3, <3>2, <4>1
    <3> QED
      BY <1>5, <3>1, <3>2
  <2> HIDE DEF chunk
  <2>2. Block(bytes, size, k, chunk, TRUE)
    BY <2>1 DEF Block, start
  <2> QED
    BY <1>5, <2>2 DEF chunk
<1> QED
  BY <1>4, <1>5

-----------------------------------------------------------------------------
(* The format.                                                             *)
Rest == SubSeq(header.blob, Lead + 1, Len(header.blob))
Results == OpenedChunks(key, Cut(Rest, SEALED_CHUNK_SIZE))
Plains == [i \in DOMAIN Results |-> Results[i].plain]
Entitled == HoldsKey /\ ~Altered

(* What is sealed so far is the beginning of what streamSeal makes, and    *)
(* the rechunker stands behind the blocks it has handed on.                *)
SealForm ==
  stage = "seal" =>
    /\ HoldsAt(Text0, CHUNK_SIZE, index, held.pending, held.acc, held.piece, source)
    /\ body = Built.lead \o Upto(ChunksOf(call), index)
BodyForm ==
  stage \in Sealed =>
    /\ body = Built.lead \o Stream(call)
    /\ stage = "sealed" => key = Built.key

(* The lookahead loses nothing of the blob.                                *)
FetchForm ==
  /\ stage \in {"seal", "sealed"} => "blob" \in DOMAIN header
  /\ stage \in Fetched \cup {"drained"} => List(header.blob)
  /\ stage = "fetched" => source = header.blob
  /\ stage \in {"lookahead", "kdf"} => held.acc \o source = header.blob
  /\ stage = "kdf" => Len(held.acc) >= MIN_PASSPHRASE_BLOB_LENGTH

(* What is opened so far is the beginning of what streamOpen opens, and a  *)
(* holder of the key works with the key that sealed.                       *)
OpenForm ==
  /\ stage = "open" =>
       /\ HoldsAt(Rest, SEALED_CHUNK_SIZE, index, held.pending, held.acc, held.piece, source)
       /\ held.ended => held.piece = << >> /\ source = << >>
       /\ \A i \in 1..index : ~Failed(Results[i])
       /\ opened = Upto(Plains, index)
       /\ Entitled => key = Built.key
  /\ stage = "drained" => BufferedOpen = [plain |-> opened]

EndForm ==
  /\ end = "returned" /\ outcome = "matched" => BufferedOpen = [plain |-> opened]
  /\ end = "threw" => outcome = "TAMPERED_CIPHERTEXT" /\ Failed(BufferedOpen)
  /\ end \in {"returned", "threw"} /\ Entitled /\ header.blob = body => outcome = "matched"

FormatInv == SealForm /\ BodyForm /\ FetchForm /\ OpenForm /\ EndForm

LEMMA Relist ==
  ASSUME NEW s, NEW S, s \in Seq(S)
  PROVE  List(s) /\ Len(s) \in Nat
<1>1. Len(s) \in Nat /\ s = [i \in 1..Len(s) |-> s[i]]
  BY LenProperties
<1> QED
  BY <1>1, IsList

LEMMA FromStart ==
  ASSUME NEW s, List(s)
  PROVE  SubSeq(s, 0 + 1, Len(s)) = s
<1>1. s \in Seq(Range(s)) /\ Len(s) \in Nat
  BY DEF List
<1>2. /\ SubSeq(s, 0 + 1, Len(s)) \in Seq(Range(s)) /\ Len(SubSeq(s, 0 + 1, Len(s))) = Len(s)
      /\ \A i \in 1..Len(s) : SubSeq(s, 0 + 1, Len(s))[i] = s[i]
  <2>1. /\ SubSeq(s, 1, Len(s)) \in Seq(Range(s)) /\ Len(SubSeq(s, 1, Len(s))) = Len(s) - 1 + 1
        /\ \A i \in 1..(Len(s) - 1 + 1) : SubSeq(s, 1, Len(s))[i] = s[1 + i - 1]
    BY <1>1, Part
  <2>2. 0 + 1 = 1 /\ Len(s) - 1 + 1 = Len(s) /\ \A i \in 1..Len(s) : 1 + i - 1 = i
    BY <1>1
  <2> QED
    BY <2>1, <2>2
<1> QED
  BY <1>1, <1>2, SeqEqual

(* An open that begins has everything before it.                           *)
LEMMA OpensAtStart ==
  ASSUME stage' = "open", List(Rest'), source' = Rest', held' = NothingHeld, index' = 0,
         opened' = << >>, Entitled' => key' = Built'.key
  PROVE  OpenForm'
<1>1. /\ held'.pending = << >> /\ held'.acc = << >> /\ held'.piece = << >>
      /\ held'.ended = FALSE
  BY DEF NothingHeld
<1>2. HoldsAt(Rest', SEALED_CHUNK_SIZE, 0, << >>, << >>, << >>, Rest')
  <2>1. SEALED_CHUNK_SIZE \in Nat \ {0}
    BY Sizes
  <2> QED
    BY <2>1, HoldsNothing
<1>3. Upto(Plains', 0) = << >>
  BY DEF Upto
<1> QED
  BY <1>1, <1>2, <1>3 DEF OpenForm

(* A call that ends without an answer, and a step within a call.           *)
LEMMA FormatEnds ==
  ASSUME stage' = "ended", end' \notin {"returned", "threw"}
  PROVE  FormatInv'
BY DEF FormatInv, SealForm, BodyForm, FetchForm, OpenForm, EndForm, Sealed, Fetched

LEMMA FormatEnded ==
  ASSUME stage' = "ended", EndForm'
  PROVE  FormatInv'
BY DEF FormatInv, SealForm, BodyForm, FetchForm, OpenForm, Sealed, Fetched

LEMMA Goes ==
  ASSUME StreamInv', stage' # "ended", SealForm', BodyForm', FetchForm', OpenForm'
  PROVE  FormatInv'
<1>1. end' = "none"
  BY DEF StreamInv, EndInv
<1> QED
  BY <1>1 DEF FormatInv, EndForm

LEMMA BodyKept ==
  ASSUME FormatInv, stage \in Sealed, stage' \in Sealed, stage' # "sealed", call' = call, body' = body
  PROVE  SealForm' /\ BodyForm'
BY DEF FormatInv, SealForm, BodyForm, Built, Sealed

LEMMA FormatStarts ==
  ASSUME StreamInv, FormatInv, StreamInv', sealStream
  PROVE  FormatInv'
<1>1. /\ stage = "start" /\ UNCHANGED << call, held, index, opened, aborted >>
      /\ held = NothingHeld /\ index = 0
      /\ \/ EndWith("aborted", outcome) \/ EndWith("rejected", outcome)
         \/ /\ stage' = "seal" /\ body' = Built.lead /\ source' = Text0 /\ ~Failed(Built)
            /\ header' = [built |-> Built.envelope, envelope |-> Built.envelope, blob |-> << >>]
  BY DEF sealStream, Continue, StreamInv, OpenInv, Built, Text0
<1>2. CASE EndWith("aborted", outcome) \/ EndWith("rejected", outcome)
  BY <1>2, FormatEnds DEF EndWith
<1>3. CASE /\ stage' = "seal" /\ body' = Built.lead /\ source' = Text0 /\ ~Failed(Built)
           /\ header' = [built |-> Built.envelope, envelope |-> Built.envelope, blob |-> << >>]
  <2>1. List(Text0) /\ CHUNK_SIZE \in Nat \ {0} /\ call \in StreamCalls
    BY Calls, Sizes DEF Text0
  <2>2. HoldsAt(Text0, CHUNK_SIZE, 0, << >>, << >>, << >>, Text0)
    BY <2>1, HoldsNothing
  <2>3. /\ held'.pending = << >> /\ held'.acc = << >> /\ held'.piece = << >> /\ index' = 0
        /\ Text0' = Text0 /\ Built' = Built
    BY <1>1 DEF NothingHeld, Text0, Built
  <2>4. Built.lead \o Upto(ChunksOf(call), 0) = Built.lead
    <3>1. Built.lead \in Seq(Range(Built.lead))
      BY <1>3, <2>1, LeadLen DEF Built, List
    <3>2. Upto(ChunksOf(call), 0) = << >>
      BY DEF Upto
    <3> QED
      BY <3>1, <3>2, ConcatEmptySeq
  <2>5. SealForm'
    BY <1>1, <1>3, <2>2, <2>3, <2>4 DEF SealForm
  <2>6. BodyForm' /\ FetchForm' /\ OpenForm'
    BY <1>3 DEF BodyForm, FetchForm, OpenForm, Sealed, Fetched
  <2> QED
    BY <1>3, <2>5, <2>6, Goes
<1> QED
  BY <1>1, <1>2, <1>3

LEMMA FormatStores ==
  ASSUME StreamInv, FormatInv, StreamInv', Store
  PROVE  FormatInv'
<1>1. /\ stage = "sealed" /\ stage' = "fetched" /\ UNCHANGED << body, call >>
      /\ List(body) /\ body # << >> /\ "blob" \in DOMAIN header
  BY DEF Store, Continue, StreamInv, BodyInv, Sealed, FormatInv, FetchForm
<1>2. source' = header'.blob /\ source' \in Seq(Range(body))
  <2>1. CASE \E blob \in Deliveries(body) :
               source' = blob /\ header' = [header EXCEPT !.blob = blob]
    BY <1>1, <2>1, DeliveriesOf
  <2>2. CASE \E envelope \in HeaderAttacks(header.built) :
               source' = body
               /\ header' = [header EXCEPT !.envelope = envelope, !.blob = body]
    BY <1>1, <2>2 DEF List
  <2> QED
    BY <2>1, <2>2 DEF Store
<1>3. List(source')
  BY <1>2, Relist
<1>4. SealForm' /\ BodyForm'
  BY <1>1, BodyKept DEF Sealed
<1>5. FetchForm' /\ OpenForm'
  BY <1>1, <1>2, <1>3 DEF FetchForm, OpenForm
<1> QED
  BY <1>1, <1>4, <1>5, Goes

LEMMA FormatUnwraps ==
  ASSUME StreamInv, FormatInv, StreamInv', unwrapStream
  PROVE  FormatInv'
<1> DEFINE trial == eciesSealedPoeTrialDecrypt(header.envelope, call.hashes, call.keys)
<1>1. /\ stage = "fetched" /\ call.path = "slots"
      /\ UNCHANGED << source, held, call, header, index, body, opened >>
      /\ IF aborted THEN EndWith("aborted", outcome)
         ELSE IF Failed(trial) THEN EndWith("rejected", outcome)
         ELSE IF trial.kind = "no_match" THEN EndWith("returned", "WRONG_RECIPIENT_KEY")
         ELSE /\ key' = slotsPayloadKey(trial.cek, Get(header.envelope, "nonce"))
              /\ Continue("open")
  BY DEF unwrapStream, OpenUnchanged
<1>2. /\ ~Failed(Built) /\ header.built = Built.envelope /\ call \in StreamCalls
      /\ held = NothingHeld /\ index = 0 /\ opened = << >>
      /\ source = header.blob /\ List(header.blob)
  BY <1>1 DEF StreamInv, HeadInv, FetchInv, OpenInv, Sealed, Fetched, FormatInv, FetchForm
<1>3. ASSUME Entitled, ~Failed(trial)
      PROVE  /\ trial.kind # "no_match"
             /\ slotsPayloadKey(trial.cek, Get(header.envelope, "nonce")) = Built.key
  <2>1. call.hashes = call.args.hashes /\ header.envelope = Built.envelope /\ Recipient(call)
    BY <1>1, <1>2, <1>3 DEF Entitled, Altered, HoldsKey, Recipient, SecretsOf, Built
  <2> QED
    BY <1>1, <1>2, <1>3, <2>1, RecipientMatches DEF Built
<1>4. Entitled' <=> Entitled
  BY <1>1 DEF Entitled, HoldsKey, Altered
<1> HIDE DEF trial
<1>5. CASE aborted \/ Failed(trial)
  BY <1>1, <1>5, FormatEnds DEF EndWith
<1>6. CASE ~aborted /\ ~Failed(trial) /\ trial.kind = "no_match"
  <2>1. stage' = "ended" /\ end' = "returned" /\ outcome' = "WRONG_RECIPIENT_KEY" /\ ~Entitled'
    BY <1>1, <1>3, <1>4, <1>6 DEF EndWith
  <2> QED
    BY <2>1, FormatEnded DEF EndForm
<1>7. CASE ~aborted /\ ~Failed(trial) /\ trial.kind # "no_match"
  <2>1. /\ key' = slotsPayloadKey(trial.cek, Get(header.envelope, "nonce")) /\ stage' = "open"
    BY <1>1, <1>7 DEF Continue
  <2>2. Rest' = header.blob /\ List(header.blob)
    <3>1. Lead' = 0 /\ header' = header
      BY <1>1 DEF Lead
    <3>2. SubSeq(header.blob, 0 + 1, Len(header.blob)) = header.blob
      BY <1>2, FromStart
    <3> QED
      BY <1>2, <3>1, <3>2 DEF Rest
  <2>3. OpenForm'
    BY <1>1, <1>2, <1>3, <1>4, <1>7, <2>1, <2>2, OpensAtStart DEF NothingHeld, Built
  <2>4. SealForm' /\ BodyForm'
    BY <1>1, <2>1, BodyKept DEF Sealed
  <2>5. FetchForm'
    BY <1>1, <1>2, <2>1 DEF FetchForm
  <2> QED
    BY <2>1, <2>3, <2>4, <2>5, Goes
<1> QED
  BY <1>5, <1>6, <1>7

(* A sequence cut in two.                                                  *)
Halves(a, n, front, back) == front = SubSeq(a, 1, n) /\ back = SubSeq(a, n + 1, Len(a))

LEMMA Halved ==
  ASSUME NEW S, NEW a \in Seq(S), NEW n \in Nat, n <= Len(a),
         NEW front, NEW back, Halves(a, n, front, back)
  PROVE  /\ front \in Seq(S) /\ back \in Seq(S) /\ Len(front) = n
         /\ a = front \o back
<1> DEFINE f == SubSeq(a, 1, n)  b == SubSeq(a, n + 1, Len(a))
<1>1. Len(a) \in Nat
  OBVIOUS
<1>2. f \in Seq(S) /\ b \in Seq(S)
  BY <1>1, PartIn
<1>3. Len(f) = n
  <2>1. Len(f) = n - 1 + 1
    BY <1>1, Part
  <2> QED
    BY <2>1
<1>4. a = f \o b
  <2>1. SubSeq(a, 1, n) \o SubSeq(a, n + 1, Len(a)) = SubSeq(a, 1, Len(a))
    <3>1. 1 \in 1..Len(a) + 1 /\ n \in (1 - 1)..Len(a) /\ Len(a) \in n..Len(a)
      BY <1>1
    <3> QED
      BY <3>1, ConcatAdjacentSubSeq
  <2>2. SubSeq(a, 1, Len(a)) = a
    <3>1. List(a)
      BY Relist
    <3>2. 0 + 1 = 1
      OBVIOUS
    <3> QED
      BY <3>1, <3>2, FromStart
  <2> QED
    BY <2>1, <2>2
<1> HIDE DEF f, b
<1>5. front = f /\ back = b
  BY DEF Halves, f, b
<1> QED
  BY <1>2, <1>3, <1>4, <1>5

LEMMA SameFront ==
  ASSUME NEW S, NEW a \in Seq(S), NEW x \in Seq(S), NEW T, NEW b \in Seq(T), NEW y \in Seq(T),
         a \o x = b \o y, Len(a) = Len(b)
  PROVE  a = b
<1>1. \A i \in 1..Len(a) : (a \o x)[i] = a[i]
  BY ConcatProperties
<1>2. \A i \in 1..Len(b) : (b \o y)[i] = b[i]
  BY ConcatProperties
<1>3. a = [i \in 1..Len(a) |-> a[i]] /\ b = [i \in 1..Len(b) |-> b[i]]
  BY LenProperties
<1> QED
  BY <1>1, <1>2, <1>3

LEMMA FormatPassphrase ==
  ASSUME StreamInv, FormatInv, StreamInv', passphraseOpenStream
  PROVE  FormatInv'
<1>1. /\ stage = "fetched" /\ UNCHANGED << key, source, held, call, header, index, body, opened >>
      /\ \/ EndWith("aborted", outcome) \/ EndWith("rejected", outcome) \/ Continue("lookahead")
  BY DEF passphraseOpenStream, OpenUnchanged
<1>2. held = NothingHeld /\ source = header.blob /\ List(header.blob)
  BY <1>1 DEF StreamInv, FetchInv, Fetched, FormatInv, FetchForm
<1>3. CASE EndWith("aborted", outcome) \/ EndWith("rejected", outcome)
  BY <1>3, FormatEnds DEF EndWith
<1>4. CASE Continue("lookahead")
  <2>1. stage' = "lookahead"
    BY <1>4 DEF Continue
  <2>2. << >> \o header.blob = header.blob
    BY <1>2, ConcatEmptySeq DEF List
  <2>3. FetchForm' /\ OpenForm'
    BY <1>1, <1>2, <2>1, <2>2 DEF FetchForm, OpenForm, NothingHeld
  <2>4. SealForm' /\ BodyForm'
    BY <1>1, <2>1, BodyKept DEF Sealed
  <2> QED
    BY <2>1, <2>3, <2>4, Goes
<1> QED
  BY <1>1, <1>3, <1>4

(* What a sealed body is.                                                  *)
LEMMA BodyIs ==
  ASSUME StreamInv, FormatInv, stage \in Sealed
  PROVE  /\ body = Built.lead \o Stream(call) /\ List(Built.lead) /\ List(Stream(call))
         /\ Len(Built.lead) = Lead /\ Lead \in Nat /\ Len(Stream(call)) \in Nat
         /\ Len(Stream(call)) >= TAG_SIZE /\ Len(body) = Lead + Len(Stream(call))
         /\ SubSeq(body, Lead + 1, Len(body)) = Stream(call)
<1>1. ~Failed(Built) /\ call \in StreamCalls /\ body = Built.lead \o Stream(call)
  BY DEF StreamInv, HeadInv, FormatInv, BodyForm
<1>2. /\ List(Stream(call)) /\ Len(Stream(call)) >= TAG_SIZE /\ Len(Stream(call)) \in Nat
  BY Calls, StreamIs DEF List
<1>3. List(Built.lead) /\ Len(Built.lead) = Lead /\ Lead \in Nat
  BY <1>1, LeadLen, Sizes DEF Built, Lead
<1>4. Len(body) = Lead + Len(Stream(call))
  BY <1>1, <1>2, <1>3, Joins
<1>5. SubSeq(body, Lead + 1, Len(body)) = Stream(call)
  BY <1>1, <1>2, <1>3, Behind
<1> QED
  BY <1>1, <1>2, <1>3, <1>4, <1>5

LEMMA FormatLooksAhead ==
  ASSUME StreamInv, FormatInv, StreamInv', Lookahead
  PROVE  FormatInv'
<1>1. /\ stage = "lookahead" /\ UNCHANGED << key, call, header, index, body, opened >>
      /\ held.acc \o source = header.blob /\ List(header.blob) /\ HeldForm
      /\ held.acc \in Seq(Range(body)) /\ source \in Seq(Range(body)) /\ call.path = "passphrase"
  BY DEF Lookahead, OpenUnchanged, FormatInv, FetchForm, StreamInv, FetchInv, OpenInv, Fetched
<1>2. CASE aborted
  <2>1. EndWith("aborted", outcome)
    BY <1>2 DEF Lookahead
  <2> QED
    BY <2>1, FormatEnds DEF EndWith
<1>3. CASE ~aborted /\ Len(held.acc) >= MIN_PASSPHRASE_BLOB_LENGTH
  <2>1. stage' = "kdf" /\ UNCHANGED << source, held >>
    BY <1>3 DEF Lookahead, Continue
  <2>2. FetchForm' /\ OpenForm'
    BY <1>1, <1>3, <2>1 DEF FetchForm, OpenForm
  <2>3. SealForm' /\ BodyForm'
    BY <1>1, <2>1, BodyKept DEF Sealed
  <2> QED
    BY <2>1, <2>2, <2>3, Goes
<1>4. CASE ~aborted /\ ~ (Len(held.acc) >= MIN_PASSPHRASE_BLOB_LENGTH) /\ source = << >>
  <2>1. stage' = "ended" /\ end' = "returned" /\ outcome' = "TAMPERED_CIPHERTEXT"
    BY <1>4 DEF Lookahead, EndWith
  <2>2. header.blob # body
    <3>1. header.blob = held.acc
      BY <1>1, <1>4, ConcatEmptySeq
    <3>2. Len(body) = Lead + Len(Stream(call)) /\ Len(Stream(call)) >= TAG_SIZE
          /\ Len(Stream(call)) \in Nat
      BY <1>1, BodyIs DEF Sealed
    <3>3. Lead = COMMITMENT_LENGTH
      BY <1>1 DEF Lead
    <3>4. Len(body) >= MIN_PASSPHRASE_BLOB_LENGTH
      BY <3>2, <3>3, Sizes DEF MIN_PASSPHRASE_BLOB_LENGTH
    <3> QED
      BY <1>4, <3>1, <3>4
  <2> QED
    BY <1>1, <2>1, <2>2, FormatEnded DEF EndForm
<1>5. CASE ~aborted /\ ~ (Len(held.acc) >= MIN_PASSPHRASE_BLOB_LENGTH) /\ source # << >>
  <2>1. PICK n \in PieceSizes :
          /\ n <= Len(source)
          /\ held' = [held EXCEPT !.acc = @ \o SubSeq(source, 1, n)]
          /\ source' = SubSeq(source, n + 1, Len(source)) /\ UNCHANGED stage
    BY <1>5 DEF Lookahead
  <2>2. n \in Nat
    BY Sizes
  <2>3. held'.acc = held.acc \o SubSeq(source, 1, n)
    BY <1>1, <2>1 DEF HeldForm
  <2>4. held'.acc \o source' = header.blob
    <3> DEFINE a == SubSeq(source, 1, n)  b == SubSeq(source, n + 1, Len(source))
    <3>1. a \in Seq(Range(body)) /\ b \in Seq(Range(body)) /\ source = a \o b
      <4>1. Halves(source, n, a, b)
        BY DEF Halves
      <4> DEFINE S == Range(body)
      <4>2. source \in Seq(S)
        BY <1>1
      <4> HIDE DEF a, b, S
      <4>3. a \in Seq(S) /\ b \in Seq(S) /\ source = a \o b
        BY <2>1, <2>2, <4>1, <4>2, Halved
      <4> QED
        BY <4>3 DEF S
    <3>2. held'.acc = held.acc \o a /\ source' = b
      BY <2>1, <2>3
    <3> HIDE DEF a, b
    <3>3. (held.acc \o a) \o b = held.acc \o (a \o b)
      <4> DEFINE S == Range(body)  h == held.acc
      <4>1. h \in Seq(S) /\ a \in Seq(S) /\ b \in Seq(S)
        BY <1>1, <3>1
      <4> HIDE DEF S, h
      <4>2. (h \o a) \o b = h \o (a \o b)
        BY <4>1, ConcatAssociative, SMTT(20)
      <4> QED
        BY <4>2 DEF h
    <3> QED
      BY <1>1, <3>1, <3>2, <3>3
  <2>5. FetchForm' /\ OpenForm'
    BY <1>1, <2>1, <2>4 DEF FetchForm, OpenForm, Fetched
  <2>6. SealForm' /\ BodyForm'
    BY <1>1, <2>1, BodyKept DEF Sealed
  <2> QED
    BY <1>1, <2>1, <2>5, <2>6, Goes
<1> QED
  BY <1>2, <1>3, <1>4, <1>5

LEMMA FormatVerifies ==
  ASSUME StreamInv, FormatInv, StreamInv', VerifyCommitment
  PROVE  FormatInv'
<1> DEFINE cek == argon2Cek(normalizePassphrase(call.passphrase), SaltOf(header.envelope),
                            ParamsOf(header.envelope))
           tag == commitmentFor(header.envelope, cek, itemHashesHash(call.hashes))
<1>1. /\ stage = "kdf" /\ held' = NothingHeld
      /\ UNCHANGED << call, header, index, body, opened >>
      /\ IF Failed(cek) THEN LeavingOpen("rejected", outcome)
         ELSE IF Committed(cek, tag)
         THEN /\ key' = passphrasePayloadKey(cek, Get(header.envelope, "nonce"))
              /\ source' = SubSeq(held.acc, COMMITMENT_LENGTH + 1, Len(held.acc)) \o source
              /\ Continue("open")
         ELSE EndWith("returned", "TAMPERED_CIPHERTEXT")
  BY DEF VerifyCommitment, OpenUnchanged
<1>2. /\ ~Failed(Built) /\ header.built = Built.envelope /\ call \in StreamCalls
      /\ call.path = "passphrase" /\ index = 0 /\ opened = << >>
      /\ held.acc \in Seq(Range(body)) /\ source \in Seq(Range(body))
      /\ held.acc \o source = header.blob /\ List(header.blob)
      /\ Len(held.acc) >= MIN_PASSPHRASE_BLOB_LENGTH /\ Lead = COMMITMENT_LENGTH
  BY <1>1 DEF StreamInv, HeadInv, FetchInv, OpenInv, Sealed, Fetched, FormatInv, FetchForm, Lead
<1>3. ASSUME Entitled
      PROVE  /\ Built.lead = Commitment(tag)
             /\ passphrasePayloadKey(cek, Get(header.envelope, "nonce")) = Built.key
  <2>1. call.hashes = call.args.hashes /\ header.envelope = Built.envelope
        /\ normalizePassphrase(call.passphrase) = normalizePassphrase(call.args.passphrase)
    BY <1>2, <1>3 DEF Entitled, Altered, HoldsKey
  <2> QED
    BY <1>2, <2>1, PassphraseMatches DEF Built
<1>4. Entitled' <=> Entitled
  BY <1>1 DEF Entitled, HoldsKey, Altered
<1> HIDE DEF cek, tag
<1> DEFINE front == SubSeq(held.acc, 1, COMMITMENT_LENGTH)
           back == SubSeq(held.acc, COMMITMENT_LENGTH + 1, Len(held.acc))
<1>5. /\ front \in Seq(Range(body)) /\ back \in Seq(Range(body)) /\ Len(front) = Lead
      /\ header.blob = front \o (back \o source) /\ back \o source \in Seq(Range(body))
  <2>1. COMMITMENT_LENGTH <= Len(held.acc) /\ COMMITMENT_LENGTH \in Nat
    BY <1>2, Sizes DEF MIN_PASSPHRASE_BLOB_LENGTH
  <2>2. front \in Seq(Range(body)) /\ back \in Seq(Range(body)) /\ Len(front) = COMMITMENT_LENGTH
        /\ held.acc \o source = front \o (back \o source)
    <3> DEFINE S == Range(body)  h == held.acc
    <3>1. /\ h \in Seq(S) /\ source \in Seq(S) /\ COMMITMENT_LENGTH <= Len(h)
          /\ Halves(h, COMMITMENT_LENGTH, front, back)
      BY <1>2, <2>1 DEF Halves
    <3> HIDE DEF S, h, front, back
    <3>2. /\ front \in Seq(S) /\ back \in Seq(S) /\ Len(front) = COMMITMENT_LENGTH
          /\ h = front \o back
      BY <2>1, <3>1, Halved
    <3>3. (front \o back) \o source = front \o (back \o source)
      BY <3>1, <3>2, ConcatAssociative, SMTT(20)
    <3>4. h \o source = front \o (back \o source)
      BY <3>2, <3>3
    <3> QED
      BY <3>2, <3>4 DEF S, h
  <2> HIDE DEF front, back
  <2>3. back \o source \in Seq(Range(body))
    BY <1>2, <2>2, ConcatProperties
  <2> QED
    BY <1>2, <2>2, <2>3
<1>6. CASE Failed(cek)
  BY <1>1, <1>6, FormatEnds DEF LeavingOpen
<1>7. CASE ~Failed(cek) /\ ~Committed(cek, tag)
  <2>1. stage' = "ended" /\ end' = "returned" /\ outcome' = "TAMPERED_CIPHERTEXT"
    BY <1>1, <1>7 DEF EndWith
  <2>2. ~ (Entitled /\ header.blob = body)
    <3>1. SUFFICES ASSUME Entitled, header.blob = body PROVE FALSE
      OBVIOUS
    <3>2. /\ body = Built.lead \o Stream(call) /\ Built.lead \in Seq(Range(Built.lead))
          /\ Stream(call) \in Seq(Range(Stream(call))) /\ Len(Built.lead) = Lead
      BY <1>1, BodyIs DEF Sealed, List
    <3> HIDE DEF front, back
    <3>3. front = Built.lead
      <4> DEFINE T == Range(Built.lead) \cup Range(Stream(call))
      <4>1. Built.lead \in Seq(T) /\ Stream(call) \in Seq(T)
        BY <3>2, SeqMonotonic
      <4> DEFINE S == Range(body)  x == back \o source
      <4>2. /\ front \in Seq(S) /\ x \in Seq(S) /\ front \o x = Built.lead \o Stream(call)
            /\ Len(front) = Len(Built.lead)
        BY <1>5, <3>1, <3>2
      <4> HIDE DEF T, S, x
      <4> QED
        BY <4>1, <4>2, SameFront
    <3> QED
      BY <1>3, <1>7, <3>1, <3>3 DEF Committed, front
  <2> QED
    BY <1>1, <1>4, <2>1, <2>2, FormatEnded DEF EndForm
<1>8. CASE ~Failed(cek) /\ Committed(cek, tag)
  <2>1. /\ key' = passphrasePayloadKey(cek, Get(header.envelope, "nonce")) /\ stage' = "open"
        /\ source' = back \o source
    BY <1>1, <1>8 DEF Continue
  <2> HIDE DEF front, back
  <2>2. Rest' = back \o source /\ List(back \o source)
    <3>1. Rest' = SubSeq(header.blob, Lead + 1, Len(header.blob))
      BY <1>1 DEF Rest, Lead
    <3>2. List(front) /\ List(back \o source)
      BY <1>5, Relist
    <3> QED
      BY <1>5, <3>1, <3>2, Behind
  <2>3. OpenForm'
    BY <1>1, <1>2, <1>3, <1>4, <2>1, <2>2, OpensAtStart DEF Built
  <2>4. SealForm' /\ BodyForm'
    BY <1>1, <2>1, BodyKept DEF Sealed
  <2>5. FetchForm'
    BY <1>1, <1>2, <2>1 DEF FetchForm
  <2> QED
    BY <2>1, <2>3, <2>4, <2>5, Goes
<1> QED
  BY <1>6, <1>7, <1>8

-----------------------------------------------------------------------------
(* The drive.                                                              *)
LEMMA Same ==
  ASSUME UNCHANGED << call, header, key >>
  PROVE  /\ Rest' = Rest /\ Results' = Results /\ Plains' = Plains /\ Built' = Built
         /\ (Entitled' <=> Entitled) /\ BufferedOpen' = BufferedOpen /\ Text0' = Text0
<1>1. Lead' = Lead /\ Built' = Built /\ Text0' = Text0
  BY DEF Lead, Built, Text0
<1>2. Rest' = Rest
  BY <1>1 DEF Rest
<1>3. Results' = Results
  BY <1>2 DEF Results
<1>4. Plains' = Plains
  BY <1>3 DEF Plains
<1>5. BufferedOpen' = BufferedOpen
  BY <1>1 DEF BufferedOpen
<1>6. Entitled' <=> Entitled
  BY DEF Entitled, HoldsKey, Altered
<1> QED
  BY <1>1, <1>2, <1>3, <1>4, <1>5, <1>6

LEMMA RestIs ==
  ASSUME StreamInv, FormatInv, stage = "open"
  PROVE  /\ List(Rest) /\ BufferedOpen = Joined(Results)
         /\ header.blob = body => Rest = Stream(call)
<1>1. List(header.blob)
  BY DEF FormatInv, FetchForm, Fetched
<1>2. Lead + 1 \in Nat \ {0}
  BY BodyIs DEF Sealed
<1>3. Rest \in Seq(Range(header.blob))
  BY <1>1, <1>2, PartIn DEF Rest, List
<1>4. List(Rest)
  BY <1>3, Relist
<1>5. header.blob = body => Rest = Stream(call)
  BY BodyIs DEF Rest, Sealed
<1>6. BufferedOpen = Joined(Results)
  BY DEF BufferedOpen, Results, Rest, streamOpen
<1> QED
  BY <1>4, <1>5, <1>6

(* A block that does not open is a chunk that streamOpen does not open,    *)
(* and no chunk that was sealed.                                           *)
LEMMA BlockFails ==
  ASSUME StreamInv, FormatInv, stage = "open", NEW k \in Nat, NEW chunk, NEW final \in BOOLEAN,
         Block(Rest, SEALED_CHUNK_SIZE, k, chunk, final),
         Failed(openChunk(key, k, chunk, final))
  PROVE  Failed(BufferedOpen) /\ ~ (Entitled /\ header.blob = body)
<1> DEFINE chunks == Cut(Rest, SEALED_CHUNK_SIZE)
<1>1. k + 1 \in DOMAIN chunks /\ chunks[k + 1] = chunk /\ (final <=> k + 1 = Len(chunks))
  BY RestIs, CutIs, Sizes
<1> HIDE DEF chunks
<1>2. k + 1 \in DOMAIN Results /\ Results[k + 1] = openChunk(key, k, chunk, final)
  <2>1. Results = [i \in DOMAIN chunks |-> openChunk(key, i - 1, chunks[i], i = Len(chunks))]
    BY DEF Results, OpenedChunks, chunks
  <2>2. (k + 1) - 1 = k /\ (k + 1 = Len(chunks)) = final
    BY <1>1
  <2> QED
    BY <1>1, <2>1, <2>2
<1>3. Failed(BufferedOpen)
  BY <1>2, RestIs DEF Joined, Failed, Failure
<1>4. ASSUME Entitled, header.blob = body PROVE FALSE
  <2>1. Results = OpenedChunks(SealHeader(call).key, Cut(Stream(call), SEALED_CHUNK_SIZE))
    BY <1>4, RestIs DEF Results, FormatInv, OpenForm, Built
  <2>2. List(call.plaintext)
    BY Calls
  <2> QED
    BY <1>2, <2>1, <2>2, StreamOpensWhole
<1> QED
  BY <1>3, <1>4

LEMMA BlockOpens ==
  ASSUME StreamInv, FormatInv, stage = "open", NEW chunk \in Seq(Range(body)), NEW final \in BOOLEAN,
         Block(Rest, SEALED_CHUNK_SIZE, index, chunk, final),
         NEW result, result = openChunk(key, index, chunk, final), ~Failed(result)
  PROVE  /\ opened \o result.plain = Upto(Plains, index + 1)
         /\ \A i \in 1..(index + 1) : ~Failed(Results[i])
         /\ final => BufferedOpen = [plain |-> opened \o result.plain]
<1> DEFINE chunks == Cut(Rest, SEALED_CHUNK_SIZE)
<1>0. /\ index \in Nat /\ opened = Upto(Plains, index) /\ \A i \in 1..index : ~Failed(Results[i])
      /\ ~Failed(SealHeader(call)) /\ \A i \in DOMAIN body : Genuine(call, body[i])
  BY DEF StreamInv, HeadInv, BodyInv, OpenInv, Sealed, Built, FormatInv, OpenForm
<1>1. /\ index + 1 \in DOMAIN chunks /\ chunks[index + 1] = chunk
      /\ final <=> index + 1 = Len(chunks)
      /\ DOMAIN chunks = 1..Len(chunks) /\ Len(chunks) \in Nat \ {0}
  BY <1>0, RestIs, CutIs, Sizes
<1> HIDE DEF chunks
<1>2. /\ Results = [i \in 1..Len(chunks) |-> openChunk(key, i - 1, chunks[i], i = Len(chunks))]
      /\ DOMAIN Results = 1..Len(chunks)
  BY <1>1 DEF Results, OpenedChunks, chunks
<1>3. Results[index + 1] = result
  <2>1. index \in Nat
    BY <1>0
  <2>2. (index + 1) - 1 = index
    BY <2>1
  <2>3. (index + 1 = Len(chunks)) = final
    BY <1>1
  <2> QED
    BY <1>1, <1>2, <2>2, <2>3
<1>4. Plains = [i \in 1..Len(chunks) |-> Results[i].plain] /\ Len(Plains) = Len(chunks)
  <2>1. Plains = [i \in 1..Len(chunks) |-> Results[i].plain]
    BY <1>2 DEF Plains
  <2> DEFINE l == Len(chunks)
  <2>2. l \in Nat
    BY <1>1
  <2> HIDE DEF l
  <2>3. Plains = [i \in 1..l |-> Plains[i]]
    BY <2>1 DEF l
  <2>4. Len(Plains) = l
    BY <2>2, <2>3, IsList
  <2> QED
    BY <2>1, <2>4 DEF l
<1>5. Plains[index + 1] = result.plain
  BY <1>1, <1>3, <1>4
<1>6. \A i \in 1..(index + 1) : ~Failed(Results[i])
  BY <1>0, <1>3
<1>7. result.plain \in Seq(Range(call.plaintext))
  <2>1. Cuts(call, index, final, result.plain)
    BY <1>0, OpensGenuine
  <2> QED
    BY <2>1 DEF Cuts, Slice
<1>8. opened \o result.plain = Upto(Plains, index + 1)
  <2>0. index \in Nat /\ opened = Upto(Plains, index)
    BY <1>0
  <2>1. index < Len(Plains) /\ Len(Plains) \in Nat
    <3> DEFINE l == Len(chunks)
    <3>1. index + 1 \in 1..l /\ l \in Nat /\ Len(Plains) = l
      BY <1>1, <1>4
    <3> HIDE DEF l
    <3> QED
      BY <2>0, <3>1
  <2>2. /\ Upto(Plains, 0) = << >>
        /\ Upto(Plains, index + 1) = IF index = 0 THEN Plains[1]
                                     ELSE Upto(Plains, index) \o Plains[index + 1]
    BY <1>0, <2>1, UptoNext
  <2>3. << >> \o result.plain = result.plain
    BY <1>7, ConcatEmptySeq
  <2>4. CASE index = 0
    <3>1. opened = << >> /\ Plains[1] = result.plain
      BY <1>5, <2>0, <2>2, <2>4
    <3> QED
      BY <2>2, <2>3, <2>4, <3>1
  <2>5. CASE index # 0
    BY <1>5, <2>0, <2>2, <2>5
  <2> QED
    BY <2>4, <2>5
<1>9. ASSUME final PROVE BufferedOpen = [plain |-> opened \o result.plain]
  <2>1. index + 1 = Len(Plains) /\ Len(Plains) \in Nat \ {0}
    BY <1>1, <1>4, <1>9
  <2>2. FlattenSeq(Plains) = opened \o result.plain
    BY <1>8, <2>1, UptoAll
  <2>3. \A i \in DOMAIN Results : ~Failed(Results[i])
    BY <1>2, <1>4, <1>6, <2>1
  <2>4. Joined(Results) = [plain |-> FlattenSeq(Plains)]
    BY <2>3 DEF Joined, Plains
  <2> QED
    BY <2>2, <2>4, RestIs
<1> QED
  BY <1>6, <1>8, <1>9

(* A chunk that is handed on to be sealed always is, and continues what    *)
(* streamSeal makes.                                                       *)
LEMMA FormatSeals ==
  ASSUME StreamInv, FormatInv, stage = "seal", NEW chunk, NEW final \in BOOLEAN, NEW next,
         Block(Text0, CHUNK_SIZE, index, chunk, final), Emit(chunk, final, next)
  PROVE  /\ index' = index + 1 /\ (Continue(next) \/ EndWith("stopped", outcome))
         /\ body' = Built.lead \o Upto(ChunksOf(call), index + 1)
         /\ final => body' = Built.lead \o Stream(call)
<1>1. /\ index \in Nat /\ key = SealHeader(call).key /\ ~Failed(SealHeader(call))
      /\ call \in StreamCalls /\ body = Built.lead \o Upto(ChunksOf(call), index)
  BY DEF StreamInv, HeadInv, CutInv, FormatInv, SealForm, Built
<1>2. List(Text0) /\ Text0 = call.plaintext
  BY Calls
<1> DEFINE count == Len(Chunks(call))  parts == ChunksOf(call)
<1>3. /\ index + 1 \in DOMAIN Chunks(call) /\ Chunks(call)[index + 1] = chunk
      /\ final <=> index + 1 = count
  BY <1>1, <1>2, CutIs, Sizes DEF Chunks
<1>4. /\ count \in Nat \ {0} /\ DOMAIN Chunks(call) = 1..count /\ Len(parts) = count
      /\ \A i \in 1..count : List(parts[i])
  BY <1>2, ChunksAre
<1> HIDE DEF count
<1>5. index + 1 \in 1..count
  BY <1>3, <1>4
<1> DEFINE result == sealChunk(key, index, chunk, final)
<1>6. ~Failed(result) /\ result.sealed = parts[index + 1]
  BY <1>1, <1>2, <1>3, <1>5, SealsChunk DEF count
<1>7. EmitTo(result, next)
  BY DEF Emit
<1> HIDE DEF result, parts
<1>8. /\ index' = index + 1 /\ (Continue(next) \/ EndWith("stopped", outcome))
      /\ body' = body \o parts[index + 1]
  BY <1>6, <1>7 DEF EmitTo
<1>9. body' = Built.lead \o Upto(parts, index + 1)
  <2>1. index < Len(parts) /\ Len(parts) \in Nat
    BY <1>1, <1>4, <1>5
  <2>2. /\ Upto(parts, 0) = << >>
        /\ Upto(parts, index + 1) = IF index = 0 THEN parts[1] ELSE Upto(parts, index) \o parts[index + 1]
    BY <1>1, <2>1, UptoNext
  <2>3. List(Built.lead) /\ List(parts[index + 1])
    BY <1>1, <1>4, <1>5, LeadLen DEF Built
  <2>4. CASE index = 0
    <3>1. Built.lead \o << >> = Built.lead
      BY <2>3, ConcatEmptySeq DEF List
    <3>2. body = Built.lead
      <4>1. body = Built.lead \o Upto(parts, index) /\ Upto(parts, index) = << >>
        BY <1>1, <2>2, <2>4 DEF parts
      <4> QED
        BY <3>1, <4>1
    <3>3. Upto(parts, index + 1) = parts[index + 1]
      <4>1. index + 1 = 1
        BY <2>4
      <4> QED
        BY <2>2, <2>4, <4>1
    <3> QED
      BY <1>8, <3>2, <3>3
  <2>5. CASE index # 0
    <3>1. List(Upto(parts, index))
      <4>1. index \in 1..count
        BY <1>1, <1>4, <1>5, <2>5
      <4> QED
        BY <1>2, <4>1, LaysChunks DEF Laid, count, parts
    <3> DEFINE a == Built.lead  u == Upto(parts, index)  p == parts[index + 1]
               S == Range(a) \cup Range(u) \cup Range(p)
    <3>2. a \in Seq(S) /\ u \in Seq(S) /\ p \in Seq(S)
      <4>1. a \in Seq(Range(a)) /\ u \in Seq(Range(u)) /\ p \in Seq(Range(p))
        BY <2>3, <3>1 DEF List
      <4> HIDE DEF a, u, p
      <4> QED
        BY <4>1, SeqMonotonic
    <3>3. body' = (a \o u) \o p /\ Upto(parts, index + 1) = u \o p
      BY <1>1, <1>8, <2>2, <2>5 DEF parts
    <3> HIDE DEF a, u, p, S
    <3>4. (a \o u) \o p = a \o (u \o p)
      BY <3>2, ConcatAssociative, SMTT(20)
    <3> QED
      BY <3>3, <3>4 DEF a
  <2> QED
    BY <2>4, <2>5
<1>10. final => body' = Built.lead \o Stream(call)
  <2>1. Stream(call) = Upto(parts, count)
    BY <1>2, StreamIs DEF parts, count
  <2> QED
    BY <1>3, <1>9, <2>1
<1> QED
  BY <1>8, <1>9, <1>10 DEF parts

LEMMA FormatOpens ==
  ASSUME StreamInv, FormatInv, stage = "open", NEW chunk \in Seq(Range(body)), NEW final \in BOOLEAN,
         NEW next, Block(Rest, SEALED_CHUNK_SIZE, index, chunk, final), Emit(chunk, final, next)
  PROVE  \/ /\ EndWith("threw", "TAMPERED_CIPHERTEXT") /\ body' = body
            /\ Failed(BufferedOpen) /\ ~ (Entitled /\ header.blob = body)
         \/ /\ index' = index + 1 /\ body' = body /\ opened' = Upto(Plains, index + 1)
            /\ \A i \in 1..(index + 1) : ~Failed(Results[i])
            /\ final => BufferedOpen = [plain |-> opened']
            /\ Continue(next) \/ EndWith("stopped", outcome)
<1> DEFINE result == openChunk(key, index, chunk, final)
<1>1. index \in Nat
  BY DEF StreamInv, OpenInv
<1>2. EmitTo(result, next)
  BY DEF Emit
<1>3. Failed(result) => Failed(BufferedOpen) /\ ~ (Entitled /\ header.blob = body)
  BY <1>1, BlockFails
<1>4. ~Failed(result) =>
        /\ opened \o result.plain = Upto(Plains, index + 1)
        /\ \A i \in 1..(index + 1) : ~Failed(Results[i])
        /\ final => BufferedOpen = [plain |-> opened \o result.plain]
  BY BlockOpens
<1> HIDE DEF result
<1>5. CASE Failed(result)
  <2>1. EndWith("threw", "TAMPERED_CIPHERTEXT") /\ body' = body
    BY <1>2, <1>5 DEF EmitTo
  <2> QED
    BY <1>3, <1>5, <2>1
<1>6. CASE ~Failed(result)
  <2>1. /\ index' = index + 1 /\ opened' = opened \o result.plain /\ body' = body
        /\ Continue(next) \/ EndWith("stopped", outcome)
    BY <1>2, <1>6 DEF EmitTo
  <2> QED
    BY <1>4, <1>6, <2>1
<1> QED
  BY <1>5, <1>6

(* What carries a call on within sealing, or within opening.               *)
LEMMA SealGoesOn ==
  ASSUME FormatInv, StreamInv', stage = "seal", stage' = "seal", UNCHANGED << call, header >>,
         HoldsAt(Text0, CHUNK_SIZE, index', held'.pending, held'.acc, held'.piece, source'),
         body' = Built.lead \o Upto(ChunksOf(call), index')
  PROVE  FormatInv'
<1>1. SealForm'
  BY DEF SealForm, Built, Text0
<1>2. BodyForm' /\ FetchForm' /\ OpenForm'
  BY DEF BodyForm, FetchForm, OpenForm, FormatInv, Sealed, Fetched
<1> QED
  BY <1>1, <1>2, Goes

LEMMA OpenGoesOn ==
  ASSUME FormatInv, StreamInv', stage = "open", stage' = "open", UNCHANGED << call, header, key >>,
         body' = body,
         HoldsAt(Rest, SEALED_CHUNK_SIZE, index', held'.pending, held'.acc, held'.piece, source'),
         held'.ended => held'.piece = << >> /\ source' = << >>,
         \A i \in 1..index' : ~Failed(Results[i]), opened' = Upto(Plains, index')
  PROVE  FormatInv'
<1>1. OpenForm'
  BY Same DEF OpenForm, FormatInv
<1>2. SealForm' /\ BodyForm'
  BY BodyKept DEF Sealed
<1>3. FetchForm'
  BY DEF FetchForm, FormatInv, Fetched
<1> QED
  BY <1>1, <1>2, <1>3, Goes

(* What the rechunker has, in each direction.                              *)
LEMMA SealHolds ==
  ASSUME StreamInv, FormatInv, stage = "seal"
  PROVE  /\ HoldsAt(Text0, CHUNK_SIZE, index, held.pending, held.acc, held.piece, source)
         /\ body = Built.lead \o Upto(ChunksOf(call), index)
         /\ HeldForm /\ index \in Nat /\ List(Text0) /\ CHUNK_SIZE \in Nat \ {0}
         /\ held.ended => held.piece = << >> /\ source = << >>
BY Calls, Sizes DEF StreamInv, CutInv, FormatInv, SealForm

LEMMA OpenHolds ==
  ASSUME StreamInv, FormatInv, stage = "open"
  PROVE  /\ HoldsAt(Rest, SEALED_CHUNK_SIZE, index, held.pending, held.acc, held.piece, source)
         /\ HeldForm /\ index \in Nat /\ List(Rest) /\ SEALED_CHUNK_SIZE \in Nat \ {0}
         /\ held.ended => held.piece = << >> /\ source = << >>
         /\ \A i \in 1..index : ~Failed(Results[i])
         /\ opened = Upto(Plains, index)
         /\ {held.pending, held.acc, held.piece, source} \subseteq Seq(Range(body))
BY RestIs, Sizes DEF StreamInv, FetchInv, OpenInv, Fetched, FormatInv, OpenForm

LEMMA FormatReads ==
  ASSUME StreamInv, FormatInv, StreamInv', ReadPiece
  PROVE  FormatInv'
<1>1. /\ stage \in {"seal", "open"} /\ held.piece = << >> /\ ~held.ended
      /\ UNCHANGED << index, body, opened, call, header, key, aborted >>
  BY DEF ReadPiece, Driving, DriveUnchanged
<1>2. CASE aborted
  <2>1. EndWith("aborted", outcome)
    BY <1>2 DEF ReadPiece
  <2> QED
    BY <2>1, FormatEnds DEF EndWith
<1>3. CASE ~aborted
  <2>1. PICK n \in PieceSizes :
          /\ n <= Len(source)
          /\ held' = [held EXCEPT !.piece = SubSeq(source, 1, n)]
          /\ source' = SubSeq(source, n + 1, Len(source)) /\ stage' = stage
    BY <1>3 DEF ReadPiece
  <2>2. HeldForm
    BY <1>1, SealHolds, OpenHolds
  <2>3. /\ held'.piece = SubSeq(source, 1, n) /\ held'.ended = held.ended
        /\ held'.acc = held.acc /\ held'.pending = held.pending
    BY <2>1, <2>2 DEF HeldForm
  <2>4. CASE stage = "seal"
    <3>1. /\ HoldsAt(Text0, CHUNK_SIZE, index, held.pending, held.acc, << >>, source)
          /\ List(Text0) /\ CHUNK_SIZE \in Nat \ {0} /\ index \in Nat
      BY <1>1, <2>4, SealHolds
    <3>2. n \in 0..Len(source)
      <4>1. Len(source) \in Nat
        BY <3>1, HeldLens
      <4> QED
        BY <2>1, <4>1, Sizes
    <3>3. HoldsAt(Text0, CHUNK_SIZE, index, held.pending, held.acc, SubSeq(source, 1, n),
                  SubSeq(source, n + 1, Len(source)))
      BY <3>1, <3>2, HoldsPiece
    <3> QED
      BY <1>1, <2>1, <2>3, <2>4, <3>3, SealHolds, SealGoesOn
  <2>5. CASE stage = "open"
    <3>1. /\ HoldsAt(Rest, SEALED_CHUNK_SIZE, index, held.pending, held.acc, << >>, source)
          /\ List(Rest) /\ SEALED_CHUNK_SIZE \in Nat \ {0} /\ index \in Nat
      BY <1>1, <2>5, OpenHolds
    <3>2. n \in 0..Len(source)
      <4>1. Len(source) \in Nat
        BY <3>1, HeldLens
      <4> QED
        BY <2>1, <4>1, Sizes
    <3>3. HoldsAt(Rest, SEALED_CHUNK_SIZE, index, held.pending, held.acc, SubSeq(source, 1, n),
                  SubSeq(source, n + 1, Len(source)))
      BY <3>1, <3>2, HoldsPiece
    <3> QED
      BY <1>1, <2>1, <2>3, <2>5, <3>3, OpenHolds, OpenGoesOn
  <2> QED
    BY <1>1, <2>4, <2>5
<1> QED
  BY <1>2, <1>3

LEMMA FormatSourceEnds ==
  ASSUME StreamInv, FormatInv, StreamInv', EndOfSource
  PROVE  FormatInv'
<1>1. /\ stage \in {"seal", "open"} /\ held.piece = << >> /\ source = << >>
      /\ UNCHANGED << source, index, body, opened, call, header, key >>
      /\ \/ EndWith("aborted", outcome)
         \/ held' = [held EXCEPT !.ended = TRUE] /\ stage' = stage
  BY DEF EndOfSource, Driving, DriveUnchanged, Continue
<1>2. CASE EndWith("aborted", outcome)
  BY <1>2, FormatEnds DEF EndWith
<1>3. CASE held' = [held EXCEPT !.ended = TRUE] /\ stage' = stage
  <2>1. HeldForm
    BY <1>1, SealHolds, OpenHolds
  <2>2. held'.piece = held.piece /\ held'.acc = held.acc /\ held'.pending = held.pending
    BY <1>3, <2>1 DEF HeldForm
  <2>3. CASE stage = "seal"
    BY <1>1, <1>3, <2>2, <2>3, SealHolds, SealGoesOn
  <2>4. CASE stage = "open"
    BY <1>1, <1>3, <2>2, <2>4, OpenHolds, OpenGoesOn
  <2> QED
    BY <1>1, <2>3, <2>4
<1> QED
  BY <1>1, <1>2, <1>3

(* A take moves as much of the piece as the block has room for.            *)
LEMMA TakesSome ==
  ASSUME NEW bytes, List(bytes), NEW size \in Nat \ {0}, size = BlockSize, index \in Nat,
         HoldsAt(bytes, size, index, held.pending, held.acc, held.piece, source),
         held.piece # << >>
  PROVE  Handed(bytes, size, index, held.pending, TakeAcc, TakeRest, source)
<1> DEFINE la == Len(held.acc)  lp == Len(held.piece)  n == TakeCount
<1>1. la \in Nat /\ lp \in Nat /\ held.piece \in Seq(Range(bytes))
  BY HeldLens
<1>2. lp # 0
  BY <1>1, EmptySeq
<1>3. la < size
  BY DEF HoldsAt
<1>4. n = Min({size - la, lp})
  BY DEF TakeCount
<1>9. Split(held.acc, held.piece, n, TakeAcc, TakeRest)
  BY DEF TakeAcc, TakeRest, Split
<1> HIDE DEF la, lp, n
<1>5. size - la \in Nat \ {0}
  BY <1>1, <1>3
<1>6. n = IF size - la <= lp THEN size - la ELSE lp
  BY <1>1, <1>4, <1>5, MinOfTwo
<1>7. n \in 1..lp /\ n <= size - la
  BY <1>1, <1>2, <1>3, <1>5, <1>6
<1>8. n \in 1..Len(held.piece) /\ n <= size - Len(held.acc)
  BY <1>7 DEF la, lp
<1> QED
  BY <1>8, <1>9, HoldsMoved

LEMMA TakesStep ==
  ASSUME Take, HeldForm, NEW size, size = BlockSize
  PROVE  /\ held.piece # << >> /\ UNCHANGED << source, call, header, key >>
         /\ held'.piece = TakeRest /\ held'.ended = held.ended
         /\ \/ /\ Len(TakeAcc) < size
               /\ held'.acc = TakeAcc /\ held'.pending = held.pending /\ Quiet
            \/ /\ ~ (Len(TakeAcc) < size)
               /\ held'.acc = << >> /\ held'.pending = TakeAcc
               /\ \/ held.pending = << >> /\ Quiet
                  \/ held.pending # << >> /\ Emit(held.pending, FALSE, stage)
<1>1. /\ held.piece # << >> /\ UNCHANGED source /\ DriveUnchanged
      /\ IF Len(TakeAcc) < BlockSize
         THEN held' = [held EXCEPT !.piece = TakeRest, !.acc = TakeAcc] /\ Quiet
         ELSE /\ held' = [held EXCEPT !.piece = TakeRest, !.acc = << >>, !.pending = TakeAcc]
              /\ IF held.pending = << >> THEN Quiet ELSE Emit(held.pending, FALSE, stage)
  BY Takes
<1>2. UNCHANGED << source, call, header, key >>
  BY <1>1 DEF DriveUnchanged
<1> DEFINE a == TakeAcc  r == TakeRest  less == Len(a) < BlockSize
           q == Quiet  e == Emit(held.pending, FALSE, stage)
<1>3. CASE less
  <2>1. held' = [held EXCEPT !.piece = r, !.acc = a] /\ q
    BY <1>1, <1>3
  <2> HIDE DEF a, r, q
  <2>2. held'.piece = r /\ held'.ended = held.ended /\ held'.acc = a /\ held'.pending = held.pending
    BY <2>1 DEF HeldForm
  <2> QED
    BY <1>1, <1>2, <1>3, <2>1, <2>2 DEF a, r, q
<1>4. CASE ~less
  <2>1. /\ held' = [held EXCEPT !.piece = r, !.acc = << >>, !.pending = a]
        /\ (held.pending = << >> /\ q) \/ (held.pending # << >> /\ e)
    BY <1>1, <1>4
  <2> HIDE DEF a, r, q, e
  <2>2. held'.piece = r /\ held'.ended = held.ended /\ held'.acc = << >> /\ held'.pending = a
    BY <2>1 DEF HeldForm
  <2> QED
    BY <1>1, <1>2, <1>4, <2>1, <2>2 DEF a, r, q, e
<1> QED
  BY <1>3, <1>4

LEMMA FormatTakesSealed ==
  ASSUME StreamInv, FormatInv, StreamInv', stage = "seal", Take
  PROVE  FormatInv'
<1> DEFINE a == TakeAcc  r == TakeRest  s == CHUNK_SIZE
<1>1. /\ HeldForm /\ index \in Nat /\ List(Text0) /\ s \in Nat \ {0} /\ s = BlockSize
      /\ HoldsAt(Text0, s, index, held.pending, held.acc, held.piece, source)
      /\ body = Built.lead \o Upto(ChunksOf(call), index)
  BY SealHolds DEF BlockSize
<1>2. /\ held.piece # << >> /\ UNCHANGED << source, call, header, key >>
      /\ held'.piece = r /\ held'.ended = held.ended
      /\ \/ Len(a) < s /\ held'.acc = a /\ held'.pending = held.pending /\ Quiet
         \/ /\ ~ (Len(a) < s) /\ held'.acc = << >> /\ held'.pending = a
            /\ \/ held.pending = << >> /\ Quiet
               \/ held.pending # << >> /\ Emit(held.pending, FALSE, stage)
  BY <1>1, TakesStep
<1>3. Handed(Text0, s, index, held.pending, a, r, source)
  BY <1>1, <1>2, TakesSome
<1> HIDE DEF a, r, s
<1>4. ASSUME Quiet PROVE stage' = "seal" /\ UNCHANGED << index, body >>
  BY <1>4 DEF Quiet, Continue
<1>5. Len(a) < s \/ Len(a) = s
  <2>1. Len(a) \in Nat /\ Len(a) <= s
    BY <1>3 DEF Handed
  <2> QED
    BY <1>1, <2>1
<1>6. CASE Len(a) < s /\ held'.acc = a /\ held'.pending = held.pending /\ Quiet
  <2>1. HoldsAt(Text0, s, index, held.pending, a, r, source)
    BY <1>3, <1>6 DEF Handed
  <2> QED
    BY <1>1, <1>2, <1>4, <1>6, <2>1, SealGoesOn DEF s
<1>7. CASE Len(a) = s /\ held'.acc = << >> /\ held'.pending = a /\ held.pending = << >> /\ Quiet
  <2>1. HoldsAt(Text0, s, index, a, << >>, r, source)
    BY <1>3, <1>7 DEF Handed
  <2> QED
    BY <1>1, <1>2, <1>4, <1>7, <2>1, SealGoesOn DEF s
<1>8. CASE /\ Len(a) = s /\ held'.acc = << >> /\ held'.pending = a /\ held.pending # << >>
           /\ Emit(held.pending, FALSE, stage)
  <2>1. /\ Block(Text0, s, index, held.pending, FALSE)
        /\ HoldsAt(Text0, s, index + 1, a, << >>, r, source)
    BY <1>3, <1>8 DEF Handed
  <2>2. /\ index' = index + 1 /\ (Continue("seal") \/ EndWith("stopped", outcome))
        /\ body' = Built.lead \o Upto(ChunksOf(call), index + 1)
    BY <1>8, <2>1, FormatSeals DEF s
  <2>3. CASE Continue("seal")
    BY <1>2, <1>8, <2>1, <2>2, <2>3, SealGoesOn DEF s, Continue
  <2>4. CASE EndWith("stopped", outcome)
    BY <2>4, FormatEnds DEF EndWith
  <2> QED
    BY <2>2, <2>3, <2>4
<1> QED
  BY <1>2, <1>5, <1>6, <1>7, <1>8

(* An open that throws.                                                    *)
LEMMA FormatThrows ==
  ASSUME UNCHANGED << call, header, key, body >>, EndWith("threw", "TAMPERED_CIPHERTEXT"),
         Failed(BufferedOpen), ~ (Entitled /\ header.blob = body)
  PROVE  FormatInv'
<1>1. stage' = "ended" /\ end' = "threw" /\ outcome' = "TAMPERED_CIPHERTEXT"
  BY DEF EndWith
<1>2. Failed(BufferedOpen') /\ ~ (Entitled' /\ header'.blob = body')
  BY Same
<1>3. EndForm'
  BY <1>1, <1>2 DEF EndForm
<1> QED
  BY <1>1, <1>3, FormatEnded

LEMMA FormatTakesOpened ==
  ASSUME StreamInv, FormatInv, StreamInv', stage = "open", Take
  PROVE  FormatInv'
<1> DEFINE a == TakeAcc  r == TakeRest  s == SEALED_CHUNK_SIZE
<1>0. HoldsAt(Rest, s, index, held.pending, held.acc, held.piece, source)
  BY OpenHolds
<1>1. /\ HeldForm /\ index \in Nat /\ List(Rest) /\ s \in Nat \ {0} /\ s = BlockSize
      /\ held.pending \in Seq(Range(body))
      /\ held.ended => held.piece = << >>
      /\ opened = Upto(Plains, index)
  BY OpenHolds DEF BlockSize
<1>p. \A i \in 1..index : ~Failed(Results[i])
  BY OpenHolds
<1>2. /\ held.piece # << >> /\ UNCHANGED << source, call, header, key >>
      /\ held'.piece = r /\ held'.ended = held.ended
      /\ \/ Len(a) < s /\ held'.acc = a /\ held'.pending = held.pending /\ Quiet
         \/ /\ ~ (Len(a) < s) /\ held'.acc = << >> /\ held'.pending = a
            /\ \/ held.pending = << >> /\ Quiet
               \/ held.pending # << >> /\ Emit(held.pending, FALSE, stage)
  BY <1>1, TakesStep
<1>3. Handed(Rest, s, index, held.pending, a, r, source)
  BY <1>0, <1>1, <1>2, TakesSome
<1> HIDE DEF a, r, s
<1>4. ASSUME Quiet PROVE stage' = "open" /\ UNCHANGED << index, body, opened >>
  BY <1>4 DEF Quiet, Continue
<1>5. Len(a) < s \/ Len(a) = s
  <2>1. Len(a) \in Nat /\ Len(a) <= s
    BY <1>3 DEF Handed
  <2> QED
    BY <1>1, <2>1
<1>e. ~ held'.ended
  BY <1>1, <1>2
<1>6. CASE Len(a) < s /\ held'.acc = a /\ held'.pending = held.pending /\ Quiet
  <2>1. HoldsAt(Rest, s, index, held.pending, a, r, source)
    BY <1>3, <1>6 DEF Handed
  <2> QED
    BY <1>1, <1>p, <1>2, <1>4, <1>e, <1>6, <2>1, OpenGoesOn DEF s
<1>7. CASE Len(a) = s /\ held'.acc = << >> /\ held'.pending = a /\ held.pending = << >> /\ Quiet
  <2>1. HoldsAt(Rest, s, index, a, << >>, r, source)
    BY <1>3, <1>7 DEF Handed
  <2> QED
    BY <1>1, <1>p, <1>2, <1>4, <1>e, <1>7, <2>1, OpenGoesOn DEF s
<1>8. CASE /\ Len(a) = s /\ held'.acc = << >> /\ held'.pending = a /\ held.pending # << >>
           /\ Emit(held.pending, FALSE, stage)
  <2>1. /\ Block(Rest, s, index, held.pending, FALSE)
        /\ HoldsAt(Rest, s, index + 1, a, << >>, r, source)
    BY <1>3, <1>8 DEF Handed
  <2>2. \/ /\ EndWith("threw", "TAMPERED_CIPHERTEXT") /\ body' = body
           /\ Failed(BufferedOpen) /\ ~ (Entitled /\ header.blob = body)
        \/ /\ index' = index + 1 /\ body' = body /\ opened' = Upto(Plains, index + 1)
           /\ \A i \in 1..(index + 1) : ~Failed(Results[i])
           /\ Continue("open") \/ EndWith("stopped", outcome)
    BY <1>1, <1>8, <2>1, FormatOpens DEF s
  <2>3. CASE /\ EndWith("threw", "TAMPERED_CIPHERTEXT") /\ body' = body
             /\ Failed(BufferedOpen) /\ ~ (Entitled /\ header.blob = body)
    BY <1>2, <2>3, FormatThrows
  <2>4. CASE EndWith("stopped", outcome)
    BY <2>4, FormatEnds DEF EndWith
  <2>5. CASE /\ index' = index + 1 /\ body' = body /\ opened' = Upto(Plains, index + 1)
             /\ \A i \in 1..(index + 1) : ~Failed(Results[i])
             /\ Continue("open")
    BY <1>2, <1>e, <1>8, <2>1, <2>5, OpenGoesOn DEF s, Continue
  <2> QED
    BY <2>2, <2>3, <2>4, <2>5
<1> QED
  BY <1>2, <1>5, <1>6, <1>7, <1>8

LEMMA FormatFlushesSealed ==
  ASSUME StreamInv, FormatInv, StreamInv', stage = "seal", LastBlocks
  PROVE  FormatInv'
<1> DEFINE s == CHUNK_SIZE  p == held.pending  a == held.acc
<1>1. /\ HeldForm /\ index \in Nat /\ List(Text0) /\ s \in Nat \ {0}
      /\ HoldsAt(Text0, s, index, p, a, held.piece, source)
  BY SealHolds
<1>2. held.piece = << >> /\ source = << >> /\ UNCHANGED << source, call, header, key >>
  BY SealHolds DEF LastBlocks, DriveUnchanged
<1>3. IF a # << >> /\ p # << >>
      THEN held' = [held EXCEPT !.pending = << >>] /\ Emit(p, FALSE, "seal")
      ELSE held' = NothingHeld /\ Emit(a \o p, TRUE, "sealed")
  BY DEF LastBlocks, Flush, Whole
<1>4. IF a # << >> /\ p # << >>
      THEN /\ Block(Text0, s, index, p, FALSE)
           /\ HoldsAt(Text0, s, index + 1, << >>, a, << >>, << >>)
      ELSE Block(Text0, s, index, a \o p, TRUE)
  BY <1>1, <1>2, HoldsLast
<1>5. CASE a # << >> /\ p # << >>
  <2> HIDE DEF s, p, a
  <2>1. /\ held' = [held EXCEPT !.pending = << >>] /\ Emit(p, FALSE, "seal")
        /\ Block(Text0, s, index, p, FALSE)
        /\ HoldsAt(Text0, s, index + 1, << >>, a, << >>, << >>)
    BY <1>3, <1>4, <1>5
  <2>2. held'.pending = << >> /\ held'.acc = a /\ held'.piece = << >> /\ source' = << >>
    BY <1>1, <1>2, <2>1 DEF HeldForm, a
  <2>3. /\ index' = index + 1 /\ (Continue("seal") \/ EndWith("stopped", outcome))
        /\ body' = Built.lead \o Upto(ChunksOf(call), index + 1)
    BY <2>1, FormatSeals DEF s
  <2>4. CASE Continue("seal")
    <3>1. HoldsAt(Text0, s, index', held'.pending, held'.acc, held'.piece, source')
      BY <2>1, <2>2, <2>3
    <3>2. stage' = "seal" /\ body' = Built.lead \o Upto(ChunksOf(call), index')
      BY <2>3, <2>4 DEF Continue
    <3> QED
      BY <1>2, <3>1, <3>2, SealGoesOn DEF s
  <2>5. CASE EndWith("stopped", outcome)
    BY <2>5, FormatEnds DEF EndWith
  <2> QED
    BY <2>3, <2>4, <2>5
<1>6. CASE ~ (a # << >> /\ p # << >>)
  <2> DEFINE chunk == a \o p
  <2>1. Block(Text0, s, index, chunk, TRUE) /\ Emit(chunk, TRUE, "sealed")
    BY <1>3, <1>4, <1>6
  <2> HIDE DEF chunk, s, p, a
  <2>2. /\ Continue("sealed") \/ EndWith("stopped", outcome)
        /\ body' = Built.lead \o Stream(call)
    BY <2>1, FormatSeals DEF s
  <2>3. CASE Continue("sealed")
    <3>1. stage' = "sealed"
      BY <2>3 DEF Continue
    <3>2. key' = Built'.key /\ body' = Built'.lead \o Stream(call')
      BY <1>2, <2>2 DEF Built, StreamInv, CutInv
    <3>3. SealForm' /\ BodyForm' /\ OpenForm'
      BY <3>1, <3>2 DEF SealForm, BodyForm, OpenForm
    <3>4. FetchForm'
      BY <1>2, <3>1 DEF FetchForm, FormatInv, Fetched
    <3> QED
      BY <3>1, <3>3, <3>4, Goes
  <2>4. CASE EndWith("stopped", outcome)
    BY <2>4, FormatEnds DEF EndWith
  <2> QED
    BY <2>2, <2>3, <2>4
<1> QED
  BY <1>5, <1>6

(* What streamOpen makes of the last bytes when they are too few.          *)
LEMMA FlushTampers ==
  ASSUME StreamInv, FormatInv, stage = "open", held.ended,
         Len(held.acc) \in 1..(TAG_SIZE - 1) \/ (held.acc = << >> /\ held.pending = << >>)
  PROVE  Failed(BufferedOpen) /\ ~ (Entitled /\ header.blob = body)
<1> DEFINE s == SEALED_CHUNK_SIZE  p == held.pending  a == held.acc
<1>1. /\ index \in Nat /\ List(Rest) /\ s \in Nat \ {0}
      /\ HoldsAt(Rest, s, index, p, a, << >>, << >>)
  BY OpenHolds
<1>2. TAG_SIZE \in Nat \ {0} /\ TAG_SIZE <= s
  BY Sizes DEF SEALED_CHUNK_SIZE
<1>3. \A k \in Nat : \A chunk : Block(Rest, s, k, chunk, TRUE) /\ Len(chunk) < TAG_SIZE =>
        Failed(BufferedOpen) /\ ~ (Entitled /\ header.blob = body)
  <2>1. \A k, chunk : Len(chunk) < TAG_SIZE => Failed(openChunk(key, k, chunk, TRUE))
    BY DEF openChunk, Failed, Failure
  <2> QED
    BY <2>1, BlockFails
<1>4. IF a # << >> /\ p # << >>
      THEN /\ Block(Rest, s, index, p, FALSE)
           /\ HoldsAt(Rest, s, index + 1, << >>, a, << >>, << >>)
      ELSE Block(Rest, s, index, a \o p, TRUE)
  BY <1>1, HoldsLast
<1> HIDE DEF s, p, a
<1>5. Len(a) \in Nat /\ Len(<< >>) = 0 /\ a \in Seq(Range(Rest)) /\ p \in Seq(Range(Rest))
  BY <1>1, HeldLens
<1>6. Len(a) < TAG_SIZE
  BY <1>2, <1>5 DEF a
<1>7. CASE a # << >> /\ p # << >>
  <2>1. HoldsAt(Rest, s, index + 1, << >>, a, << >>, << >>) /\ index + 1 \in Nat
    BY <1>1, <1>4, <1>7
  <2>2. Block(Rest, s, index + 1, a \o << >>, TRUE)
    BY <1>1, <2>1, HoldsLast
  <2>3. a \o << >> = a
    BY <1>5, ConcatEmptySeq
  <2> QED
    BY <1>3, <1>6, <2>1, <2>2, <2>3
<1>8. CASE ~ (a # << >> /\ p # << >>)
  <2>1. p = << >>
    BY <1>5, <1>8 DEF a, p
  <2>2. a \o p = a
    BY <1>5, <2>1, ConcatEmptySeq
  <2> QED
    BY <1>1, <1>3, <1>4, <1>6, <1>8, <2>2
<1> QED
  BY <1>7, <1>8

LEMMA FormatFlushesOpened ==
  ASSUME StreamInv, FormatInv, StreamInv', stage = "open", LastBlocks
  PROVE  FormatInv'
<1> DEFINE s == SEALED_CHUNK_SIZE  p == held.pending  a == held.acc
           short == Len(a) \in 1..(TAG_SIZE - 1) \/ (a = << >> /\ p = << >>)
<1>1. /\ HeldForm /\ index \in Nat /\ List(Rest) /\ s \in Nat \ {0}
      /\ HoldsAt(Rest, s, index, p, a, held.piece, source)
      /\ p \in Seq(Range(body)) /\ a \in Seq(Range(body))
  BY OpenHolds
<1>2. /\ held.piece = << >> /\ source = << >> /\ held.ended
      /\ UNCHANGED << source, call, header, key >>
  BY OpenHolds DEF LastBlocks, DriveUnchanged
<1>3. IF short THEN Tampered
      ELSE IF a # << >> /\ p # << >>
      THEN held' = [held EXCEPT !.pending = << >>] /\ Emit(p, FALSE, "open")
      ELSE held' = NothingHeld /\ Emit(a \o p, TRUE, "drained")
  BY DEF LastBlocks, Flush, Whole
<1>4. IF a # << >> /\ p # << >>
      THEN /\ Block(Rest, s, index, p, FALSE)
           /\ HoldsAt(Rest, s, index + 1, << >>, a, << >>, << >>)
      ELSE Block(Rest, s, index, a \o p, TRUE)
  BY <1>1, <1>2, HoldsLast
<1>5. CASE short
  <2>1. Failed(BufferedOpen) /\ ~ (Entitled /\ header.blob = body)
    BY <1>2, <1>5, FlushTampers
  <2>2. EndWith("threw", "TAMPERED_CIPHERTEXT") /\ UNCHANGED body
    BY <1>3, <1>5 DEF Tampered
  <2> QED
    BY <1>2, <2>1, <2>2, FormatThrows
<1>6. CASE ~short /\ a # << >> /\ p # << >>
  <2> HIDE DEF s, p, a, short
  <2>1. /\ held' = [held EXCEPT !.pending = << >>] /\ Emit(p, FALSE, "open")
        /\ Block(Rest, s, index, p, FALSE)
        /\ HoldsAt(Rest, s, index + 1, << >>, a, << >>, << >>)
    BY <1>3, <1>4, <1>6
  <2>2. held'.pending = << >> /\ held'.acc = a /\ held'.piece = << >> /\ source' = << >>
    BY <1>1, <1>2, <2>1 DEF HeldForm, a
  <2>3. \/ /\ EndWith("threw", "TAMPERED_CIPHERTEXT") /\ body' = body
           /\ Failed(BufferedOpen) /\ ~ (Entitled /\ header.blob = body)
        \/ /\ index' = index + 1 /\ body' = body /\ opened' = Upto(Plains, index + 1)
           /\ \A i \in 1..(index + 1) : ~Failed(Results[i])
           /\ Continue("open") \/ EndWith("stopped", outcome)
    BY <1>1, <2>1, FormatOpens DEF s
  <2>4. CASE /\ EndWith("threw", "TAMPERED_CIPHERTEXT") /\ body' = body
             /\ Failed(BufferedOpen) /\ ~ (Entitled /\ header.blob = body)
    BY <1>2, <2>4, FormatThrows
  <2>5. CASE EndWith("stopped", outcome)
    BY <2>5, FormatEnds DEF EndWith
  <2>6. CASE /\ index' = index + 1 /\ body' = body /\ opened' = Upto(Plains, index + 1)
             /\ \A i \in 1..(index + 1) : ~Failed(Results[i])
             /\ Continue("open")
    BY <1>2, <2>1, <2>2, <2>6, OpenGoesOn DEF s, Continue
  <2> QED
    BY <2>3, <2>4, <2>5, <2>6
<1>7. CASE ~short /\ ~ (a # << >> /\ p # << >>)
  <2> DEFINE chunk == a \o p
  <2>1. Block(Rest, s, index, chunk, TRUE) /\ Emit(chunk, TRUE, "drained")
    BY <1>3, <1>4, <1>7
  <2>2. chunk \in Seq(Range(body))
    <3> DEFINE S == Range(body)
    <3>1. a \in Seq(S) /\ p \in Seq(S)
      BY <1>1
    <3> HIDE DEF S, a, p
    <3>2. a \o p \in Seq(S)
      BY <3>1, ConcatProperties
    <3> QED
      BY <3>2 DEF S
  <2> HIDE DEF chunk, s, p, a, short
  <2>3. \/ /\ EndWith("threw", "TAMPERED_CIPHERTEXT") /\ body' = body
           /\ Failed(BufferedOpen) /\ ~ (Entitled /\ header.blob = body)
        \/ /\ body' = body /\ BufferedOpen = [plain |-> opened']
           /\ Continue("drained") \/ EndWith("stopped", outcome)
    BY <2>1, <2>2, FormatOpens DEF s
  <2>4. CASE /\ EndWith("threw", "TAMPERED_CIPHERTEXT") /\ body' = body
             /\ Failed(BufferedOpen) /\ ~ (Entitled /\ header.blob = body)
    BY <1>2, <2>4, FormatThrows
  <2>5. CASE EndWith("stopped", outcome)
    BY <2>5, FormatEnds DEF EndWith
  <2>6. CASE body' = body /\ BufferedOpen = [plain |-> opened'] /\ Continue("drained")
    <3>1. stage' = "drained"
      BY <2>6 DEF Continue
    <3>2. OpenForm'
      BY <1>2, <2>6, <3>1, Same DEF OpenForm
    <3>3. SealForm' /\ BodyForm'
      BY <1>2, <2>6, <3>1, BodyKept DEF Sealed
    <3>4. FetchForm'
      BY <1>2, <3>1 DEF FetchForm, FormatInv, Fetched
    <3> QED
      BY <3>1, <3>2, <3>3, <3>4, Goes
  <2> QED
    BY <2>3, <2>4, <2>5, <2>6
<1> QED
  BY <1>5, <1>6, <1>7

LEMMA FormatDrains ==
  ASSUME StreamInv, FormatInv, StreamInv', Drained
  PROVE  FormatInv'
<1>1. /\ stage = "drained" /\ EndWith("returned", "matched")
      /\ UNCHANGED << opened, call, header, key, body >>
  BY DEF Drained, DriveUnchanged
<1>2. stage' = "ended" /\ end' = "returned" /\ outcome' = "matched"
  BY <1>1 DEF EndWith
<1>3. BufferedOpen' = [plain |-> opened']
  BY <1>1, Same DEF FormatInv, OpenForm
<1>4. EndForm'
  BY <1>2, <1>3 DEF EndForm
<1> QED
  BY <1>2, <1>4, FormatEnded

(* A step that changes nothing but whether the caller aborted.             *)
LEMMA FormatStays ==
  ASSUME FormatInv,
         UNCHANGED << call, stage, header, key, source, held, index, body, opened, outcome, end >>
  PROVE  FormatInv'
<1>1. /\ Rest' = Rest /\ Results' = Results /\ Plains' = Plains /\ Built' = Built
      /\ (Entitled' <=> Entitled) /\ BufferedOpen' = BufferedOpen /\ Text0' = Text0
  BY Same
<1>2. SealForm' /\ BodyForm' /\ FetchForm'
  BY <1>1 DEF FormatInv, SealForm, BodyForm, FetchForm
<1>3. OpenForm'
  BY <1>1 DEF FormatInv, OpenForm
<1>4. EndForm'
  BY <1>1 DEF FormatInv, EndForm
<1> QED
  BY <1>2, <1>3, <1>4 DEF FormatInv

LEMMA FormatInvStep ==
  ASSUME StreamInv, FormatInv, [StreamNext]_streamVars
  PROVE  StreamInv' /\ FormatInv'
<1>1. StreamInv'
  BY StreamInvStep
<1>2. CASE sealStream
  BY <1>1, <1>2, FormatStarts
<1>3. CASE Store
  BY <1>1, <1>3, FormatStores
<1>4. CASE unwrapStream
  BY <1>1, <1>4, FormatUnwraps
<1>5. CASE passphraseOpenStream
  BY <1>1, <1>5, FormatPassphrase
<1>6. CASE Lookahead
  BY <1>1, <1>6, FormatLooksAhead
<1>7. CASE VerifyCommitment
  BY <1>1, <1>7, FormatVerifies
<1>8. CASE ReadPiece
  BY <1>1, <1>8, FormatReads
<1>9. CASE Take
  <2>1. stage = "seal" \/ stage = "open"
    BY <1>9 DEF Take, Driving
  <2> QED
    BY <1>1, <1>9, <2>1, FormatTakesSealed, FormatTakesOpened
<1>10. CASE EndOfSource
  BY <1>1, <1>10, FormatSourceEnds
<1>11. CASE LastBlocks
  <2>1. stage = "seal" \/ stage = "open"
    BY <1>11 DEF LastBlocks, Driving
  <2> QED
    BY <1>1, <1>11, <2>1, FormatFlushesSealed, FormatFlushesOpened
<1>12. CASE Drained
  BY <1>1, <1>12, FormatDrains
<1>13. CASE SourceFails
  <2>1. stage' = "ended" /\ end' = "source failed"
    BY <1>13 DEF SourceFails, EndWith
  <2> QED
    BY <1>1, <2>1, FormatEnds
<1>14. CASE NeverDriven
  <2>1. stage' = "ended" /\ end' = "never driven"
    BY <1>14 DEF NeverDriven, LeavingOpen
  <2> QED
    BY <1>1, <2>1, FormatEnds
<1>15. CASE Abort
  <2>1. UNCHANGED << call, stage, header, key, source, held, index, body, opened, outcome, end >>
    BY <1>15 DEF Abort
  <2> QED
    BY <1>1, <2>1, FormatStays
<1>16. CASE StreamEnded \/ UNCHANGED streamVars
  <2>1. UNCHANGED << call, stage, header, key, source, held, index, body, opened, outcome, end >>
    BY <1>16 DEF StreamEnded, streamVars
  <2> QED
    BY <1>1, <2>1, FormatStays
<1>17. \/ sealStream \/ Store \/ unwrapStream \/ passphraseOpenStream \/ Lookahead
       \/ VerifyCommitment \/ ReadPiece \/ Take \/ EndOfSource \/ LastBlocks \/ Drained
       \/ Abort \/ SourceFails \/ NeverDriven \/ StreamEnded \/ UNCHANGED streamVars
  BY DEF StreamNext
<1> QED
  BY <1>1, <1>2, <1>3, <1>4, <1>5, <1>6, <1>7, <1>8, <1>9, <1>10, <1>11, <1>12, <1>13, <1>14,
     <1>15, <1>16, <1>17

LEMMA FormatInvInit ==
  ASSUME StreamInit
  PROVE  FormatInv
<1>1. stage = "start" /\ end = "none"
  BY DEF StreamInit, StreamIdle
<1> QED
  BY <1>1 DEF FormatInv, SealForm, BodyForm, FetchForm, OpenForm, EndForm, Sealed, Fetched

(* Whatever the sizes and the calls, what is sealed and what is opened so  *)
(* far stand to streamSeal and streamOpen as a beginning to the whole.     *)
THEOREM FormatInvAlways == StreamSpec => [](StreamInv /\ FormatInv)
<1>1. StreamInit => StreamInv /\ FormatInv
  BY StreamInvInit, FormatInvInit
<1>2. (StreamInv /\ FormatInv) /\ [StreamNext]_streamVars => (StreamInv /\ FormatInv)'
  BY FormatInvStep
<1> QED
  BY <1>1, <1>2, PTL DEF StreamSpec

(* Streaming and whole-buffer sealing are one format, for every chunk and  *)
(* tag size, every plaintext and every way the source cuts it: what is     *)
(* sealed is what streamSeal seals, of the length streamSealedLength       *)
(* foretells; what is opened is what streamOpen opens, and what is refused *)
(* it refuses; and a holder of the key opens what was stored unaltered     *)
(* (rechunk.ts beside stream.ts).                                          *)
THEOREM SameAsBufferedAlways == StreamSpec => []SameAsBuffered
<1>1. ASSUME StreamInv, FormatInv PROVE SameAsBuffered
  <2>1. ASSUME stage = "sealed"
        PROVE  /\ SubSeq(body, Lead + 1, Len(body)) = streamSeal(key, call.plaintext)
               /\ Len(body) = Lead + streamSealedLength(Len(call.plaintext))
    <3>1. /\ Len(body) = Lead + Len(Stream(call))
          /\ SubSeq(body, Lead + 1, Len(body)) = Stream(call)
      BY <1>1, <2>1, BodyIs DEF Sealed
    <3>2. key = SealHeader(call).key /\ List(call.plaintext)
      BY <1>1, <2>1, Calls DEF FormatInv, BodyForm, Built, Sealed, StreamInv
    <3>3. Stream(call) = streamSeal(key, call.plaintext)
      BY <3>2 DEF Stream
    <3>4. Len(Stream(call)) = streamSealedLength(Len(call.plaintext))
      BY <3>2, StreamIs
    <3> QED
      BY <3>1, <3>3, <3>4
  <2>2. EndForm
    BY <1>1 DEF FormatInv
  <2> QED
    BY <2>1, <2>2 DEF SameAsBuffered, EndForm, Entitled
<1>2. StreamSpec => [](StreamInv /\ FormatInv)
  BY FormatInvAlways
<1> QED
  BY <1>1, <1>2, PTL
===============================================================================
