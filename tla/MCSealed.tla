-------------------------------- MODULE MCSealed --------------------------------
(* Sealed content for TLC: SealedStream, every piece and every alteration  *)
(* of what is stored, and PreparedSeal, every edit of a stored document.   *)
(* The two share no state; a behaviour is one of either.                   *)
EXTENDS SealedStream, PreparedSeal, CborCodec

Secret(who) == [who |-> who, len |-> 32]
Hashes(content) == Map([x \in {"sha2-256"} |-> Bytes(32, content)])
Plain(n) == [i \in 1..n |-> i]
SlotsArgs(kem, whos) ==
  [kem |-> kem, hashes |-> Hashes("file"),
   recipientPublicKeys |-> [i \in DOMAIN whos |->
     IF kem = "x25519" THEN x25519PublicKey(Secret(whos[i]))
     ELSE xwingPublicKey(Secret(whos[i]))],
   fresh |-> [i \in DOMAIN whos |-> [who |-> << "eph1", "eph2" >>[i],
                                     len |-> IF kem = "x25519" THEN 32 ELSE 64]],
   ephemeralSecrets |-> -1, eseeds |-> -1, cek |-> Bytes(32, "cek"),
   nonce |-> Bytes(24, "nonce"), order |-> [i \in DOMAIN whos |-> Len(whos) + 1 - i]]
Slots(kem, whos, secrets, n) ==
  [path |-> "slots", args |-> SlotsArgs(kem, whos), hashes |-> Hashes("file"),
   keys |-> [secrets |-> [k \in DOMAIN secrets |-> Secret(secrets[k])]], plaintext |-> Plain(n)]
Passphrase(norm) == [bytes |-> 6, norm |-> norm]
ByPassphrase(norm, n) ==
  [path |-> "passphrase", hashes |-> Hashes("file"), passphrase |-> Passphrase(norm),
   args |-> [salt |-> Bytes(16, "salt"), params |-> [m |-> 65536, t |-> 3, p |-> 1],
             nonce |-> Bytes(24, "nonce"), hashes |-> Hashes("file"),
             passphrase |-> Passphrase("hunter")],
   plaintext |-> Plain(n)]
MCStreamCalls ==
  {Slots("x25519", << "alice", "bob" >>, << "eve", "bob" >>, n) : n \in 0..6}
    \cup {Slots("mlkem768x25519", << "alice", "bob" >>, << "alice" >>, 3),
          Slots("x25519", << "alice", "bob" >>, << "eve" >>, 3),
          Slots("x25519", << >>, << "eve" >>, 3),
          [Slots("x25519", << "alice" >>, << "alice" >>, 3) EXCEPT !.hashes = Hashes("other")],
          [Slots("mlkem768x25519", << "alice", "bob" >>, << >>, 3) EXCEPT !.keys =
             [bundle |-> [x25519 |-> << Secret("alice") >>,
                          mlkem768x25519 |-> << Secret("eve"), Secret("bob") >>]]]}
    \cup {ByPassphrase("hunter", n) : n \in {0, 2, 3, 4}}
    \cup {ByPassphrase("wrong", 3), ByPassphrase("", 3)}

With(map, k, v) == Map([x \in {k} |-> v] @@ map.m)
AllSlots(envelope, Of(_)) ==
  With(envelope, "slots", Arr([i \in DOMAIN envelope.m.slots.a |-> Of(i)]))
SlotAttacks(envelope, slots) ==
  {AllSlots(envelope, LAMBDA i : slots[Len(slots) + 1 - i]),
   With(envelope, "slots", Arr(<< slots[1] >>)),
   AllSlots(envelope, LAMBDA i : IF i = 1 THEN With(slots[1], "wrap", slots[Len(slots)].m.wrap)
                                 ELSE slots[i]),
   With(envelope, "slots_mac", Bytes(32, "other")), With(envelope, "nonce", Bytes(24, "other")),
   With(envelope, "slots_mac", Bytes(31, "short"))}
PassphraseAttacks(envelope, block) ==
  {With(envelope, "passphrase", With(block, "salt", Bytes(17, "other"))),
   With(envelope, "passphrase", With(block, "params", With(block.m.params, "t", Num(4)))),
   With(envelope, "passphrase", With(block, "params", With(block.m.params, "m", Num(200000)))),
   With(envelope, "nonce", Bytes(24, "other"))}
MCHeaderAttacks(envelope) ==
  IF "slots" \in DOMAIN envelope.m THEN SlotAttacks(envelope, envelope.m.slots.a)
  ELSE PassphraseAttacks(envelope, envelope.m.passphrase)
-----------------------------------------------------------------------------
(* Preparations and documents.                                             *)
Txid == [scheme |-> "ar", fragment |-> FALSE, txid |-> "tx"]
Web == [scheme |-> "https", fragment |-> FALSE]
MCLocations == {<< Txid >>, << Txid, Txid >>, << Web >>}
MCReplaced == {Missing, [chars |-> 64, hex |-> TRUE, id |-> "earlier"],
               [chars |-> 64, hex |-> FALSE, id |-> "earlier"],
               [chars |-> 63, hex |-> TRUE, id |-> "earlier"]}

PublicKey(kem, who) == IF kem = "x25519" THEN x25519PublicKey(Secret(who))
                       ELSE xwingPublicKey(Secret(who))
Ephemerals(kem, n, names) ==
  [k \in 1..n |-> [who |-> names[k], len |-> IF kem = "x25519" THEN 32 ELSE 64]]
Prepare(kem, whos, items, rng, draws) ==
  LET actual == IF kem = "default" THEN "mlkem768x25519" ELSE kem IN
  [path |-> "slots", kem |-> kem, items |-> items, rng |-> rng, draws |-> draws,
   hashAlgs |-> {"sha2-256", "blake2b-256"},
   recipients |-> [i \in DOMAIN whos |-> PublicKey(actual, whos[i])],
   fresh |-> [i \in DOMAIN items |-> Ephemerals(actual, Len(whos),
                IF i = 1 THEN << "eph1", "eph2", "eph3" >> ELSE << "eph4", "eph5", "eph6" >>)],
   ceks |-> [i \in DOMAIN items |-> Bytes(32, << "cek1", "cek2" >>[i])],
   nonces |-> [i \in DOMAIN items |-> Bytes(24, << "nonce1", "nonce2" >>[i])]]
Two == << "alice", "bob" >>
Three == << "alice", "bob", "dave" >>
(* One slot more than the head of an array holds in its first byte.        *)
Crowd == [k \in 1..24 |-> "r" \o ToString(k)]
ToCrowd ==
  [Prepare("default", Crowd, << >>, FALSE, [k \in 1..23 |-> 0]) EXCEPT !.items = << "a" >>,
     !.fresh = << Ephemerals("mlkem768x25519", 24, [k \in 1..24 |-> "e" \o ToString(k)]) >>,
     !.ceks = << Bytes(32, "cek1") >>, !.nonces = << Bytes(24, "nonce1") >>]
ByPassword(norm, m, items) ==
  [path |-> "passphrase", items |-> items, hashAlgs |-> {"sha2-256"},
   passphrase |-> Passphrase(norm), params |-> [m |-> m, t |-> 3, p |-> 1],
   salts |-> [i \in DOMAIN items |-> Bytes(16, << "salt1", "salt2" >>[i])],
   nonces |-> [i \in DOMAIN items |-> Bytes(24, << "nonce1", "nonce2" >>[i])]]
-----------------------------------------------------------------------------
(* Publications that seal nothing.                                         *)
Hex(chars, hex, id) == [chars |-> chars, hex |-> hex, id |-> id]
Signer(len, who, sig) == [pub |-> Bytes(len, "alice"), who |-> who, len |-> sig]
MCSigners == {NoSigner, Signer(32, "alice", 64), Signer(32, "eve", 64), Signer(32, "alice", 63),
              Signer(31, "alice", 64)}
Uris == {Missing, Arr(<< >>), Arr(<< UriText(Txid) >>), Arr(<< UriText(Txid), UriText(Web) >>)}
Content == [path : {"content"}, content : {"a"}, uris : Uris, supersedes : MCReplaced,
            hashAlg : {{}, {"sha2-256"}}, signer : MCSigners,
            hashAlgs : {{}, {"blake2b-256"}, {"sha2-256", "md5"}}]
Digests ==
  {<< >>, << [alg |-> "sha2-256", text |-> Hex(0, TRUE, "d")] >>,
   << [alg |-> "sha2-256", text |-> Hex(64, TRUE, "d")] >>,
   << [alg |-> "sha2-256", text |-> Hex(64, TRUE, "d")],
      [alg |-> "blake2b-256", text |-> Hex(64, TRUE, "e")] >>,
   << [alg |-> "md5", text |-> Hex(32, TRUE, "d")] >>,
   << [alg |-> "constructor", text |-> Hex(64, TRUE, "d")] >>}
  \cup {<< [alg |-> "blake2b-256", text |-> Hex(chars, hex, "d")] >> :
          chars \in {63, 62, 64}, hex \in BOOLEAN}
Prehashed == [path : {"prehashed"}, uris : Uris, supersedes : MCReplaced, hashes : Digests,
              signer : MCSigners]
Batches ==
  [path : {"merkle"}, uri : {UriText(Txid)}, supersedes : MCReplaced, hashAlg : {{}, {"sha2-256"}},
   signer : MCSigners,
   leaves : [count : {1, 23, 24, 255, 256, 65535, 65536, UINT32_MAX}, forms : {{Bytes(32, "leaf")}}]
            \cup {[count |-> 0, forms |-> {}], [count |-> 2, forms |-> {Bytes(32, "leaf"), Bytes(31, "x")}],
                  [count |-> 2, forms |-> {Hex(64, TRUE, "leaf")}]}]
  \cup [path : {"merkle"}, uri : {UriText(Txid)}, supersedes : {Missing}, signer : {NoSigner},
        hashAlg : {{"blake2b-256"}}, leaves : {[count |-> 1, forms |-> {Bytes(32, "leaf")}]}]
(* What a gateway says a batch's list is stored at: nothing checks it.     *)
Elsewhere ==
  {[path |-> "merkle", uri |-> UriText(uri), supersedes |-> Missing, hashAlg |-> {},
    signer |-> NoSigner, leaves |-> [count |-> 2, forms |-> {Bytes(32, "leaf")}]] :
     uri \in {Web, [scheme |-> "ar", fragment |-> FALSE]}}
Publications == Elsewhere \cup Content \cup Prehashed \cup Batches
-----------------------------------------------------------------------------
MCPreparations ==
  {Prepare("x25519", Two, items, rng, << d >>) :
     items \in {<< "a" >>, << "a", "b" >>}, rng \in BOOLEAN, d \in 0..1}
  \cup {Prepare("x25519", Three, << "a" >>, FALSE, << d, e >>) : d \in 0..2, e \in 0..1}
  \cup {Prepare("x25519", Three, << "a" >>, rng, << UINT32_MAX, 2, UINT32_MAX, 0 >>) :
          rng \in BOOLEAN}
  \cup {Prepare("default", Two, << "a" >>, rng, << 0 >>) : rng \in BOOLEAN}
  \cup {Prepare("x25519", << >>, << "a" >>, FALSE, << >>),
        Prepare("x25519", Two, << >>, FALSE, << 0 >>),
        Prepare("x25519", << "alice", "low-order" >>, << "a" >>, FALSE, << 0 >>),
        [Prepare("default", Two, << "a" >>, FALSE, << 0 >>) EXCEPT !.kem = "x25519"]}
  \cup {ByPassword("hunter", 65536, items) : items \in {<< >>, << "a" >>, << "a", "b" >>}}
  \cup {ByPassword("", 65536, << "a" >>), ByPassword("hunter", 65535, << "a" >>), ToCrowd}
  \cup {[Prepare("default", Two, << "a" >>, FALSE, << 0 >>) EXCEPT !.hashAlgs = algs] :
           algs \in {{}, {"sha2-256", "md5"}}}
  \cup {[ByPassword("hunter", 65536, << "a" >>) EXCEPT !.hashAlgs = algs] :
           algs \in {{}, {"sha2-256", "md5"}}}
  \cup Publications

Without(map, k) == Map([x \in DOMAIN map.m \ {k} |-> map.m[x]])
Reprinted(value) ==
  LET bare == Without(value, "prepared_sha256") IN
  canonicalJson(With(bare, "prepared_sha256", fingerprintOf(bare)))
(* An edit of the first item, of its envelope, of the envelope's first slot. *)
ItemEdit(value, k, v) ==
  LET items == value.m.items.a IN
  With(value, "items", Arr([i \in DOMAIN items |-> IF i = 1 THEN With(items[1], k, v) ELSE items[i]]))
First(value) == value.m.items.a[1]
EnvelopeEdit(value, k, v) == ItemEdit(value, "envelope", With(First(value).m.envelope, k, v))
SlotEdit(value, k, v) ==
  LET slots == First(value).m.envelope.m.slots.a IN
  EnvelopeEdit(value, "slots",
    Arr([j \in DOMAIN slots |-> IF j = 1 THEN With(slots[1], k, v) ELSE slots[j]]))
HashEdit(value, k, v) == ItemEdit(value, "hashes", With(First(value).m.hashes, k, v))
B64(len) == base64urlEncode(Bytes(len, "other"))
Values(value) ==
  LET item == First(value)  slots == item.m.envelope.m.slots.a
      field == KEM[Get(value, "kem").s].field IN
  {ItemEdit(value, "ciphertext", B64(40)), ItemEdit(value, "item_id", Sha256Hex(Bytes(32, "other"))),
   ItemEdit(value, "item_id", [Get(item, "item_id") EXCEPT !.lower = FALSE]),
   ItemEdit(value, "ciphertext", [Get(item, "ciphertext") EXCEPT !.strict = FALSE]),
   ItemEdit(value, "note", Text("x")), ItemEdit(value, "hashes", Map(<< >>)),
   HashEdit(value, "md5", B64(32)), HashEdit(value, "md5", B64(16)),
   HashEdit(value, "__proto__", B64(32)), HashEdit(value, "sha2-256", B64(32)),
   HashEdit(value, "sha2-256", Num(1)),
   EnvelopeEdit(value, "scheme", Num(2)), EnvelopeEdit(value, "aead", Text("aes-256-gcm")),
   EnvelopeEdit(value, "kem", Text("x448")), EnvelopeEdit(value, "nonce", B64(12)),
   EnvelopeEdit(value, "nonce", B64(24)), EnvelopeEdit(value, "slots_mac", B64(31)),
   EnvelopeEdit(value, "slots", Arr(<< >>)), EnvelopeEdit(value, "slots", Null),
   EnvelopeEdit(value, "slots", Arr(<< slots[1], slots[1] >>)),
   EnvelopeEdit(value, "slots", Arr(<< slots[Len(slots)] >>)),
   SlotEdit(value, "wrap", B64(40)), SlotEdit(value, field, B64(31)),
   SlotEdit(value, IF field = "epk" THEN "kem_ct" ELSE "epk", B64(32)),
   SlotEdit(value, IF field = "epk" THEN "kem_ct" ELSE "epk", Null),
   With(value, "kem", Text("x448")), With(value, "version", Text("v2")),
   With(value, "items", Arr(<< >>)), Without(value, "kem"),
   With(value, "items", Arr(<< item, item >>))}
Text31 == Text("abc")
MCEdits(json) ==
  {[json EXCEPT !.form = "variant"], [json EXCEPT !.form = "broken"],
   canonicalJson(Without(json.value, "prepared_sha256")),
   canonicalJson(With(json.value, "prepared_sha256", Text31)), canonicalJson(Null)}
  \cup {canonicalJson(v) : v \in Values(json.value)}
  \cup {Reprinted(v) : v \in Values(json.value)}

-----------------------------------------------------------------------------
NoCall == [path |-> "none", plaintext |-> << >>]
NoPreparation == [path |-> "none"]
Init == \/ StreamInit /\ preparation = NoPreparation /\ PreparedIdle
        \/ PreparedInit /\ call = NoCall /\ StreamIdle
Next == \/ preparation = NoPreparation /\ StreamNext /\ UNCHANGED preparedVars
        \/ call = NoCall /\ PreparedNext /\ UNCHANGED streamVars
Spec == Init /\ [][Next]_<< streamVars, preparedVars >>
=============================================================================
