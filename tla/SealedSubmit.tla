---------------------------- MODULE SealedSubmit ----------------------------
(***************************************************************************)
(* Priced publishing in the TypeScript SDK: submitSealed() and its         *)
(* passphrase twin (packages/sdk-ts/src/client/sealed.ts), and             *)
(* publishMerkle() (publish.ts).                                           *)
(*                                                                         *)
(* A call takes an artifact that exists already: a prepared seal with one  *)
(* ciphertext per item, or a batch with one leaves-list.  It locks a       *)
(* price, stores the items one by one, renews the lock, signs and          *)
(* publishes.  Calls of one application or of several may overlap, and     *)
(* each may fail or die at any await; the caller retries with the receipts *)
(* it was given.                                                           *)
(*                                                                         *)
(* Simplifications.  An upload, single-shot or resumable, is one step,     *)
(* answered or lost with or without its effect (ResumableUpload models the *)
(* inside).  Signatures are deterministic, so a record is its artifact and *)
(* its URIs.  A quote is fresh, stale (less than QUOTE_EXPIRY_SKEW_MS      *)
(* left) or expired; apart from uploads and, where SlowSigner says so, the *)
(* signer, what a call does after testing a quote takes less than the skew.*)
(***************************************************************************)
EXTENDS Integers, Sequences, FiniteSets

CONSTANTS
  NCalls,      \* calls made, in all
  Artifacts,   \* prepared seals and leaves-lists
  Batches,     \* the leaves-lists among them
  Items,       \* items of a prepared seal
  Prices,      \* what the gateway may ask
  Cap,         \* input.maxUsdMicros
  NQuotes,     \* quotes the gateway issues, in all
  SlowSigner   \* may signer.sign() take longer than the skew?

ASSUME SubmitAssumption ==
  /\ NCalls \in Nat \ {0}
  /\ Artifacts \subseteq Nat
  /\ Batches \subseteq Artifacts
  /\ Items \in Nat \ {0}
  /\ Prices \subseteq Nat
  /\ Cap \in Nat
  /\ NQuotes \in Nat
  /\ SlowSigner \in BOOLEAN

Calls == 1..NCalls
None  == 0

VARIABLES
  (* the calls *)
  pc, artifact,
  resumed,    \* validated receipts not yet folded into `uploads': item -> uri
  uploads,    \* receipts in item order, as the call builds them
  quote,      \* the price lock, or the preview before it is tested
  margin,     \* had the lock the skew left when it was last tested?
  returned,   \* the receipts carried by the call's result or error
  (* the caller *)
  kept,       \* receipts it holds
  (* the gateway *)
  quotes, stores, debits,
  (* history *)
  earned      \* receipts of a call: the valid ones it was passed and those it completed

lockVars    == <<quote, margin>>
workVars    == <<artifact, resumed, uploads, earned>>
outcomeVars == <<returned, kept>>
gatewayVars == <<quotes, stores, debits>>
vars == <<pc, workVars, lockVars, outcomeVars, gatewayVars>>

Running == {"quote", "upload", "refresh", "sign", "publish"}
ItemsOf(a) == IF a \in Batches THEN 1..1 ELSE 1..Items
Receipt(a, i, u) == [artifact |-> a, item |-> i, uri |-> u]

-----------------------------------------------------------------------------
(* Receipts.                                                               *)

(* The receipts of a call that it has not folded in yet, in item order: a  *)
(* set of one list.                                                        *)
ReceiptsInIndexOrder(c) ==
  LET rest == {i \in ItemsOf(artifact[c]) : resumed[c][i] # None}
      n    == Cardinality(rest)
  IN {[k \in 1..n |-> Receipt(artifact[c], f[k], resumed[c][f[k]])] :
        f \in {g \in [1..n -> rest] : \A j, k \in 1..n : j < k => g[j] < g[k]}}

(* validateReceipts(): one receipt at most per item of this artifact.  The *)
(* receipts the caller holds are the gateway's; a wrong digest, length or  *)
(* uri is as foreign as a receipt of another artifact.                     *)
ValidReceipts(a, offered) ==
  /\ \A r \in offered : r.artifact = a
  /\ \A r, s \in offered : r.item = s.item => r = s

TokenOf(offered, i) ==
  IF \E r \in offered : r.item = i THEN (CHOOSE r \in offered : r.item = i).uri ELSE None

-----------------------------------------------------------------------------
Init ==
  /\ pc = [c \in Calls |-> "idle"]
  /\ artifact = [c \in Calls |-> None]
  /\ resumed = [c \in Calls |-> [i \in 1..Items |-> None]]
  /\ uploads = [c \in Calls |-> <<>>]
  /\ quote = [c \in Calls |-> None]
  /\ margin = [c \in Calls |-> FALSE]
  /\ returned = [c \in Calls |-> <<>>]
  /\ kept = {}
  /\ quotes = <<>>
  /\ stores = <<>>
  /\ debits = {}
  /\ earned = [c \in Calls |-> {}]

-----------------------------------------------------------------------------
Goto(c, stage) == pc' = [pc EXCEPT ![c] = stage]

(* The call settles and hands its receipts over: publishMerkle() has none. *)
Settle(c, how, receipts) ==
  LET carried == IF artifact[c] \in Batches THEN <<>> ELSE receipts IN
  /\ Goto(c, how)
  /\ returned' = [returned EXCEPT ![c] = carried]
  /\ kept' = kept \cup {carried[k] : k \in DOMAIN carried}

(* The call fails and carries the receipts in hand, those not folded in    *)
(* yet behind those that are.                                              *)
Fail(c) == \E rest \in ReceiptsInIndexOrder(c) : Settle(c, "failed", uploads[c] \o rest)

(* The offline checks passed: a preview may stand in for the first quote. *)
Start(c, a, offered, preview) ==
  /\ pc[c] = "idle"
  /\ ValidReceipts(a, offered)
  /\ a \in Batches => offered = {} /\ preview = None
  /\ Goto(c, "quote")
  /\ artifact' = [artifact EXCEPT ![c] = a]
  /\ resumed' = [resumed EXCEPT ![c] = [i \in 1..Items |-> TokenOf(offered, i)]]
  /\ earned' = [earned EXCEPT ![c] = offered]
  /\ quote' = [quote EXCEPT ![c] = preview]
  /\ UNCHANGED <<uploads, margin, outcomeVars, gatewayVars>>

(* The signer, the cap or `supersedes' is malformed, before any receipt is *)
(* looked at, or a receipt is foreign, or damaged, or there twice: such a  *)
(* one stands beside those of `offered', which may be validated by then.   *)
Rejected(c, a, offered) ==
  /\ pc[c] = "idle"
  /\ a \notin Batches
  /\ Goto(c, "rejected")
  /\ artifact' = [artifact EXCEPT ![c] = a]
  /\ \E checked \in SUBSET {r \in offered : r.artifact = a} :
       earned' = [earned EXCEPT ![c] = checked]
  /\ UNCHANGED <<resumed, uploads, lockVars, outcomeVars, gatewayVars>>

-----------------------------------------------------------------------------
(* The price lock.                                                         *)

QuoteIsFreshWithoutSkew(q) == q # None /\ quotes[q].stage # "expired"

QuoteIsFresh(q) == q # None /\ quotes[q].stage = "fresh"

WithinCap(price) == price <= Cap

(* The gateway issues a quote. *)
PostQuote(price) ==
  /\ Len(quotes) < NQuotes
  /\ quotes' = Append(quotes, [price |-> price, stage |-> "fresh", used |-> FALSE])
  /\ UNCHANGED <<stores, debits>>

(* A quote has been taken; the call goes on if its price is under the cap. *)
Lock(c, q, price, had, next) ==
  /\ quote' = [quote EXCEPT ![c] = q]
  /\ margin' = [margin EXCEPT ![c] = had]
  /\ \/ /\ WithinCap(price)
        /\ Goto(c, next)
        /\ UNCHANGED outcomeVars
     \/ /\ ~WithinCap(price)
        /\ Fail(c)

LockFirst(c) ==
  /\ pc[c] = "quote"
  /\ \/ /\ QuoteIsFresh(quote[c])
        /\ Lock(c, quote[c], quotes[quote[c]].price, quotes[quote[c]].stage = "fresh", "upload")
        /\ UNCHANGED gatewayVars
     \/ /\ ~QuoteIsFresh(quote[c])
        /\ \E price \in Prices :
             PostQuote(price) /\ Lock(c, Len(quotes) + 1, price, TRUE, "upload")
  /\ UNCHANGED workVars

(* refreshQuoteIfStale() *)
RefreshUncapped(c) ==
  /\ pc[c] = "refresh"
  /\ \/ /\ QuoteIsFresh(quote[c])
        /\ Goto(c, "sign")
        /\ margin' = [margin EXCEPT ![c] = quotes[quote[c]].stage = "fresh"]
        /\ UNCHANGED <<quote, gatewayVars>>
     \/ /\ ~QuoteIsFresh(quote[c])
        /\ \E price \in Prices : PostQuote(price)
        /\ Goto(c, "sign")
        /\ quote' = [quote EXCEPT ![c] = Len(quotes) + 1]
        /\ margin' = [margin EXCEPT ![c] = TRUE]
  /\ UNCHANGED <<workVars, outcomeVars>>

Refresh(c) ==
  /\ pc[c] = "refresh"
  /\ \/ /\ QuoteIsFresh(quote[c])
        /\ Goto(c, "sign")
        /\ margin' = [margin EXCEPT ![c] = quotes[quote[c]].stage = "fresh"]
        /\ UNCHANGED <<quote, outcomeVars, gatewayVars>>
     \/ /\ ~QuoteIsFresh(quote[c])
        /\ \E price \in Prices :
             PostQuote(price) /\ Lock(c, Len(quotes) + 1, price, TRUE, "sign")
  /\ UNCHANGED workVars

(* A request fails, or the signer does: every receipt in hand is carried.  *)
StepFails(c) ==
  /\ pc[c] \in {"quote", "refresh", "sign"}
  /\ Fail(c)
  /\ UNCHANGED <<workVars, lockVars, gatewayVars>>

-----------------------------------------------------------------------------
(* The uploads, one item after the other.                                  *)

NextItem(c) == Len(uploads[c]) + 1

Push(c, u) ==
  /\ uploads' = [uploads EXCEPT ![c] = Append(@, Receipt(artifact[c], NextItem(c), u))]
  /\ Goto(c, IF NextItem(c) + 1 \in ItemsOf(artifact[c]) THEN "upload" ELSE "refresh")

(* The idempotency key: derived from the artifact and the item's index. *)
UploadKeyPerCall(c) == <<c, NextItem(c)>>

UploadKey(c) == <<artifact[c], NextItem(c)>>

(* A validated receipt replaces the upload. *)
SkipUploadedKeepingToken(c) ==
  /\ pc[c] = "upload"
  /\ resumed[c][NextItem(c)] # None
  /\ Push(c, resumed[c][NextItem(c)])
  /\ UNCHANGED <<artifact, resumed, earned, lockVars, outcomeVars, gatewayVars>>

SkipUploadedOutOfOrder(c) ==
  /\ pc[c] = "upload"
  /\ \E i \in ItemsOf(artifact[c]) :
       /\ resumed[c][i] # None
       /\ Push(c, resumed[c][i])
       /\ resumed' = [resumed EXCEPT ![c][i] = None]
  /\ UNCHANGED <<artifact, earned, lockVars, outcomeVars, gatewayVars>>

SkipUploaded(c) ==
  /\ pc[c] = "upload"
  /\ resumed[c][NextItem(c)] # None
  /\ Push(c, resumed[c][NextItem(c)])
  /\ resumed' = [resumed EXCEPT ![c][NextItem(c)] = None]
  /\ UNCHANGED <<artifact, earned, lockVars, outcomeVars, gatewayVars>>

(* The gateway charges for a key once and replays it ever after. *)
Uri(key) ==
  IF \E u \in DOMAIN stores : stores[u].key = key
  THEN CHOOSE u \in DOMAIN stores : stores[u].key = key
  ELSE Len(stores) + 1

StoreItem(c) ==
  /\ IF \E u \in DOMAIN stores : stores[u].key = UploadKey(c)
     THEN UNCHANGED stores
     ELSE stores' = Append(stores, [key |-> UploadKey(c),
                                    artifact |-> artifact[c], item |-> NextItem(c)])
  /\ UNCHANGED <<quotes, debits>>

UploadAnswered(c) ==
  /\ pc[c] = "upload"
  /\ resumed[c][NextItem(c)] = None
  /\ StoreItem(c)
  /\ Push(c, Uri(UploadKey(c)))
  /\ earned' = [earned EXCEPT ![c] =
                  @ \cup {Receipt(artifact[c], NextItem(c), Uri(UploadKey(c)))}]
  /\ UNCHANGED <<artifact, resumed, lockVars, outcomeVars>>

UploadFailsForgetful(c) ==
  /\ pc[c] = "upload"
  /\ resumed[c][NextItem(c)] = None
  /\ StoreItem(c) \/ UNCHANGED gatewayVars
  /\ Settle(c, "failed", uploads[c])
  /\ UNCHANGED <<workVars, lockVars>>

UploadFails(c) ==
  /\ pc[c] = "upload"
  /\ resumed[c][NextItem(c)] = None
  /\ StoreItem(c) \/ UNCHANGED gatewayVars
  /\ Fail(c)
  /\ UNCHANGED <<workVars, lockVars>>

-----------------------------------------------------------------------------
(* encodeSealedRecord() and postPublish().                                 *)

Signed(c) ==
  /\ pc[c] = "sign"
  /\ Goto(c, "publish")
  /\ UNCHANGED <<workVars, lockVars, outcomeVars, gatewayVars>>

Record(c) == [artifact |-> artifact[c], uris |-> [k \in DOMAIN uploads[c] |-> uploads[c][k].uri]]

Known(record) == \E d \in debits : d.record = record

(* The gateway takes a record it does not know against an unspent, live    *)
(* quote, and answers for one that it knows without charging again.        *)
Accept(c) ==
  \/ /\ ~Known(Record(c))
     /\ ~quotes[quote[c]].used
     /\ quotes[quote[c]].stage # "expired"
     /\ debits' = debits \cup {[record |-> Record(c), quote |-> quote[c]]}
     /\ quotes' = [quotes EXCEPT ![quote[c]].used = TRUE]
     /\ UNCHANGED stores
  \/ /\ Known(Record(c))
     /\ UNCHANGED gatewayVars

PublishAnswered(c) ==
  /\ pc[c] = "publish"
  /\ Accept(c)
  /\ Settle(c, "ok", uploads[c])
  /\ UNCHANGED <<workVars, lockVars>>

PublishFails(c) ==
  /\ pc[c] = "publish"
  /\ Accept(c) \/ UNCHANGED gatewayVars
  /\ Settle(c, "failed", uploads[c])
  /\ UNCHANGED <<workVars, lockVars>>

-----------------------------------------------------------------------------
(* The caller's machine, previews and time.                                *)

Crash(c) ==
  /\ pc[c] \in Running
  /\ Goto(c, "crashed")
  /\ UNCHANGED <<workVars, lockVars, outcomeVars, gatewayVars>>

(* quotePreparedSeal(): a quote nobody has consumed yet. *)
Preview ==
  /\ \E price \in Prices : PostQuote(price)
  /\ UNCHANGED <<pc, workVars, lockVars, outcomeVars>>

QuoteAges(q) ==
  /\ \/ /\ quotes[q].stage = "fresh"
        /\ quotes' = [quotes EXCEPT ![q].stage = "stale"]
     \/ /\ quotes[q].stage = "stale"
        /\ \A c \in Calls : quote[c] = q /\ margin[c] /\ pc[c] \in {"sign", "publish"} => SlowSigner
        /\ quotes' = [quotes EXCEPT ![q].stage = "expired"]
  /\ UNCHANGED <<pc, workVars, lockVars, outcomeVars, stores, debits>>

-----------------------------------------------------------------------------
Begin(c) ==
  \E a \in Artifacts, offered \in SUBSET kept :
    \/ \E q \in {None} \cup DOMAIN quotes : Start(c, a, offered, q)
    \/ Rejected(c, a, offered)

Work(c) ==
  \/ LockFirst(c) \/ Refresh(c) \/ StepFails(c)
  \/ SkipUploaded(c) \/ UploadAnswered(c) \/ UploadFails(c)
  \/ Signed(c) \/ PublishAnswered(c) \/ PublishFails(c)

Next ==
  \/ \E c \in Calls : Begin(c) \/ Work(c) \/ Crash(c)
  \/ Preview
  \/ \E q \in DOMAIN quotes : QuoteAges(q)

Spec == Init /\ [][Next]_vars

-----------------------------------------------------------------------------
(* Properties.                                                             *)

Uris     == 1..(NCalls * Items)
Receipts == [artifact : Artifacts, item : 1..Items, uri : Uris]

(* Every variable has its type; in particular no list of receipts is ever  *)
(* longer than the artifact has items.                                     *)
TypeOK ==
  /\ pc \in [Calls -> {"idle", "ok", "failed", "rejected", "crashed"} \cup Running]
  /\ artifact \in [Calls -> Artifacts \cup {None}]
  /\ resumed \in [Calls -> [1..Items -> Uris \cup {None}]]
  /\ quote \in [Calls -> 0..NQuotes]
  /\ margin \in [Calls -> BOOLEAN]
  /\ \A c \in Calls :
       /\ uploads[c] \in Seq(Receipts) /\ Len(uploads[c]) <= Items
       /\ returned[c] \in Seq(Receipts) /\ Len(returned[c]) <= Items
       /\ earned[c] \subseteq Receipts
  /\ kept \subseteq Receipts
  /\ \A q \in DOMAIN quotes :
       quotes[q] \in [price : Prices, stage : {"fresh", "stale", "expired"}, used : BOOLEAN]
  /\ \A u \in DOMAIN stores : stores[u].artifact \in Artifacts /\ stores[u].item \in 1..Items

(* "a crash-and-retry can never double-pay for the same ciphertext upload" *)
(* (sealed.ts:51-52): whatever calls die, fail or overlap, a ciphertext or *)
(* leaves-list is charged for once.                                        *)
StoragePaidOnce ==
  \A u, w \in DOMAIN stores :
    stores[u].artifact = stores[w].artifact /\ stores[u].item = stores[w].item => u = w

(* However often and by however many calls an artifact is submitted, its   *)
(* publication is charged for once.                                        *)
PublishedOnce ==
  \A d, e \in debits : d.record.artifact = e.record.artifact => d = e

(* The cap is "a promise about what gets spent": no record is charged at a *)
(* price above it, whatever the price did while the uploads ran.           *)
CapHolds == \A d \in debits : quotes[d.quote].price <= Cap

(* A published record names, for each of its items, the uri of that item's *)
(* own ciphertext, however receipts and uploads were interleaved.          *)
RecordNamesItsCiphertexts ==
  \A d \in debits : \A i \in ItemsOf(d.record.artifact) :
    LET blob == stores[d.record.uris[i]]
    IN blob.artifact = d.record.artifact /\ blob.item = i

InItemOrder(receipts) ==
  \A j, k \in DOMAIN receipts : j < k => receipts[j].item < receipts[k].item

Carried(c) ==
  /\ {returned[c][k] : k \in DOMAIN returned[c]} = earned[c]
  /\ InItemOrder(returned[c])

(* The error of a submit that got past its offline checks carries, in item *)
(* order, every valid receipt it was passed and every one it completed.    *)
ReceiptsCarried ==
  \A c \in Calls : pc[c] \in {"ok", "failed"} /\ artifact[c] \notin Batches => Carried(c)

(* SubmitSealedError.uploads holds "the caller-passed receipts that        *)
(* validated plus those completed during this call" (sealed.ts:187-189),   *)
(* whichever check threw it.                                               *)
ReceiptsAlwaysCarried ==
  \A c \in Calls : pc[c] \in {"failed", "rejected"} /\ artifact[c] \notin Batches => Carried(c)

(* A record is published against a quote that has not expired.             *)
PublishAgainstLiveQuote ==
  \A c \in Calls : pc[c] = "publish" => quotes[quote[c]].stage # "expired"

=============================================================================
