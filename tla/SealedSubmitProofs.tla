------------------------- MODULE SealedSubmitProofs -------------------------
(***************************************************************************)
(* Proofs about SealedSubmit, for every number of calls, artifacts, items, *)
(* quotes and prices.  SubmitInv is inductive; it says that each receipt   *)
(* anyone holds names the blob it is a receipt of, that blobs have keys of *)
(* their own, and that a call past its first lock has one under the cap.   *)
(* OutcomeInv is inductive beside it; it follows a call's receipts from    *)
(* the offer through the upload loop to what the call hands back when it   *)
(* settles, and gives that lists stay within the items of an artifact and  *)
(* that a lock is live when it is published against.                       *)
(***************************************************************************)
EXTENDS SealedSubmit, FiniteSetTheorems, TLAPS

Names      == Artifacts \cup {None}
AnyReceipt == [artifact : Names, item : Nat, uri : Nat]
AnyQuote   == [price : Prices, stage : {"fresh", "stale", "expired"}, used : BOOLEAN]

CallsTyped ==
  /\ pc \in [Calls -> {"idle", "ok", "failed", "rejected", "crashed"} \cup Running]
  /\ artifact \in [Calls -> Names]
  /\ resumed \in [Calls -> [1..Items -> Nat]]
  /\ uploads \in [Calls -> Seq(AnyReceipt)]
  /\ quote \in [Calls -> Nat]
  /\ margin \in [Calls -> BOOLEAN]
  /\ kept \subseteq AnyReceipt

GatewayTyped ==
  /\ quotes \in Seq(AnyQuote)
  /\ stores \in Seq([key : Names \X Nat, artifact : Names, item : Nat])
  /\ debits \subseteq [record : [artifact : Names, uris : Seq(Nat)], quote : Nat]

Typed == CallsTyped /\ GatewayTyped

(* Every blob is stored under the key of what it is, and under no other's. *)
KeysInv ==
  /\ \A u \in DOMAIN stores : stores[u].key = <<stores[u].artifact, stores[u].item>>
  /\ \A u, w \in DOMAIN stores : stores[u].key = stores[w].key => u = w

(* A receipt names a blob of its artifact and item. *)
Vouched(r) ==
  /\ r.uri \in DOMAIN stores
  /\ stores[r.uri].artifact = r.artifact
  /\ stores[r.uri].item = r.item

(* Receipts are true wherever they are, and a call's are in item order. *)
ReceiptsInv ==
  /\ \A r \in kept : Vouched(r)
  /\ \A c \in Calls, i \in 1..Items :
       resumed[c][i] # None => Vouched(Receipt(artifact[c], i, resumed[c][i]))
  /\ \A c \in Calls : \A k \in DOMAIN uploads[c] :
       /\ uploads[c][k].artifact = artifact[c]
       /\ uploads[c][k].item = k
       /\ Vouched(uploads[c][k])

(* A call starts with nothing, and its upload loop covers the items from   *)
(* first to last.                                                          *)
StagesInv ==
  \A c \in Calls :
    /\ pc[c] = "idle" => \A i \in 1..Items : resumed[c][i] = None
    /\ pc[c] \in {"idle", "quote"} => uploads[c] = <<>>
    /\ pc[c] = "upload" => NextItem(c) \in ItemsOf(artifact[c])
    /\ pc[c] \in {"refresh", "sign", "publish"} => DOMAIN uploads[c] = ItemsOf(artifact[c])

Locked == {"upload", "refresh", "sign", "publish"}

(* A call past its first lock holds one whose price is under the cap. *)
LocksInv ==
  /\ \A c \in Calls : quote[c] # None => quote[c] \in DOMAIN quotes
  /\ \A c \in Calls : pc[c] \in Locked =>
       quote[c] \in DOMAIN quotes /\ quotes[quote[c]].price <= Cap

(* What was charged was locked, complete, and not known before. *)
DebitsInv ==
  /\ \A d \in debits : d.quote \in DOMAIN quotes /\ quotes[d.quote].price <= Cap
  /\ \A d \in debits :
       /\ DOMAIN d.record.uris = ItemsOf(d.record.artifact)
       /\ \A i \in ItemsOf(d.record.artifact) :
            Vouched(Receipt(d.record.artifact, i, d.record.uris[i]))
  /\ \A d, e \in debits : d.record = e.record => d = e

(* Blobs are only added, and a quote keeps its price. *)
StoresGrow == \A u \in DOMAIN stores : u \in DOMAIN stores' /\ stores'[u] = stores[u]

PricesStay ==
  \A q \in DOMAIN quotes : q \in DOMAIN quotes' /\ quotes'[q].price = quotes[q].price

SubmitInv == Typed /\ KeysInv /\ ReceiptsInv /\ StagesInv /\ LocksInv /\ DebitsInv

-----------------------------------------------------------------------------
(* Facts about the operators of the model.                                 *)

(* Items are numbered from one.                                            *)
LEMMA ItemNumbers ==
  ASSUME NEW a
  PROVE  \E m \in Nat \ {0} : m <= Items /\ ItemsOf(a) = 1..m
<1>1. CASE a \in Batches
  <2>1. ItemsOf(a) = 1..1 /\ 1 <= Items
    BY <1>1, SubmitAssumption DEF ItemsOf
  <2> QED
    BY <2>1
<1>2. CASE a \notin Batches
  <2>1. ItemsOf(a) = 1..Items
    BY <1>2 DEF ItemsOf
  <2> QED
    BY <2>1, SubmitAssumption
<1> QED
  BY <1>1, <1>2

(* Storing a blob adds the one of its key if it is new, changes no other,  *)
(* and leaves the uri of the key with that blob.                           *)
LEMMA StoreFacts ==
  ASSUME Typed, KeysInv, NEW c \in Calls, StoreItem(c)
  PROVE  /\ stores' \in Seq([key : Names \X Nat, artifact : Names, item : Nat])
         /\ KeysInv'
         /\ StoresGrow
         /\ Uri(UploadKey(c)) \in DOMAIN stores'
         /\ stores'[Uri(UploadKey(c))].artifact = artifact[c]
         /\ stores'[Uri(UploadKey(c))].item = NextItem(c)
<1> DEFINE key == UploadKey(c)
           blob == [key |-> key, artifact |-> artifact[c], item |-> NextItem(c)]
<1>1. /\ artifact[c] \in Names /\ NextItem(c) \in Nat
      /\ key = <<artifact[c], NextItem(c)>> /\ key \in Names \X Nat
      /\ blob \in [key : Names \X Nat, artifact : Names, item : Nat]
  BY DEF Typed, CallsTyped, GatewayTyped, NextItem, UploadKey
<1>2. CASE \E u \in DOMAIN stores : stores[u].key = key
  <2>1. stores' = stores
    BY <1>2 DEF StoreItem
  <2>2. Uri(key) \in DOMAIN stores /\ stores[Uri(key)].key = key
    BY <1>2 DEF Uri
  <2> QED
    BY <1>1, <2>1, <2>2 DEF Typed, CallsTyped, GatewayTyped, KeysInv, StoresGrow
<1>3. CASE ~\E u \in DOMAIN stores : stores[u].key = key
  <2>1. stores' = Append(stores, blob)
    BY <1>3 DEF StoreItem
  <2>2. Uri(key) = Len(stores) + 1
    BY <1>3 DEF Uri
  <2>3. /\ stores' \in Seq([key : Names \X Nat, artifact : Names, item : Nat])
        /\ DOMAIN stores' = DOMAIN stores \cup {Len(stores) + 1}
        /\ \A u \in DOMAIN stores : stores'[u] = stores[u]
        /\ stores'[Len(stores) + 1] = blob
    BY <1>1, <2>1 DEF Typed, CallsTyped, GatewayTyped
  <2>4. KeysInv'
    BY <1>1, <1>3, <2>3 DEF KeysInv
  <2> QED
    BY <1>1, <2>2, <2>3, <2>4 DEF StoresGrow
<1> QED
  BY <1>2, <1>3

(* Blobs are never removed or replaced, so a receipt stays true.           *)
LEMMA VouchedStays ==
  ASSUME StoresGrow, NEW r, Vouched(r)
  PROVE  Vouched(r)'
BY DEF Vouched, StoresGrow

(* What a call hands over is all the caller gets.                          *)
LEMMA SettleFacts ==
  ASSUME Typed, ReceiptsInv, NEW c \in Calls, NEW how,
         NEW receipts \in Seq(AnyReceipt),
         \A k \in DOMAIN receipts : Vouched(receipts[k]),
         Settle(c, how, receipts)
  PROVE  /\ pc' = [pc EXCEPT ![c] = how]
         /\ kept' \subseteq AnyReceipt
         /\ \A r \in kept' : Vouched(r)
<1> DEFINE carried == IF artifact[c] \in Batches THEN <<>> ELSE receipts
<1>1. carried \in Seq(AnyReceipt) /\ \A k \in DOMAIN carried : Vouched(carried[k])
  OBVIOUS
<1>2. kept' = kept \cup {carried[k] : k \in DOMAIN carried}
  BY DEF Settle
<1>3. pc' = [pc EXCEPT ![c] = how]
  BY DEF Settle, Goto
<1> HIDE DEF carried
<1>4. \A k \in DOMAIN carried : carried[k] \in AnyReceipt
  BY <1>1
<1>5. \A r \in kept : r \in AnyReceipt /\ Vouched(r)
  BY DEF Typed, CallsTyped, GatewayTyped, ReceiptsInv
<1>6. \A r \in kept' : r \in AnyReceipt /\ Vouched(r)
  BY <1>1, <1>2, <1>4, <1>5, Zenon
<1> QED
  BY <1>3, <1>6

(* So it is when a call fails: the receipts it carries are true ones.      *)
LEMMA FailFacts ==
  ASSUME Typed, ReceiptsInv, NEW c \in Calls, Fail(c)
  PROVE  /\ pc' = [pc EXCEPT ![c] = "failed"]
         /\ kept' \subseteq AnyReceipt
         /\ \A r \in kept' : Vouched(r)
<1> DEFINE R == {i \in ItemsOf(artifact[c]) : resumed[c][i] # None}
           n == Cardinality(R)
<1>1. PICK rest \in ReceiptsInIndexOrder(c) : Settle(c, "failed", uploads[c] \o rest)
  BY DEF Fail
<1>2. PICK f \in [1..n -> R] :
        rest = [k \in 1..n |-> Receipt(artifact[c], f[k], resumed[c][f[k]])]
  BY <1>1 DEF ReceiptsInIndexOrder
<1>3. R \subseteq 1..Items
  BY ItemNumbers, SubmitAssumption
<1>4. ASSUME NEW i \in R
      PROVE  /\ Receipt(artifact[c], i, resumed[c][i]) \in AnyReceipt
             /\ Vouched(Receipt(artifact[c], i, resumed[c][i]))
  <2>1. i \in 1..Items /\ resumed[c][i] # None
    BY <1>3
  <2>2. artifact[c] \in Names /\ resumed[c][i] \in Nat
    BY <2>1 DEF Typed, CallsTyped, GatewayTyped
  <2>3. Receipt(artifact[c], i, resumed[c][i]) \in AnyReceipt
    BY <2>1, <2>2 DEF Receipt, AnyReceipt
  <2> QED
    BY <2>1, <2>3 DEF ReceiptsInv
<1>5. n \in Nat
  <2>1. IsFiniteSet(1..Items) /\ R \subseteq 1..Items
    BY <1>3, SubmitAssumption, FS_Interval
  <2> QED
    BY <2>1, FS_Subset, FS_CardinalityType
<1> HIDE DEF R, n
<1>6. /\ DOMAIN rest = 1..n
      /\ \A k \in 1..n : rest[k] \in AnyReceipt /\ Vouched(rest[k])
  BY <1>2, <1>4
<1>7. rest \in Seq(AnyReceipt) /\ Len(rest) = n
  BY <1>2, <1>5, <1>6
<1>8. /\ uploads[c] \in Seq(AnyReceipt)
      /\ \A k \in DOMAIN uploads[c] : Vouched(uploads[c][k])
  BY DEF Typed, CallsTyped, GatewayTyped, ReceiptsInv
<1>9. /\ uploads[c] \o rest \in Seq(AnyReceipt)
      /\ \A k \in DOMAIN (uploads[c] \o rest) : Vouched((uploads[c] \o rest)[k])
  BY <1>6, <1>7, <1>8
<1> QED
  BY <1>1, <1>9, SettleFacts

(* A new quote adds to the quotes and changes nothing else.                *)
LEMMA QuoteFacts ==
  ASSUME Typed, NEW price \in Prices, PostQuote(price)
  PROVE  /\ quotes' \in Seq(AnyQuote)
         /\ DOMAIN quotes' = DOMAIN quotes \cup {Len(quotes) + 1}
         /\ \A q \in DOMAIN quotes : quotes'[q] = quotes[q]
         /\ quotes'[Len(quotes) + 1].price = price
         /\ Len(quotes) \in Nat
         /\ UNCHANGED <<stores, debits>>
BY DEF Typed, CallsTyped, GatewayTyped, PostQuote, AnyQuote

-----------------------------------------------------------------------------
(* The parts of SubmitInv that a step leaves alone.                        *)

(* A call moves on to a stage it is ready for, with its uploads as they    *)
(* were.                                                                   *)
LEMMA CallMoves ==
  ASSUME SubmitInv, NEW c \in Calls, NEW stage \in {"ok", "failed", "crashed"} \cup Running,
         pc[c] # "idle", pc' = [pc EXCEPT ![c] = stage],
         stage = "quote" => uploads[c] = <<>>,
         stage = "upload" => NextItem(c) \in ItemsOf(artifact[c]),
         stage \in {"refresh", "sign", "publish"} => DOMAIN uploads[c] = ItemsOf(artifact[c]),
         UNCHANGED <<artifact, resumed, uploads>>
  PROVE  /\ pc' \in [Calls -> {"idle", "ok", "failed", "rejected", "crashed"} \cup Running]
         /\ StagesInv'
<1>1. pc' \in [Calls -> {"idle", "ok", "failed", "rejected", "crashed"} \cup Running]
  BY DEF SubmitInv, Typed, CallsTyped, GatewayTyped
<1>2. ASSUME NEW d \in Calls
      PROVE  StagesInv!(d)'
  <2>1. CASE d = c
    BY <2>1 DEF SubmitInv, Typed, CallsTyped, GatewayTyped, StagesInv, Running, NextItem
  <2>2. CASE d # c
    BY <2>2 DEF SubmitInv, Typed, CallsTyped, GatewayTyped, StagesInv, NextItem
  <2> QED
    BY <2>1, <2>2
<1> QED
  BY <1>1, <1>2 DEF StagesInv

LEMMA ReceiptsStay ==
  ASSUME Typed, ReceiptsInv, UNCHANGED <<artifact, resumed, uploads>>, StoresGrow,
         \A r \in kept' : Vouched(r)
  PROVE  ReceiptsInv'
<1>1. \A r \in kept' : Vouched(r)'
  BY VouchedStays
<1>2. ASSUME NEW c \in Calls, NEW i \in 1..Items, resumed[c][i] # None
      PROVE  Vouched(Receipt(artifact[c], i, resumed[c][i]))'
  <2>1. Vouched(Receipt(artifact[c], i, resumed[c][i]))
    BY <1>2 DEF ReceiptsInv
  <2> QED
    BY <2>1 DEF Vouched, Receipt, StoresGrow
<1>3. ASSUME NEW c \in Calls, NEW k \in DOMAIN uploads[c]
      PROVE  Vouched(uploads[c][k])'
  <2>1. Vouched(uploads[c][k])
    BY <1>3 DEF ReceiptsInv
  <2> QED
    BY <2>1 DEF Vouched, StoresGrow
<1> QED
  BY <1>1, <1>2, <1>3 DEF ReceiptsInv

LEMMA QuoteEdited ==
  ASSUME GatewayTyped, NEW q \in DOMAIN quotes, NEW new \in AnyQuote,
         new.price = quotes[q].price, quotes' = [quotes EXCEPT ![q] = new]
  PROVE  quotes' \in Seq(AnyQuote) /\ PricesStay
BY DEF GatewayTyped, PricesStay

LEMMA LocksStay ==
  ASSUME Typed, LocksInv, UNCHANGED quote, PricesStay,
         \A c \in Calls : pc'[c] \in Locked => pc[c] \in Locked
  PROVE  LocksInv'
BY DEF LocksInv, PricesStay

LEMMA DebitsStay ==
  ASSUME DebitsInv, UNCHANGED debits, PricesStay, StoresGrow
  PROVE  DebitsInv'
<1>1. ASSUME NEW d \in debits
      PROVE  /\ d.quote \in DOMAIN quotes' /\ quotes'[d.quote].price <= Cap
             /\ DOMAIN d.record.uris = ItemsOf(d.record.artifact)
             /\ \A i \in ItemsOf(d.record.artifact) :
                  Vouched(Receipt(d.record.artifact, i, d.record.uris[i]))'
  BY <1>1, VouchedStays DEF DebitsInv, PricesStay
<1> QED
  BY <1>1 DEF DebitsInv

-----------------------------------------------------------------------------
(* One lemma per kind of step.                                             *)

(* A call settles, with true receipts, whatever the gateway did meanwhile  *)
(* to its blobs and its quotes.                                            *)
LEMMA CallSettles ==
  ASSUME SubmitInv, NEW c \in Calls, pc[c] # "idle", NEW how \in {"ok", "failed", "crashed"},
         pc' = [pc EXCEPT ![c] = how],
         kept' \subseteq AnyReceipt, \A r \in kept' : Vouched(r),
         UNCHANGED <<artifact, resumed, uploads, quote, margin>>,
         GatewayTyped', KeysInv', DebitsInv', StoresGrow, PricesStay
  PROVE  SubmitInv'
<1>1. pc' \in [Calls -> {"idle", "ok", "failed", "rejected", "crashed"} \cup Running] /\ StagesInv'
  BY CallMoves DEF Running
<1>2. Typed'
  BY <1>1 DEF SubmitInv, Typed, CallsTyped, GatewayTyped
<1>3. ReceiptsInv'
  BY ReceiptsStay DEF SubmitInv
<1>4. \A d \in Calls : pc'[d] \in Locked => pc[d] \in Locked
  BY DEF SubmitInv, Typed, CallsTyped, GatewayTyped, Locked
<1>5. LocksInv'
  BY <1>4, LocksStay DEF SubmitInv
<1> QED
  BY <1>1, <1>2, <1>3, <1>5 DEF SubmitInv

(* A step that leaves the blobs and the charges alone.                     *)
LEMMA GatewayRests ==
  ASSUME SubmitInv, UNCHANGED <<stores, debits>>, PricesStay,
         quotes' \in Seq(AnyQuote)
  PROVE  GatewayTyped' /\ KeysInv' /\ DebitsInv' /\ StoresGrow
<1>1. StoresGrow
  BY DEF StoresGrow
<1>2. DebitsInv'
  BY <1>1, DebitsStay DEF SubmitInv
<1> QED
  BY <1>1, <1>2 DEF SubmitInv, Typed, GatewayTyped, KeysInv

LEMMA CallFails ==
  ASSUME SubmitInv, NEW c \in Calls, StepFails(c) \/ UploadFails(c) \/ Crash(c)
  PROVE  SubmitInv'
<1>1. CASE StepFails(c) \/ Crash(c)
  <2>1. UNCHANGED gatewayVars /\ UNCHANGED <<artifact, resumed, uploads, quote, margin>>
        /\ pc[c] # "idle"
    BY <1>1 DEF StepFails, Crash, workVars, lockVars, gatewayVars, Running
  <2>2. PricesStay
    BY <2>1 DEF PricesStay, gatewayVars
  <2>3. GatewayTyped' /\ KeysInv' /\ DebitsInv' /\ StoresGrow
    BY <2>1, <2>2, GatewayRests DEF gatewayVars, SubmitInv, Typed, GatewayTyped
  <2>4. CASE StepFails(c)
    <3>1. Fail(c)
      BY <2>4 DEF StepFails
    <3> QED
      BY <2>1, <2>2, <2>3, <3>1, FailFacts, CallSettles DEF SubmitInv
  <2>5. CASE Crash(c)
    <3>1. pc' = [pc EXCEPT ![c] = "crashed"] /\ kept' = kept
      BY <2>5 DEF Crash, Goto, outcomeVars
    <3>2. kept' \subseteq AnyReceipt /\ \A r \in kept' : Vouched(r)
      BY <3>1 DEF SubmitInv, Typed, CallsTyped, ReceiptsInv
    <3> QED
      BY <2>1, <2>2, <2>3, <3>1, <3>2, CallSettles
  <2> QED
    BY <1>1, <2>4, <2>5
<1>2. CASE UploadFails(c)
  <2>1. /\ Fail(c) /\ pc[c] # "idle"
        /\ UNCHANGED <<artifact, resumed, uploads, quote, margin, quotes, debits>>
        /\ StoreItem(c) \/ UNCHANGED stores
    BY <1>2 DEF UploadFails, StoreItem, workVars, lockVars, gatewayVars
  <2>2. PricesStay
    BY <2>1 DEF PricesStay
  <2>3. /\ stores' \in Seq([key : Names \X Nat, artifact : Names, item : Nat])
        /\ KeysInv' /\ StoresGrow
    BY <2>1, StoreFacts DEF SubmitInv, Typed, GatewayTyped, KeysInv, StoresGrow
  <2>4. GatewayTyped' /\ DebitsInv'
    BY <2>1, <2>2, <2>3, DebitsStay DEF SubmitInv, Typed, GatewayTyped
  <2> QED
    BY <2>1, <2>2, <2>3, <2>4, FailFacts, CallSettles DEF SubmitInv
<1> QED
  BY <1>1, <1>2

(* The gateway charges a locked price once per record.                     *)
LEMMA AcceptFacts ==
  ASSUME SubmitInv, NEW c \in Calls, pc[c] = "publish", Accept(c) \/ UNCHANGED gatewayVars
  PROVE  GatewayTyped' /\ DebitsInv' /\ UNCHANGED stores /\ PricesStay
<1> DEFINE q == quote[c]
           charge == [record |-> Record(c), quote |-> q]
<1>1. q \in DOMAIN quotes /\ quotes[q].price <= Cap
  BY DEF SubmitInv, LocksInv, Locked
<1>2. CASE UNCHANGED gatewayVars
  BY <1>2 DEF gatewayVars, SubmitInv, Typed, GatewayTyped, DebitsInv, PricesStay, Vouched
<1>3. CASE /\ ~Known(Record(c))
           /\ debits' = debits \cup {charge}
           /\ quotes' = [quotes EXCEPT ![q].used = TRUE]
           /\ UNCHANGED stores
  <2>1. /\ uploads[c] \in Seq(AnyReceipt) /\ artifact[c] \in Names /\ q \in Nat
        /\ DOMAIN uploads[c] = ItemsOf(artifact[c])
        /\ \A k \in DOMAIN uploads[c] :
             /\ uploads[c][k].artifact = artifact[c]
             /\ uploads[c][k].item = k
             /\ Vouched(uploads[c][k])
    BY DEF SubmitInv, Typed, CallsTyped, ReceiptsInv, StagesInv
  <2>2. /\ Record(c).artifact = artifact[c]
        /\ Record(c).uris = [k \in DOMAIN uploads[c] |-> uploads[c][k].uri]
    BY DEF Record
  <2>3. Record(c).uris \in Seq(Nat)
    <3>1. PICK m \in Nat : DOMAIN uploads[c] = 1..m
      BY <2>1, ItemNumbers
    <3>2. \A k \in 1..m : uploads[c][k].uri \in Nat
      <4>1. \A k \in 1..m : uploads[c][k] \in AnyReceipt
        BY <2>1, <3>1
      <4> QED
        BY <4>1 DEF AnyReceipt
    <3>3. Record(c).uris \in [1..m -> Nat]
      BY <2>2, <3>1, <3>2
    <3> QED
      BY <3>1, <3>3
  <2>4. Record(c) \in [artifact : Names, uris : Seq(Nat)]
    BY <2>1, <2>3 DEF Record
  <2>5. quotes' \in Seq(AnyQuote) /\ PricesStay
    <3>1. quotes[q] \in AnyQuote
      BY <1>1 DEF SubmitInv, Typed, GatewayTyped
    <3>2. /\ [quotes[q] EXCEPT !.used = TRUE] \in AnyQuote
          /\ [quotes[q] EXCEPT !.used = TRUE].price = quotes[q].price
      BY <3>1 DEF AnyQuote
    <3>3. quotes' = [quotes EXCEPT ![q] = [quotes[q] EXCEPT !.used = TRUE]]
      BY <1>3
    <3> QED
      BY <1>1, <3>2, <3>3, QuoteEdited DEF SubmitInv, Typed
  <2>6. GatewayTyped'
    BY <1>3, <2>1, <2>4, <2>5 DEF SubmitInv, Typed, GatewayTyped
  <2>7. \A i \in ItemsOf(artifact[c]) : Vouched(Receipt(artifact[c], i, Record(c).uris[i]))
    BY <2>1, <2>2 DEF Vouched, Receipt
  <2>8. ASSUME NEW d \in debits'
        PROVE  /\ d.quote \in DOMAIN quotes' /\ quotes'[d.quote].price <= Cap
               /\ DOMAIN d.record.uris = ItemsOf(d.record.artifact)
               /\ \A i \in ItemsOf(d.record.artifact) :
                    Vouched(Receipt(d.record.artifact, i, d.record.uris[i]))
    <3>1. CASE d \in debits
      BY <2>5, <3>1 DEF SubmitInv, DebitsInv, PricesStay
    <3>2. CASE d = charge
      BY <1>1, <2>1, <2>2, <2>5, <2>7, <3>2 DEF PricesStay
    <3> QED
      BY <1>3, <3>1, <3>2
  <2>9. ASSUME NEW d \in debits', NEW e \in debits', d.record = e.record
        PROVE  d = e
    BY <1>3, <2>9 DEF SubmitInv, DebitsInv, Known
  <2>10. DebitsInv'
    BY <1>3, <2>8, <2>9 DEF DebitsInv, Vouched
  <2> QED
    BY <1>3, <2>5, <2>6, <2>10
<1> QED
  BY <1>2, <1>3 DEF Accept

LEMMA CallPublishes ==
  ASSUME SubmitInv, NEW c \in Calls, PublishAnswered(c) \/ PublishFails(c)
  PROVE  SubmitInv'
<1>1. PICK how \in {"ok", "failed"} : Settle(c, how, uploads[c])
  BY DEF PublishAnswered, PublishFails
<1>2. /\ pc[c] = "publish"
      /\ Accept(c) \/ UNCHANGED gatewayVars
      /\ UNCHANGED <<artifact, resumed, uploads, quote, margin>>
  BY DEF PublishAnswered, PublishFails, workVars, lockVars
<1>3. GatewayTyped' /\ DebitsInv' /\ UNCHANGED stores /\ PricesStay
  BY <1>2, AcceptFacts
<1>4. KeysInv' /\ StoresGrow
  BY <1>3 DEF SubmitInv, KeysInv, StoresGrow
<1>5. uploads[c] \in Seq(AnyReceipt) /\ \A k \in DOMAIN uploads[c] : Vouched(uploads[c][k])
  BY DEF SubmitInv, Typed, CallsTyped, ReceiptsInv
<1>6. /\ pc' = [pc EXCEPT ![c] = how]
      /\ kept' \subseteq AnyReceipt
      /\ \A r \in kept' : Vouched(r)
  BY <1>1, <1>5, SettleFacts DEF SubmitInv
<1> QED
  BY <1>2, <1>3, <1>4, <1>6, CallSettles

(* A call goes on to its next stage; it may have taken a new quote, under  *)
(* the cap if the stage needs one.                                         *)
LEMMA CallGoesOn ==
  ASSUME SubmitInv, NEW c \in Calls, NEW stage \in Locked, pc[c] # "idle",
         pc' = [pc EXCEPT ![c] = stage],
         stage = "upload" => NextItem(c) \in ItemsOf(artifact[c]),
         stage # "upload" => DOMAIN uploads[c] = ItemsOf(artifact[c]),
         UNCHANGED <<artifact, resumed, uploads, kept, stores, debits>>,
         NEW q \in DOMAIN quotes', quote' = [quote EXCEPT ![c] = q],
         quotes'[q].price <= Cap, margin' \in [Calls -> BOOLEAN],
         quotes' \in Seq(AnyQuote), PricesStay
  PROVE  SubmitInv'
<1>1. pc' \in [Calls -> {"idle", "ok", "failed", "rejected", "crashed"} \cup Running] /\ StagesInv'
  BY CallMoves DEF Locked, Running
<1>2. GatewayTyped' /\ KeysInv' /\ DebitsInv' /\ StoresGrow
  BY GatewayRests
<1>3. q \in Nat
  BY DEF Typed, GatewayTyped
<1>4. Typed'
  BY <1>1, <1>2, <1>3 DEF SubmitInv, Typed, CallsTyped
<1>5. \A r \in kept' : Vouched(r)
  BY DEF SubmitInv, ReceiptsInv
<1>6. ReceiptsInv'
  BY <1>2, <1>5, ReceiptsStay DEF SubmitInv
<1>7. LocksInv'
  <2>1. ASSUME NEW d \in Calls
        PROVE  /\ quote'[d] # None => quote'[d] \in DOMAIN quotes'
               /\ pc'[d] \in Locked =>
                    quote'[d] \in DOMAIN quotes' /\ quotes'[quote'[d]].price <= Cap
    <3>1. CASE d = c
      BY <3>1 DEF SubmitInv, Typed, CallsTyped
    <3>2. CASE d # c
      BY <3>2 DEF SubmitInv, Typed, CallsTyped, LocksInv, PricesStay
    <3> QED
      BY <3>1, <3>2
  <2> QED
    BY <2>1 DEF LocksInv
<1> QED
  BY <1>1, <1>2, <1>4, <1>6, <1>7 DEF SubmitInv

(* A call takes a quote: it goes on under the cap, and fails above it.     *)
LEMMA CallLocks ==
  ASSUME SubmitInv, NEW c \in Calls, NEW stage, NEW q \in DOMAIN quotes', NEW had \in BOOLEAN,
         \/ pc[c] = "quote" /\ stage = "upload"
         \/ pc[c] = "refresh" /\ stage = "sign",
         Lock(c, q, quotes'[q].price, had, stage),
         UNCHANGED <<artifact, resumed, uploads, stores, debits>>,
         quotes' \in Seq(AnyQuote), PricesStay
  PROVE  SubmitInv'
<1>1. /\ stage = "upload" => NextItem(c) \in ItemsOf(artifact[c])
      /\ stage # "upload" => DOMAIN uploads[c] = ItemsOf(artifact[c])
  <2>1. CASE pc[c] = "quote" /\ stage = "upload"
    <3>1. NextItem(c) = 1
      BY <2>1 DEF SubmitInv, StagesInv, NextItem
    <3> QED
      BY <2>1, <3>1, ItemNumbers
  <2>2. CASE pc[c] = "refresh" /\ stage = "sign"
    BY <2>2 DEF SubmitInv, StagesInv
  <2> QED
    BY <2>1, <2>2
<1>2. pc[c] # "idle" /\ stage \in Locked
  BY DEF Locked
<1>3. /\ quote' = [quote EXCEPT ![c] = q]
      /\ margin' \in [Calls -> BOOLEAN]
  BY DEF Lock, SubmitInv, Typed, CallsTyped
<1>4. CASE quotes'[q].price <= Cap /\ Goto(c, stage) /\ UNCHANGED outcomeVars
  BY <1>1, <1>2, <1>3, <1>4, CallGoesOn DEF Goto, outcomeVars
<1>5. CASE Fail(c)
  <2>1. /\ pc' = [pc EXCEPT ![c] = "failed"]
        /\ kept' \subseteq AnyReceipt
        /\ \A r \in kept' : Vouched(r)
    BY <1>5, FailFacts DEF SubmitInv
  <2>2. pc' \in [Calls -> {"idle", "ok", "failed", "rejected", "crashed"} \cup Running] /\ StagesInv'
    BY <1>2, <2>1, CallMoves DEF Running
  <2>3. GatewayTyped' /\ KeysInv' /\ DebitsInv' /\ StoresGrow
    BY GatewayRests
  <2>4. q \in Nat
    BY DEF GatewayTyped
  <2>5. Typed'
    BY <1>3, <2>1, <2>2, <2>3, <2>4 DEF SubmitInv, Typed, CallsTyped
  <2>6. ReceiptsInv'
    BY <2>1, <2>3, ReceiptsStay DEF SubmitInv
  <2>7. LocksInv'
    <3>1. ASSUME NEW d \in Calls
          PROVE  /\ quote'[d] # None => quote'[d] \in DOMAIN quotes'
                 /\ pc'[d] \in Locked =>
                      quote'[d] \in DOMAIN quotes' /\ quotes'[quote'[d]].price <= Cap
      <4>1. CASE d = c
        BY <1>3, <2>1, <4>1 DEF SubmitInv, Typed, CallsTyped, Locked
      <4>2. CASE d # c
        BY <1>3, <2>1, <4>2 DEF SubmitInv, Typed, CallsTyped, LocksInv, PricesStay
      <4> QED
        BY <4>1, <4>2
    <3> QED
      BY <3>1 DEF LocksInv
  <2> QED
    BY <2>2, <2>3, <2>5, <2>6, <2>7 DEF SubmitInv
<1> QED
  BY <1>4, <1>5 DEF Lock, WithinCap

LEMMA PriceLocked ==
  ASSUME SubmitInv, NEW c \in Calls, LockFirst(c) \/ Refresh(c) \/ Signed(c)
  PROVE  SubmitInv'
<1>1. UNCHANGED <<artifact, resumed, uploads, stores, debits>>
  BY DEF LockFirst, Refresh, Signed, PostQuote, workVars, gatewayVars
<1>2. CASE UNCHANGED quotes
  <2>0. \A price \in Prices : ~PostQuote(price)
    BY <1>2, QuoteFacts DEF SubmitInv, Typed, GatewayTyped
  <2>1. quotes' \in Seq(AnyQuote) /\ PricesStay
    BY <1>2 DEF SubmitInv, Typed, GatewayTyped, PricesStay
  <2>2. CASE Signed(c)
    <3>1. /\ pc[c] = "sign" /\ pc' = [pc EXCEPT ![c] = "publish"]
          /\ quote' = quote /\ margin' = margin /\ kept' = kept
      BY <2>2 DEF Signed, Goto, lockVars, outcomeVars
    <3>2. quote[c] \in DOMAIN quotes' /\ quotes'[quote[c]].price <= Cap
      BY <1>2, <3>1 DEF SubmitInv, LocksInv, Locked
    <3>3. DOMAIN uploads[c] = ItemsOf(artifact[c])
      BY <3>1 DEF SubmitInv, StagesInv
    <3>4. quote' = [quote EXCEPT ![c] = quote[c]] /\ margin' \in [Calls -> BOOLEAN]
      BY <3>1 DEF SubmitInv, Typed, CallsTyped
    <3> QED
      BY <1>1, <2>1, <3>1, <3>2, <3>3, <3>4, CallGoesOn DEF Locked
  <2>3. CASE Refresh(c) /\ ~Signed(c)
    <3>1. /\ pc[c] = "refresh" /\ pc' = [pc EXCEPT ![c] = "sign"]
          /\ quote' = quote /\ margin' = [margin EXCEPT ![c] = quotes[quote[c]].stage = "fresh"]
          /\ kept' = kept
      BY <2>0, <2>3 DEF Refresh, Goto, outcomeVars
    <3>2. quote[c] \in DOMAIN quotes' /\ quotes'[quote[c]].price <= Cap
      BY <1>2, <3>1 DEF SubmitInv, LocksInv, Locked
    <3>3. DOMAIN uploads[c] = ItemsOf(artifact[c])
      BY <3>1 DEF SubmitInv, StagesInv
    <3>4. quote' = [quote EXCEPT ![c] = quote[c]] /\ margin' \in [Calls -> BOOLEAN]
      BY <3>1 DEF SubmitInv, Typed, CallsTyped
    <3> QED
      BY <1>1, <2>1, <3>1, <3>2, <3>3, <3>4, CallGoesOn DEF Locked
  <2>4. CASE LockFirst(c)
    <3>1. /\ pc[c] = "quote" /\ QuoteIsFresh(quote[c])
          /\ Lock(c, quote[c], quotes[quote[c]].price, quotes[quote[c]].stage = "fresh", "upload")
      BY <2>0, <2>4 DEF LockFirst
    <3>2. quote[c] \in DOMAIN quotes'
      BY <1>2, <3>1 DEF QuoteIsFresh, SubmitInv, LocksInv
    <3>3. Lock(c, quote[c], quotes'[quote[c]].price, quotes[quote[c]].stage = "fresh", "upload")
      BY <1>2, <3>1
    <3> QED
      BY <1>1, <2>1, <3>1, <3>2, <3>3, CallLocks
  <2> QED
    BY <2>2, <2>3, <2>4
<1>3. ASSUME NEW price \in Prices, PostQuote(price), NEW stage,
             \/ pc[c] = "quote" /\ stage = "upload"
             \/ pc[c] = "refresh" /\ stage = "sign",
             Lock(c, Len(quotes) + 1, price, TRUE, stage)
      PROVE  SubmitInv'
  <2>1. /\ quotes' \in Seq(AnyQuote) /\ PricesStay
        /\ Len(quotes) + 1 \in DOMAIN quotes'
        /\ quotes'[Len(quotes) + 1].price = price
    BY <1>3, QuoteFacts DEF SubmitInv, PricesStay
  <2>2. Lock(c, Len(quotes) + 1, quotes'[Len(quotes) + 1].price, TRUE, stage)
    BY <1>3, <2>1
  <2> QED
    BY <1>1, <1>3, <2>1, <2>2, CallLocks
<1> QED
  BY <1>2, <1>3 DEF LockFirst, Refresh, Signed, gatewayVars

-----------------------------------------------------------------------------
(* An item is folded in, from a receipt or an upload, as a true receipt.   *)
LEMMA ItemPushed ==
  ASSUME SubmitInv, NEW c \in Calls, pc[c] = "upload", NEW u \in Nat, Push(c, u),
         u \in DOMAIN stores', stores'[u].artifact = artifact[c], stores'[u].item = NextItem(c),
         UNCHANGED <<artifact, quote, margin, kept, quotes, debits>>,
         resumed' \in [Calls -> [1..Items -> Nat]],
         \A d \in Calls, i \in 1..Items :
           resumed'[d][i] # resumed[d][i] => resumed'[d][i] = None /\ d = c,
         GatewayTyped', KeysInv', StoresGrow
  PROVE  SubmitInv'
<1> DEFINE new == Receipt(artifact[c], NextItem(c), u)
           stage == IF NextItem(c) + 1 \in ItemsOf(artifact[c]) THEN "upload" ELSE "refresh"
<1>1. /\ pc' = [pc EXCEPT ![c] = stage]
      /\ uploads' = [uploads EXCEPT ![c] = Append(@, new)]
  BY DEF Push, Goto
<1>2. /\ uploads[c] \in Seq(AnyReceipt) /\ new \in AnyReceipt
      /\ new.artifact = artifact[c] /\ new.item = Len(uploads[c]) + 1 /\ new.uri = u
  <2>1. uploads[c] \in Seq(AnyReceipt) /\ artifact[c] \in Names
    BY DEF SubmitInv, Typed, CallsTyped
  <2>2. NextItem(c) = Len(uploads[c]) + 1 /\ NextItem(c) \in Nat
    BY <2>1 DEF NextItem
  <2> QED
    BY <2>1, <2>2 DEF Receipt, AnyReceipt
<1>3. /\ uploads'[c] \in Seq(AnyReceipt)
      /\ Len(uploads'[c]) = Len(uploads[c]) + 1 /\ Len(uploads[c]) \in Nat
      /\ uploads'[c][Len(uploads[c]) + 1] = new
      /\ \A k \in DOMAIN uploads[c] : uploads'[c][k] = uploads[c][k]
      /\ DOMAIN uploads'[c] = DOMAIN uploads[c] \cup {Len(uploads[c]) + 1}
      /\ \A d \in Calls \ {c} : uploads'[d] = uploads[d] /\ pc'[d] = pc[d]
      /\ pc'[c] = stage
  BY <1>1, <1>2 DEF SubmitInv, Typed, CallsTyped
<1>4. Typed'
  BY <1>1, <1>2 DEF SubmitInv, Typed, CallsTyped, Running
<1>5. StagesInv'
  <2>1. PICK m \in Nat : ItemsOf(artifact[c]) = 1..m
    BY ItemNumbers
  <2>2. Len(uploads[c]) + 1 \in 1..m
    BY <2>1 DEF SubmitInv, StagesInv, NextItem
  <2>3. StagesInv!(c)'
    BY <1>3, <2>1, <2>2 DEF NextItem
  <2>4. ASSUME NEW d \in Calls, d # c
        PROVE  StagesInv!(d)'
    <3>1. uploads'[d] = uploads[d] /\ pc'[d] = pc[d]
      BY <1>3, <2>4
    <3>2. \A i \in 1..Items : resumed'[d][i] = resumed[d][i]
      BY <2>4
    <3> QED
      BY <3>1, <3>2 DEF SubmitInv, StagesInv, NextItem
  <2> QED
    BY <2>3, <2>4 DEF StagesInv
<1>6. ReceiptsInv'
  <2>1. \A r \in kept' : Vouched(r)'
    BY VouchedStays DEF SubmitInv, ReceiptsInv
  <2>2. ASSUME NEW d \in Calls, NEW i \in 1..Items, resumed'[d][i] # None
        PROVE  Vouched(Receipt(artifact[d], i, resumed[d][i]))' /\ resumed'[d][i] = resumed[d][i]
    <3>1. Vouched(Receipt(artifact[d], i, resumed[d][i])) /\ resumed'[d][i] = resumed[d][i]
      BY <2>2 DEF SubmitInv, ReceiptsInv
    <3> QED
      BY <3>1 DEF Vouched, Receipt, StoresGrow
  <2>3. ASSUME NEW d \in Calls, NEW k \in DOMAIN uploads'[d]
        PROVE  /\ uploads'[d][k].artifact = artifact[d]
               /\ uploads'[d][k].item = k
               /\ Vouched(uploads[d][k])'
    <3>1. CASE k \in DOMAIN uploads[d]
      <4>1. /\ uploads'[d][k] = uploads[d][k] /\ Vouched(uploads[d][k])
            /\ uploads[d][k].artifact = artifact[d] /\ uploads[d][k].item = k
        BY <1>3, <3>1 DEF SubmitInv, ReceiptsInv
      <4> QED
        BY <4>1 DEF Vouched, StoresGrow
    <3>2. CASE k \notin DOMAIN uploads[d]
      <4>1. d = c /\ k = Len(uploads[c]) + 1 /\ uploads'[c][k] = new
        BY <1>3, <3>2
      <4> QED
        BY <1>2, <4>1 DEF Vouched, NextItem
    <3> QED
      BY <3>1, <3>2
  <2> QED
    BY <2>1, <2>2, <2>3 DEF ReceiptsInv
<1>7. PricesStay
  BY DEF PricesStay
<1>8. \A d \in Calls : pc'[d] \in Locked => pc[d] \in Locked
  BY <1>3 DEF Locked
<1>9. LocksInv' /\ DebitsInv'
  BY <1>7, <1>8, LocksStay, DebitsStay DEF SubmitInv
<1> QED
  BY <1>4, <1>5, <1>6, <1>9 DEF SubmitInv

LEMMA ItemUploaded ==
  ASSUME SubmitInv, NEW c \in Calls, SkipUploaded(c) \/ UploadAnswered(c)
  PROVE  SubmitInv'
<1>1. /\ pc[c] = "upload" /\ NextItem(c) \in 1..Items
      /\ UNCHANGED <<artifact, quote, margin, kept>>
  <2>1. pc[c] = "upload" /\ UNCHANGED <<artifact, quote, margin, kept>>
    BY DEF SkipUploaded, UploadAnswered, lockVars, outcomeVars
  <2> QED
    BY <2>1, ItemNumbers, SubmitAssumption DEF SubmitInv, StagesInv
<1>2. CASE SkipUploaded(c)
  <2> DEFINE u == resumed[c][NextItem(c)]
  <2>1. /\ u # None /\ Push(c, u) /\ UNCHANGED <<quotes, stores, debits>>
        /\ resumed' = [resumed EXCEPT ![c][NextItem(c)] = None]
    BY <1>2 DEF SkipUploaded, gatewayVars
  <2>2. GatewayTyped' /\ KeysInv' /\ StoresGrow
    BY <2>1 DEF SubmitInv, Typed, GatewayTyped, KeysInv, StoresGrow
  <2>3. u \in Nat
    BY <1>1 DEF SubmitInv, Typed, CallsTyped
  <2>4. Vouched(Receipt(artifact[c], NextItem(c), u))
    BY <1>1, <2>1 DEF SubmitInv, ReceiptsInv
  <2>5. /\ u \in DOMAIN stores' /\ stores'[u].artifact = artifact[c]
        /\ stores'[u].item = NextItem(c)
    BY <2>1, <2>4 DEF Vouched, Receipt
  <2>6. /\ resumed' \in [Calls -> [1..Items -> Nat]]
        /\ \A d \in Calls, i \in 1..Items :
             resumed'[d][i] # resumed[d][i] => resumed'[d][i] = None /\ d = c
    BY <1>1, <2>1 DEF SubmitInv, Typed, CallsTyped, None
  <2> QED
    BY <1>1, <2>1, <2>2, <2>3, <2>5, <2>6, ItemPushed
<1>3. CASE UploadAnswered(c)
  <2> DEFINE u == Uri(UploadKey(c))
  <2>1. /\ StoreItem(c) /\ Push(c, u) /\ UNCHANGED <<resumed, quotes, debits>>
    BY <1>3 DEF UploadAnswered, StoreItem
  <2>2. /\ stores' \in Seq([key : Names \X Nat, artifact : Names, item : Nat])
        /\ KeysInv' /\ StoresGrow
        /\ u \in DOMAIN stores' /\ stores'[u].artifact = artifact[c]
        /\ stores'[u].item = NextItem(c)
    BY <2>1, StoreFacts DEF SubmitInv
  <2>3. GatewayTyped' /\ u \in Nat
    BY <2>1, <2>2 DEF SubmitInv, Typed, GatewayTyped
  <2>4. resumed' \in [Calls -> [1..Items -> Nat]]
    BY <2>1 DEF SubmitInv, Typed, CallsTyped
  <2> HIDE DEF u
  <2> QED
    BY <1>1, <2>1, <2>2, <2>3, <2>4, ItemPushed
<1> QED
  BY <1>2, <1>3

-----------------------------------------------------------------------------
(* A call begins, with receipts the caller holds.                          *)
LEMMA CallBegins ==
  ASSUME SubmitInv, NEW c \in Calls, Begin(c)
  PROVE  SubmitInv'
<1>1. PICK a \in Artifacts, offered \in SUBSET kept :
        (\E q \in {None} \cup DOMAIN quotes : Start(c, a, offered, q)) \/ Rejected(c, a, offered)
  BY DEF Begin
<1>2. /\ pc[c] = "idle" /\ artifact' = [artifact EXCEPT ![c] = a]
      /\ uploads[c] = <<>> /\ \A i \in 1..Items : resumed[c][i] = None
      /\ UNCHANGED <<uploads, kept, quotes, stores, debits>>
  BY <1>1 DEF Start, Rejected, outcomeVars, gatewayVars, SubmitInv, StagesInv
<1>3. GatewayTyped' /\ KeysInv' /\ StoresGrow /\ PricesStay /\ DebitsInv'
  BY <1>2, GatewayRests DEF SubmitInv, Typed, GatewayTyped, PricesStay
<1>4. /\ artifact'[c] = a /\ a \in Names
      /\ \A d \in Calls \ {c} : artifact'[d] = artifact[d]
  BY <1>2 DEF SubmitInv, Typed, CallsTyped, Names
<1>5. /\ resumed' \in [Calls -> [1..Items -> Nat]]
      /\ \A d \in Calls \ {c} : resumed'[d] = resumed[d]
      /\ \A i \in 1..Items : resumed'[c][i] # None => Vouched(Receipt(a, i, resumed'[c][i]))
  <2>1. CASE \E q \in {None} \cup DOMAIN quotes : Start(c, a, offered, q)
    <3>1. /\ ValidReceipts(a, offered)
          /\ resumed' = [resumed EXCEPT ![c] = [i \in 1..Items |-> TokenOf(offered, i)]]
      BY <2>1 DEF Start
    <3>2. ASSUME NEW i \in 1..Items
          PROVE  /\ TokenOf(offered, i) \in Nat
                 /\ TokenOf(offered, i) # None => Vouched(Receipt(a, i, TokenOf(offered, i)))
      <4>1. CASE \E r \in offered : r.item = i
        <5>1. PICK r \in offered : r.item = i /\ TokenOf(offered, i) = r.uri
          BY <4>1 DEF TokenOf
        <5>2. r \in AnyReceipt /\ Vouched(r) /\ r.artifact = a
          BY <1>1, <3>1, <5>1 DEF SubmitInv, Typed, CallsTyped, ReceiptsInv, ValidReceipts
        <5> QED
          BY <5>1, <5>2 DEF AnyReceipt, Vouched, Receipt
      <4>2. CASE ~\E r \in offered : r.item = i
        BY <4>2 DEF TokenOf, None
      <4> QED
        BY <4>1, <4>2
    <3> QED
      BY <3>1, <3>2 DEF SubmitInv, Typed, CallsTyped
  <2>2. CASE Rejected(c, a, offered)
    <3>1. resumed' = resumed
      BY <2>2 DEF Rejected
    <3> QED
      BY <1>2, <3>1 DEF SubmitInv, Typed, CallsTyped
  <2> QED
    BY <1>1, <2>1, <2>2
<1>6. /\ pc' \in [Calls -> {"idle", "ok", "failed", "rejected", "crashed"} \cup Running]
      /\ pc'[c] \in {"quote", "rejected"}
      /\ \A d \in Calls \ {c} : pc'[d] = pc[d]
  BY <1>1 DEF Start, Rejected, Goto, SubmitInv, Typed, CallsTyped, Running
<1>7. /\ quote' \in [Calls -> Nat] /\ margin' = margin
      /\ quote'[c] # None => quote'[c] \in DOMAIN quotes
      /\ \A d \in Calls \ {c} : quote'[d] = quote[d]
  <2>1. CASE \E q \in {None} \cup DOMAIN quotes : Start(c, a, offered, q)
    <3>1. PICK q \in {None} \cup DOMAIN quotes : Start(c, a, offered, q)
      BY <2>1
    <3>2. q \in Nat
      BY DEF SubmitInv, Typed, GatewayTyped, None
    <3> QED
      BY <3>1, <3>2 DEF Start, SubmitInv, Typed, CallsTyped
  <2>2. CASE Rejected(c, a, offered)
    BY <2>2 DEF Rejected, lockVars, SubmitInv, Typed, CallsTyped, LocksInv
  <2> QED
    BY <1>1, <2>1, <2>2
<1>8. Typed'
  BY <1>2, <1>3, <1>4, <1>5, <1>6, <1>7 DEF SubmitInv, Typed, CallsTyped
<1>9. ReceiptsInv'
  <2>1. \A r \in kept' : Vouched(r)'
    BY <1>2 DEF SubmitInv, ReceiptsInv, Vouched
  <2>2. ASSUME NEW d \in Calls, NEW i \in 1..Items, resumed'[d][i] # None
        PROVE  Vouched(Receipt(artifact[d], i, resumed[d][i]))'
    <3>1. CASE d = c
      BY <1>2, <1>4, <1>5, <2>2, <3>1 DEF Vouched, Receipt
    <3>2. CASE d # c
      <4>1. Vouched(Receipt(artifact[d], i, resumed[d][i]))
        BY <1>5, <2>2, <3>2 DEF SubmitInv, ReceiptsInv
      <4> QED
        BY <1>2, <1>4, <1>5, <3>2, <4>1 DEF Vouched, Receipt
    <3> QED
      BY <3>1, <3>2
  <2>3. ASSUME NEW d \in Calls, NEW k \in DOMAIN uploads[d]
        PROVE  /\ uploads[d][k].artifact = artifact'[d]
               /\ uploads[d][k].item = k
               /\ Vouched(uploads[d][k])
    <3>1. d # c
      BY <1>2, <2>3
    <3> QED
      BY <1>4, <2>3, <3>1 DEF SubmitInv, ReceiptsInv
  <2> QED
    BY <1>2, <2>1, <2>2, <2>3 DEF ReceiptsInv, Vouched
<1>10. StagesInv'
  <2>1. ASSUME NEW d \in Calls, d # c
        PROVE  StagesInv!(d)'
    <3>1. /\ pc'[d] = pc[d] /\ uploads'[d] = uploads[d]
          /\ artifact'[d] = artifact[d] /\ resumed'[d] = resumed[d]
      BY <1>2, <1>4, <1>5, <1>6, <2>1
    <3> QED
      BY <3>1 DEF SubmitInv, StagesInv, NextItem
  <2>2. StagesInv!(c)'
    BY <1>2, <1>6
  <2> QED
    BY <2>1, <2>2 DEF StagesInv
<1>11. LocksInv'
  <2>1. ASSUME NEW d \in Calls
        PROVE  /\ quote'[d] # None => quote'[d] \in DOMAIN quotes
               /\ pc'[d] \in Locked =>
                    quote'[d] \in DOMAIN quotes /\ quotes[quote'[d]].price <= Cap
    BY <1>6, <1>7 DEF SubmitInv, LocksInv, Locked
  <2> QED
    BY <1>2, <2>1 DEF LocksInv
<1> QED
  BY <1>3, <1>8, <1>9, <1>10, <1>11 DEF SubmitInv

-----------------------------------------------------------------------------
(* Previews, time, and steps of nobody.                                    *)
LEMMA NobodySteps ==
  ASSUME SubmitInv, Preview \/ (\E q \in DOMAIN quotes : QuoteAges(q)) \/ UNCHANGED vars
  PROVE  SubmitInv'
<1>1. UNCHANGED <<pc, artifact, resumed, uploads, quote, margin, kept, stores, debits>>
  BY DEF Preview, PostQuote, QuoteAges, vars, workVars, lockVars, outcomeVars, gatewayVars
<1>2. quotes' \in Seq(AnyQuote) /\ PricesStay
  <2>1. CASE Preview
    <3>1. PICK price \in Prices : PostQuote(price)
      BY <2>1 DEF Preview
    <3> QED
      BY <3>1, QuoteFacts DEF SubmitInv, PricesStay
  <2>2. CASE \E q \in DOMAIN quotes : QuoteAges(q)
    <3>1. PICK q \in DOMAIN quotes, stage \in {"stale", "expired"} :
            quotes' = [quotes EXCEPT ![q].stage = stage]
      BY <2>2 DEF QuoteAges
    <3>2. quotes[q] \in AnyQuote
      BY <3>1 DEF SubmitInv, Typed, GatewayTyped
    <3>3. /\ [quotes[q] EXCEPT !.stage = stage] \in AnyQuote
          /\ [quotes[q] EXCEPT !.stage = stage].price = quotes[q].price
      BY <3>2 DEF AnyQuote
    <3>4. quotes' = [quotes EXCEPT ![q] = [quotes[q] EXCEPT !.stage = stage]]
      BY <3>1
    <3> QED
      BY <3>3, <3>4, QuoteEdited DEF SubmitInv, Typed
  <2>3. CASE UNCHANGED vars
    BY <2>3 DEF vars, gatewayVars, SubmitInv, Typed, GatewayTyped, PricesStay
  <2> QED
    BY <2>1, <2>2, <2>3
<1>3. GatewayTyped' /\ KeysInv' /\ DebitsInv' /\ StoresGrow
  BY <1>1, <1>2, GatewayRests
<1>4. Typed' /\ StagesInv'
  BY <1>1, <1>3 DEF SubmitInv, Typed, CallsTyped, StagesInv, NextItem
<1>5. ReceiptsInv' /\ LocksInv'
  <2>1. \A r \in kept' : Vouched(r)
    BY <1>1 DEF SubmitInv, ReceiptsInv
  <2>2. \A c \in Calls : pc'[c] \in Locked => pc[c] \in Locked
    BY <1>1
  <2> QED
    BY <1>1, <1>2, <1>3, <2>1, <2>2, ReceiptsStay, LocksStay DEF SubmitInv
<1> QED
  BY <1>3, <1>4, <1>5 DEF SubmitInv

-----------------------------------------------------------------------------
(* SubmitInv holds always: of the first state, and of the state after any  *)
(* step of a call, of the gateway or of the caller (sealed.ts, publish.ts).*)
THEOREM SubmitInvAlways == Spec => []SubmitInv
<1>1. Init => SubmitInv
  <2> SUFFICES ASSUME Init PROVE SubmitInv
    OBVIOUS
  <2>1. Typed
    BY DEF Init, Typed, CallsTyped, GatewayTyped, Names, None
  <2> QED
    BY <2>1 DEF Init, SubmitInv, KeysInv, ReceiptsInv, StagesInv, LocksInv, DebitsInv, Locked
<1>2. SubmitInv /\ [Next]_vars => SubmitInv'
  <2> SUFFICES ASSUME SubmitInv, [Next]_vars PROVE SubmitInv'
    OBVIOUS
  <2>1. ASSUME NEW c \in Calls, Begin(c)
        PROVE  SubmitInv'
    BY <2>1, CallBegins
  <2>2. ASSUME NEW c \in Calls, Work(c) \/ Crash(c)
        PROVE  SubmitInv'
    <3>1. CASE LockFirst(c) \/ Refresh(c) \/ Signed(c)
      BY <3>1, PriceLocked
    <3>2. CASE StepFails(c) \/ UploadFails(c) \/ Crash(c)
      BY <3>2, CallFails
    <3>3. CASE SkipUploaded(c) \/ UploadAnswered(c)
      BY <3>3, ItemUploaded
    <3>4. CASE PublishAnswered(c) \/ PublishFails(c)
      BY <3>4, CallPublishes
    <3> QED
      BY <2>2, <3>1, <3>2, <3>3, <3>4 DEF Work
  <2>3. CASE Preview \/ (\E q \in DOMAIN quotes : QuoteAges(q)) \/ UNCHANGED vars
    BY <2>3, NobodySteps
  <2> QED
    BY <2>1, <2>2, <2>3 DEF Next
<1> QED
  BY <1>1, <1>2, PTL DEF Spec

(* No record is ever charged above the cap, however often and to whatever  *)
(* the price moved: refreshQuoteIfStale() tests it again.                  *)
THEOREM CapCorrect == Spec => []CapHolds
<1>1. SubmitInv => CapHolds
  BY DEF SubmitInv, DebitsInv, CapHolds
<1> QED
  BY <1>1, SubmitInvAlways, PTL

(* A blob is charged for once, whatever crashes, failures and overlaps: its *)
(* key depends on the artifact and the item only.                          *)
THEOREM StorageCorrect == Spec => []StoragePaidOnce
<1>1. SubmitInv => StoragePaidOnce
  BY DEF SubmitInv, KeysInv, StoragePaidOnce
<1> QED
  BY <1>1, SubmitInvAlways, PTL

(* Each item of a published record is named by the uri of its own blob.    *)
THEOREM RecordsCorrect == Spec => []RecordNamesItsCiphertexts
<1>1. SubmitInv => RecordNamesItsCiphertexts
  BY DEF SubmitInv, DebitsInv, RecordNamesItsCiphertexts, Vouched, Receipt
<1> QED
  BY <1>1, SubmitInvAlways, PTL

(* An artifact is published for one charge: its blobs have one uri each,   *)
(* so its record is always the same, and the gateway knows it.             *)
THEOREM PublicationCorrect == Spec => []PublishedOnce
<1>1. SubmitInv => PublishedOnce
  <2> SUFFICES ASSUME SubmitInv, NEW d \in debits, NEW e \in debits,
                      d.record.artifact = e.record.artifact
               PROVE  d = e
    BY DEF PublishedOnce
  <2>1. /\ d.record \in [artifact : Names, uris : Seq(Nat)]
        /\ e.record \in [artifact : Names, uris : Seq(Nat)]
    BY DEF SubmitInv, Typed, GatewayTyped
  <2>2. PICK m \in Nat : ItemsOf(d.record.artifact) = 1..m
    BY ItemNumbers
  <2>3. DOMAIN d.record.uris = 1..m /\ DOMAIN e.record.uris = 1..m
    BY <2>2 DEF SubmitInv, DebitsInv
  <2>4. ASSUME NEW i \in 1..m
        PROVE  d.record.uris[i] = e.record.uris[i]
    <3>1. /\ Vouched(Receipt(d.record.artifact, i, d.record.uris[i]))
          /\ Vouched(Receipt(e.record.artifact, i, e.record.uris[i]))
      BY <2>2 DEF SubmitInv, DebitsInv
    <3>2. \A u, w \in DOMAIN stores :
            stores[u].artifact = stores[w].artifact /\ stores[u].item = stores[w].item => u = w
      BY DEF SubmitInv, KeysInv
    <3> QED
      BY <3>1, <3>2 DEF Vouched, Receipt
  <2>5. d.record.uris = e.record.uris
    <3>1. d.record.uris \in Seq(Nat) /\ e.record.uris \in Seq(Nat)
      BY <2>1
    <3>2. Len(d.record.uris) = m /\ Len(e.record.uris) = m
      BY <2>3, <3>1
    <3>3. d.record.uris \in [1..m -> Nat] /\ e.record.uris \in [1..m -> Nat]
      BY <3>1, <3>2
    <3>4. /\ d.record.uris = [i \in 1..m |-> d.record.uris[i]]
          /\ e.record.uris = [i \in 1..m |-> e.record.uris[i]]
      BY <3>3
    <3>5. [i \in 1..m |-> d.record.uris[i]] = [i \in 1..m |-> e.record.uris[i]]
      BY <2>4, Zenon
    <3> QED
      BY <3>4, <3>5
  <2>6. d.record = e.record
    <3>1. /\ d.record = [artifact |-> d.record.artifact, uris |-> d.record.uris]
          /\ e.record = [artifact |-> e.record.artifact, uris |-> e.record.uris]
      BY <2>1
    <3> QED
      BY <2>5, <3>1
  <2> QED
    BY <2>6 DEF SubmitInv, DebitsInv
<1> QED
  BY <1>1, SubmitInvAlways, PTL

-----------------------------------------------------------------------------

Entries(list) == {list[k] : k \in DOMAIN list}

(* The items of a call that a validated receipt still stands for. *)
Pending(c) == {i \in 1..Items : resumed[c][i] # None}

(* All the receipts in a call's hands. *)
Held(c) ==
  Entries(uploads[c]) \cup {Receipt(artifact[c], i, resumed[c][i]) : i \in Pending(c)}

(* Every blob is an item of an artifact some call took up. *)
BlobsInv ==
  /\ \A c \in Calls : pc[c] # "idle" => artifact[c] \in Artifacts
  /\ \A u \in DOMAIN stores :
       /\ stores[u].item \in 1..Items
       /\ \E c \in Calls : pc[c] # "idle" /\ artifact[c] = stores[u].artifact

(* What a call was passed and what it completed is what it has in hand,    *)
(* and the receipts not folded in yet are of items the loop has not come   *)
(* to.                                                                     *)
EarnedInv ==
  /\ earned \in [Calls -> SUBSET AnyReceipt]
  /\ \A c \in Calls :
       /\ \A r \in earned[c] : Vouched(r)
       /\ pc[c] \in Running => earned[c] = Held(c)
       /\ pc[c] \in Running => \A i \in Pending(c) : NextItem(c) <= i

(* Every list handed back is one of true receipts in item order. *)
ReturnedInv ==
  /\ returned \in [Calls -> Seq(AnyReceipt)]
  /\ \A c \in Calls :
       /\ \A k \in DOMAIN returned[c] : Vouched(returned[c][k])
       /\ InItemOrder(returned[c])

OutcomeInv ==
  BlobsInv /\ EarnedInv /\ ReturnedInv /\ ReceiptsCarried /\ Len(quotes) <= NQuotes

(* A lock about to be signed for or published against had the margin when  *)
(* it was last tested, and has not expired since.                          *)
MarginInv ==
  \A c \in Calls : pc[c] \in {"sign", "publish"} =>
    margin[c] /\ quotes[quote[c]].stage # "expired"

-----------------------------------------------------------------------------
(* Lists of receipts.                                                      *)

LEMMA ConcatPlaces ==
  ASSUME NEW S, NEW l \in Seq(S), NEW m \in Seq(S)
  PROVE  /\ l \o m \in Seq(S) /\ DOMAIN (l \o m) = 1..(Len(l) + Len(m))
         /\ \A k \in 1..Len(l) : (l \o m)[k] = l[k]
         /\ \A k \in 1..(Len(l) + Len(m)) :
              k > Len(l) => (l \o m)[k] = m[k - Len(l)] /\ k - Len(l) \in 1..Len(m)
OBVIOUS

LEMMA EntriesOfConcat ==
  ASSUME NEW S, NEW l \in Seq(S), NEW m \in Seq(S)
  PROVE  Entries(l \o m) = Entries(l) \cup Entries(m)
<1>1. ASSUME NEW k \in DOMAIN (l \o m)
      PROVE  (l \o m)[k] \in Entries(l) \cup Entries(m)
  <2>1. CASE k <= Len(l)
    <3>1. k \in DOMAIN l /\ (l \o m)[k] = l[k]
      BY <2>1
    <3> QED
      BY <3>1 DEF Entries
  <2>2. CASE k > Len(l)
    <3>1. k - Len(l) \in DOMAIN m /\ (l \o m)[k] = m[k - Len(l)]
      BY <2>2
    <3> QED
      BY <3>1 DEF Entries
  <2> QED
    BY <2>1, <2>2
<1>2. ASSUME NEW k \in DOMAIN l
      PROVE  l[k] \in Entries(l \o m)
  <2>1. k \in DOMAIN (l \o m) /\ (l \o m)[k] = l[k]
    OBVIOUS
  <2> QED
    BY <2>1 DEF Entries
<1>3. ASSUME NEW k \in DOMAIN m
      PROVE  m[k] \in Entries(l \o m)
  <2>1. Len(l) + k \in DOMAIN (l \o m) /\ (l \o m)[Len(l) + k] = m[k]
    OBVIOUS
  <2> QED
    BY <2>1, Zenon DEF Entries
<1>4. Entries(l \o m) \subseteq Entries(l) \cup Entries(m)
  BY <1>1 DEF Entries
<1>5. Entries(l) \subseteq Entries(l \o m) /\ Entries(m) \subseteq Entries(l \o m)
  <2>1. \A e \in Entries(l) : e \in Entries(l \o m)
    BY <1>2 DEF Entries
  <2>2. \A e \in Entries(m) : e \in Entries(l \o m)
    BY <1>3 DEF Entries
  <2> QED
    BY <2>1, <2>2
<1> QED
  BY <1>4, <1>5

LEMMA EntriesOfAppend ==
  ASSUME NEW S, NEW l \in Seq(S), NEW e \in S
  PROVE  Entries(Append(l, e)) = Entries(l) \cup {e}
<1>1. /\ DOMAIN Append(l, e) = DOMAIN l \cup {Len(l) + 1}
      /\ \A k \in DOMAIN l : Append(l, e)[k] = l[k]
      /\ Append(l, e)[Len(l) + 1] = e
  OBVIOUS
<1> QED
  BY <1>1 DEF Entries

LEMMA UpToCardinality ==
  ASSUME NEW n \in Nat
  PROVE  IsFiniteSet(1..n) /\ Cardinality(1..n) = n
<1>1. IsFiniteSet(1..n) /\ Cardinality(1..n) = IF 1 > n THEN 0 ELSE n - 1 + 1
  BY FS_Interval
<1> QED
  BY <1>1

(* A list in item order is no longer than there are items.                 *)
LEMMA OrderedIsShort ==
  ASSUME NEW l \in Seq(AnyReceipt), InItemOrder(l),
         \A k \in DOMAIN l : l[k].item \in 1..Items
  PROVE  Len(l) <= Items
<1> DEFINE f == [k \in 1..Len(l) |-> l[k].item]
<1>1. Len(l) \in Nat /\ Items \in Nat
  BY SubmitAssumption
<1>2. f \in [1..Len(l) -> 1..Items]
  OBVIOUS
<1>3. \A j, k \in 1..Len(l) : j < k => f[j] < f[k]
  BY DEF InItemOrder
<1>4. \A j, k \in 1..Len(l) : f[j] = f[k] => j = k
  <2> HIDE DEF f
  <2> SUFFICES ASSUME NEW j \in 1..Len(l), NEW k \in 1..Len(l), f[j] = f[k], j # k
               PROVE  FALSE
    OBVIOUS
  <2>1. j < k \/ k < j
    BY <1>1
  <2>2. f[j] \in Int /\ f[k] \in Int
    BY <1>2
  <2> QED
    BY <1>3, <2>1, <2>2
<1> HIDE DEF f
<1>5. f \in Injection(1..Len(l), 1..Items)
  BY <1>2, <1>4 DEF Injection, IsInjective
<1>6. /\ IsFiniteSet(1..Items) /\ Cardinality(1..Items) = Items
      /\ Cardinality(1..Len(l)) = Len(l)
  BY <1>1, UpToCardinality
<1> QED
  BY <1>5, <1>6, FS_Injection

-----------------------------------------------------------------------------
(* Settling.                                                               *)

(* What a failing call carries: all it holds, in item order.               *)
LEMMA FailCarries ==
  ASSUME SubmitInv, EarnedInv, NEW c \in Calls, pc[c] \in Running, Fail(c)
  PROVE  \E receipts \in Seq(AnyReceipt) :
           /\ Settle(c, "failed", receipts)
           /\ \A k \in DOMAIN receipts : Vouched(receipts[k])
           /\ InItemOrder(receipts)
           /\ artifact[c] \notin Batches => Entries(receipts) = Held(c)
<1> DEFINE R == {i \in ItemsOf(artifact[c]) : resumed[c][i] # None}
           n == Cardinality(R)
<1>1. PICK rest \in ReceiptsInIndexOrder(c) : Settle(c, "failed", uploads[c] \o rest)
  BY DEF Fail
<1>2. PICK f \in [1..n -> R] :
        /\ rest = [k \in 1..n |-> Receipt(artifact[c], f[k], resumed[c][f[k]])]
        /\ \A j, k \in 1..n : j < k => f[j] < f[k]
  BY <1>1 DEF ReceiptsInIndexOrder
<1>3. R \subseteq Pending(c) /\ (artifact[c] \notin Batches => R = Pending(c))
  BY ItemNumbers, SubmitAssumption DEF Pending, ItemsOf
<1>4. ASSUME NEW i \in R
      PROVE  /\ Receipt(artifact[c], i, resumed[c][i]) \in AnyReceipt
             /\ Vouched(Receipt(artifact[c], i, resumed[c][i]))
             /\ i \in 1..Items /\ NextItem(c) <= i
  <2>1. i \in Pending(c) /\ i \in 1..Items /\ resumed[c][i] # None
    BY <1>3 DEF Pending
  <2>2. artifact[c] \in Names /\ resumed[c][i] \in Nat
    BY <2>1 DEF SubmitInv, Typed, CallsTyped
  <2>3. Receipt(artifact[c], i, resumed[c][i]) \in AnyReceipt
    BY <2>1, <2>2 DEF Receipt, AnyReceipt
  <2> QED
    BY <2>1, <2>3 DEF SubmitInv, ReceiptsInv, EarnedInv
<1>5. IsFiniteSet(R) /\ n \in Nat
  <2>1. IsFiniteSet(1..Items) /\ R \subseteq 1..Items
    BY <1>4, SubmitAssumption, UpToCardinality
  <2> QED
    BY <2>1, FS_Subset, FS_CardinalityType
<1>6. \A i \in R : \E k \in 1..n : f[k] = i
  <2>1. \A i \in R : i \in Nat
    BY <1>4
  <2>2. \A j, k \in 1..n : f[j] = f[k] => j = k
    <3> HIDE DEF n, R
    <3> SUFFICES ASSUME NEW j \in 1..n, NEW k \in 1..n, f[j] = f[k], j # k
                 PROVE  FALSE
      OBVIOUS
    <3>1. j < k \/ k < j
      BY <1>5
    <3>2. f[j] \in Nat /\ f[k] \in Nat
      BY <1>2, <2>1
    <3> QED
      BY <1>2, <3>1, <3>2
  <2>3. f \in Injection(1..n, R)
    BY <1>2, <2>2 DEF Injection, IsInjective
  <2>4. Cardinality(1..n) = Cardinality(R)
    BY <1>5, UpToCardinality
  <2>5. f \in Surjection(1..n, R)
    BY <1>5, <2>3, <2>4, FS_Injection
  <2> QED
    BY <2>5 DEF Surjection
<1> HIDE DEF n, R
<1>7. /\ rest \in Seq(AnyReceipt) /\ DOMAIN rest = 1..n /\ Len(rest) = n
      /\ \A k \in 1..n : Vouched(rest[k]) /\ rest[k].item = f[k]
  <2>1. \A k \in 1..n : f[k] \in R
    BY <1>2
  <2>2. \A k \in 1..n : rest[k] \in AnyReceipt /\ Vouched(rest[k])
    BY <1>2, <1>4, <2>1
  <2>3. \A k \in 1..n : rest[k].item = f[k]
    BY <1>2 DEF Receipt
  <2>4. rest \in [1..n -> AnyReceipt]
    BY <1>2, <2>2
  <2> QED
    BY <1>5, <2>2, <2>3, <2>4
<1>8. /\ uploads[c] \in Seq(AnyReceipt)
      /\ \A k \in DOMAIN uploads[c] : Vouched(uploads[c][k]) /\ uploads[c][k].item = k
  BY DEF SubmitInv, Typed, CallsTyped, ReceiptsInv
<1>9. PICK both : both = uploads[c] \o rest
  OBVIOUS
<1>10. PICK m \in Nat : m = Len(uploads[c])
  BY <1>8
<1>11. /\ both \in Seq(AnyReceipt) /\ DOMAIN both = 1..(m + n)
       /\ \A k \in 1..m : both[k] = uploads[c][k] /\ k \in DOMAIN uploads[c]
       /\ \A k \in 1..(m + n) : k > m => both[k] = rest[k - m] /\ k - m \in 1..n
  BY <1>7, <1>8, <1>9, <1>10, ConcatPlaces
<1>12. /\ \A k \in 1..m : Vouched(both[k]) /\ both[k].item = k
       /\ \A k \in 1..(m + n) : k > m =>
            Vouched(both[k]) /\ both[k].item = f[k - m] /\ k - m \in 1..n
  BY <1>7, <1>8, <1>11
<1>13. \A k \in DOMAIN both : Vouched(both[k])
  BY <1>5, <1>11, <1>12
<1>14. InItemOrder(both)
  <2> SUFFICES ASSUME NEW j \in 1..(m + n), NEW k \in 1..(m + n), j < k
               PROVE  both[j].item < both[k].item
    BY <1>11 DEF InItemOrder
  <2>1. CASE k <= m
    BY <1>5, <1>12, <2>1
  <2>2. CASE j <= m /\ k > m
    <3>1. both[j].item = j /\ both[k].item = f[k - m] /\ k - m \in 1..n
      BY <1>5, <1>12, <2>2
    <3>2. f[k - m] \in R
      BY <1>2, <3>1
    <3>3. f[k - m] \in 1..Items /\ NextItem(c) <= f[k - m] /\ NextItem(c) = m + 1
      BY <1>4, <1>10, <3>2 DEF NextItem
    <3> QED
      BY <2>2, <3>1, <3>3
  <2>3. CASE j > m
    <3>1. /\ both[j].item = f[j - m] /\ j - m \in 1..n
          /\ both[k].item = f[k - m] /\ k - m \in 1..n
          /\ j - m < k - m
      BY <1>5, <1>12, <2>3
    <3> QED
      BY <1>2, <3>1
  <2> QED
    BY <1>5, <2>1, <2>2, <2>3
<1>15. artifact[c] \notin Batches => Entries(both) = Held(c)
  <2>1. Entries(both) = Entries(uploads[c]) \cup Entries(rest)
    BY <1>7, <1>8, <1>9, EntriesOfConcat
  <2>2. Entries(rest) = {Receipt(artifact[c], i, resumed[c][i]) : i \in R}
    <3>1. ASSUME NEW k \in 1..n
          PROVE  \E i \in R : rest[k] = Receipt(artifact[c], i, resumed[c][i])
      BY <1>2
    <3>2. ASSUME NEW i \in R
          PROVE  \E k \in 1..n : rest[k] = Receipt(artifact[c], i, resumed[c][i])
      BY <1>2, <1>6
    <3>3. Entries(rest) = {rest[k] : k \in 1..n}
      BY <1>7 DEF Entries
    <3> QED
      BY <3>1, <3>2, <3>3
  <2> QED
    BY <1>3, <2>1, <2>2 DEF Held
<1> QED
  BY <1>1, <1>9, <1>11, <1>13, <1>14, <1>15

LEMMA CallSettlesWith ==
  ASSUME SubmitInv, OutcomeInv, StoresGrow, NEW c \in Calls, pc[c] \in Running,
         NEW how \in {"ok", "failed"}, NEW receipts \in Seq(AnyReceipt),
         Settle(c, how, receipts), \A k \in DOMAIN receipts : Vouched(receipts[k]),
         InItemOrder(receipts), artifact[c] \notin Batches => Entries(receipts) = Held(c),
         UNCHANGED workVars
  PROVE  ReturnedInv' /\ ReceiptsCarried'
<1> DEFINE carried == IF artifact[c] \in Batches THEN <<>> ELSE receipts
<1>1. /\ carried \in Seq(AnyReceipt) /\ \A k \in DOMAIN carried : Vouched(carried[k])
      /\ InItemOrder(carried)
      /\ artifact[c] \notin Batches => Entries(carried) = Held(c)
  BY DEF InItemOrder
<1>2. /\ pc' = [pc EXCEPT ![c] = how] /\ returned' = [returned EXCEPT ![c] = carried]
      /\ artifact' = artifact /\ earned' = earned
  BY DEF Settle, Goto, workVars
<1> HIDE DEF carried
<1>3. /\ returned' \in [Calls -> Seq(AnyReceipt)] /\ returned'[c] = carried
      /\ \A d \in Calls \ {c} : returned'[d] = returned[d] /\ pc'[d] = pc[d]
      /\ pc'[c] = how
  BY <1>1, <1>2 DEF SubmitInv, Typed, CallsTyped, OutcomeInv, ReturnedInv
<1>4. ASSUME NEW d \in Calls
      PROVE  /\ \A k \in DOMAIN returned'[d] : Vouched(returned'[d][k])
             /\ InItemOrder(returned'[d])
  BY <1>1, <1>3 DEF OutcomeInv, ReturnedInv
<1>5. ReturnedInv'
  BY <1>3, <1>4, VouchedStays DEF ReturnedInv, InItemOrder
<1>6. ASSUME NEW d \in Calls, pc'[d] \in {"ok", "failed"}, artifact[d] \notin Batches
      PROVE  Entries(returned'[d]) = earned[d]
  <2>1. CASE d = c
    BY <1>1, <1>3, <1>6, <2>1 DEF OutcomeInv, EarnedInv
  <2>2. CASE d # c
    BY <1>3, <1>6, <2>2 DEF OutcomeInv, ReceiptsCarried, Carried, Entries
  <2> QED
    BY <2>1, <2>2
<1>7. ReceiptsCarried'
  BY <1>2, <1>4, <1>6 DEF ReceiptsCarried, Carried, Entries, InItemOrder
<1> QED
  BY <1>5, <1>7

LEMMA NobodySettles ==
  ASSUME OutcomeInv, StoresGrow, UNCHANGED returned,
         \A d \in Calls : pc'[d] \in {"ok", "failed"} =>
           pc'[d] = pc[d] /\ artifact'[d] = artifact[d] /\ earned'[d] = earned[d]
  PROVE  ReturnedInv' /\ ReceiptsCarried'
<1>1. ReturnedInv'
  BY VouchedStays DEF OutcomeInv, ReturnedInv, InItemOrder
<1>2. ReceiptsCarried'
  BY DEF OutcomeInv, ReceiptsCarried, Carried, InItemOrder
<1> QED
  BY <1>1, <1>2

-----------------------------------------------------------------------------
(* What every step does to the gateway.                                    *)

LEMMA StoresOnlyGrow ==
  ASSUME SubmitInv, [Next]_vars
  PROVE  /\ StoresGrow
         /\ UNCHANGED stores \/ \E c \in Calls : pc[c] = "upload" /\ StoreItem(c)
<1>1. UNCHANGED stores \/ \E c \in Calls : pc[c] = "upload" /\ StoreItem(c)
  <2>1. ASSUME NEW c \in Calls, Begin(c) \/ Crash(c)
        PROVE  UNCHANGED stores
    BY <2>1 DEF Begin, Start, Rejected, Crash, gatewayVars
  <2>2. ASSUME NEW c \in Calls, Work(c)
        PROVE  UNCHANGED stores \/ (pc[c] = "upload" /\ StoreItem(c))
    BY <2>2 DEF Work, LockFirst, Refresh, StepFails, SkipUploaded, UploadAnswered, UploadFails,
                Signed, PublishAnswered, PublishFails, Accept, PostQuote, gatewayVars
  <2>3. ASSUME Preview \/ (\E q \in DOMAIN quotes : QuoteAges(q)) \/ UNCHANGED vars
        PROVE  UNCHANGED stores
    BY <2>3 DEF Preview, PostQuote, QuoteAges, vars, gatewayVars
  <2> QED
    BY <2>1, <2>2, <2>3 DEF Next
<1>2. StoresGrow
  <2>1. CASE UNCHANGED stores
    BY <2>1 DEF StoresGrow
  <2>2. ASSUME NEW c \in Calls, StoreItem(c)
        PROVE  StoresGrow
    BY <2>2, StoreFacts DEF SubmitInv
  <2> QED
    BY <1>1, <2>1, <2>2
<1> QED
  BY <1>1, <1>2

LEMMA ArtifactsStep ==
  ASSUME SubmitInv, [Next]_vars, NEW c \in Calls
  PROVE  /\ pc[c] # "idle" => pc'[c] # "idle" /\ artifact'[c] = artifact[c]
         /\ pc[c] = "idle" /\ pc'[c] # "idle" => artifact'[c] \in Artifacts
<1>1. ASSUME NEW d \in Calls, Begin(d)
      PROVE  /\ \A e \in Calls : e # d => pc'[e] = pc[e] /\ artifact'[e] = artifact[e]
             /\ pc[d] = "idle" /\ artifact'[d] \in Artifacts
  BY <1>1 DEF Begin, Start, Rejected, Goto, SubmitInv, Typed, CallsTyped
<1>2. ASSUME NEW d \in Calls, Work(d) \/ Crash(d)
      PROVE  /\ artifact' = artifact /\ pc[d] # "idle"
             /\ \E stage : stage # "idle" /\ pc' = [pc EXCEPT ![d] = stage]
  BY <1>2 DEF Work, LockFirst, Lock, Refresh, StepFails, SkipUploaded, UploadAnswered, UploadFails,
              Signed, PublishAnswered, PublishFails, Crash, Push, Fail, Settle, Goto, workVars, Running
<1>3. ASSUME Preview \/ (\E q \in DOMAIN quotes : QuoteAges(q)) \/ UNCHANGED vars
      PROVE  UNCHANGED <<pc, artifact>>
  BY <1>3 DEF Preview, QuoteAges, vars, workVars
<1>4. CASE \E d \in Calls : Begin(d)
  BY <1>1, <1>4
<1>5. CASE \E d \in Calls : Work(d) \/ Crash(d)
  BY <1>2, <1>5 DEF SubmitInv, Typed, CallsTyped
<1> QED
  BY <1>3, <1>4, <1>5 DEF Next

LEMMA BlobsStep ==
  ASSUME SubmitInv, BlobsInv, [Next]_vars
  PROVE  BlobsInv'
<1>1. \A c \in Calls : pc'[c] # "idle" => artifact'[c] \in Artifacts
  BY ArtifactsStep DEF BlobsInv
<1>2. ASSUME NEW u \in DOMAIN stores
      PROVE  /\ stores[u].item \in 1..Items
             /\ \E c \in Calls : pc'[c] # "idle" /\ artifact'[c] = stores[u].artifact
  BY ArtifactsStep DEF BlobsInv
<1>3. CASE UNCHANGED stores
  BY <1>1, <1>2, <1>3 DEF BlobsInv
<1>4. ASSUME NEW c \in Calls, pc[c] = "upload", StoreItem(c)
      PROVE  BlobsInv'
  <2>1. /\ NextItem(c) \in 1..Items
        /\ pc'[c] # "idle" /\ artifact'[c] = artifact[c]
    BY <1>4, ArtifactsStep, ItemNumbers, SubmitAssumption DEF SubmitInv, StagesInv
  <2>2. \/ UNCHANGED stores
        \/ stores' = Append(stores, [key |-> UploadKey(c), artifact |-> artifact[c],
                                     item |-> NextItem(c)])
    BY <1>4 DEF StoreItem
  <2>3. ASSUME NEW u \in DOMAIN stores', u \notin DOMAIN stores
        PROVE  stores'[u].artifact = artifact[c] /\ stores'[u].item = NextItem(c)
    BY <2>2, <2>3 DEF SubmitInv, Typed, GatewayTyped
  <2>4. \A u \in DOMAIN stores : stores'[u] = stores[u]
    BY StoresOnlyGrow DEF StoresGrow
  <2> QED
    BY <1>1, <1>2, <2>1, <2>3, <2>4 DEF BlobsInv
<1> QED
  BY <1>3, <1>4, StoresOnlyGrow

LEMMA QuotesStep ==
  ASSUME SubmitInv, Len(quotes) <= NQuotes, [Next]_vars
  PROVE  Len(quotes') <= NQuotes
<1>1. \/ UNCHANGED quotes
      \/ \E price \in Prices : PostQuote(price)
      \/ \E q \in DOMAIN quotes : \E e : quotes' = [quotes EXCEPT ![q] = e]
  <2>1. ASSUME NEW c \in Calls, Begin(c) \/ Crash(c)
        PROVE  UNCHANGED quotes
    BY <2>1 DEF Begin, Start, Rejected, Crash, gatewayVars
  <2>2. ASSUME NEW c \in Calls, LockFirst(c) \/ Refresh(c) \/ StepFails(c) \/ Signed(c)
        PROVE  UNCHANGED quotes \/ \E price \in Prices : PostQuote(price)
    BY <2>2 DEF LockFirst, Refresh, StepFails, Signed, gatewayVars
  <2>3. ASSUME NEW c \in Calls, SkipUploaded(c) \/ UploadAnswered(c) \/ UploadFails(c)
        PROVE  UNCHANGED quotes
    BY <2>3 DEF SkipUploaded, UploadAnswered, UploadFails, StoreItem, gatewayVars
  <2>4. ASSUME NEW c \in Calls, PublishAnswered(c) \/ PublishFails(c)
        PROVE  UNCHANGED quotes \/ \E q \in DOMAIN quotes : \E e : quotes' = [quotes EXCEPT ![q] = e]
    <3>1. quote[c] \in DOMAIN quotes
      BY <2>4 DEF PublishAnswered, PublishFails, SubmitInv, LocksInv, Locked
    <3>2. UNCHANGED quotes \/ quotes' = [quotes EXCEPT ![quote[c]].used = TRUE]
      BY <2>4 DEF PublishAnswered, PublishFails, Accept, gatewayVars
    <3> QED
      BY <3>1, <3>2
  <2>5. ASSUME Preview \/ UNCHANGED vars
        PROVE  UNCHANGED quotes \/ \E price \in Prices : PostQuote(price)
    BY <2>5 DEF Preview, vars, gatewayVars
  <2>6. ASSUME NEW q \in DOMAIN quotes, QuoteAges(q)
        PROVE  \E e : quotes' = [quotes EXCEPT ![q] = e]
    BY <2>6 DEF QuoteAges
  <2> QED
    BY <2>1, <2>2, <2>3, <2>4, <2>5, <2>6 DEF Next, Work
<1>2. quotes \in Seq(AnyQuote)
  BY DEF SubmitInv, Typed, GatewayTyped
<1>3. ASSUME NEW price, PostQuote(price)
      PROVE  Len(quotes') <= NQuotes
  BY <1>2, <1>3, SubmitAssumption DEF PostQuote
<1>4. ASSUME NEW q \in DOMAIN quotes, NEW e, quotes' = [quotes EXCEPT ![q] = e]
      PROVE  Len(quotes') <= NQuotes
  BY <1>2, <1>4
<1> QED
  BY <1>1, <1>3, <1>4

-----------------------------------------------------------------------------
(* What every step does to the receipts.                                   *)

(* A call's receipts do not change while its work does not.                *)
LEMMA EarnedStays ==
  ASSUME SubmitInv, OutcomeInv, StoresGrow, UNCHANGED workVars,
         \A d \in Calls : pc'[d] \in Running => pc[d] \in Running
  PROVE  EarnedInv'
<1>1. UNCHANGED <<artifact, resumed, uploads, earned>>
  BY DEF workVars
<1>2. ASSUME NEW d \in Calls
      PROVE  Held(d)' = Held(d) /\ Pending(d)' = Pending(d) /\ NextItem(d)' = NextItem(d)
  BY <1>1 DEF Held, Pending, NextItem, Entries
<1> QED
  BY <1>1, <1>2, VouchedStays DEF OutcomeInv, EarnedInv

(* An item is folded in: its receipt is in hand before, or is earned now.  *)
LEMMA EarnedPushed ==
  ASSUME SubmitInv, SubmitInv', OutcomeInv, StoresGrow, NEW c \in Calls, pc[c] = "upload",
         NEW u \in Nat, Push(c, u), UNCHANGED artifact,
         \/ /\ resumed[c][NextItem(c)] = u /\ u # None
            /\ resumed' = [resumed EXCEPT ![c][NextItem(c)] = None]
            /\ UNCHANGED earned
         \/ /\ resumed[c][NextItem(c)] = None
            /\ UNCHANGED resumed
            /\ earned' = [earned EXCEPT ![c] = @ \cup {Receipt(artifact[c], NextItem(c), u)}]
  PROVE  EarnedInv'
<1> DEFINE n == NextItem(c)
           new == Receipt(artifact[c], n, u)
<1>1. /\ n \in 1..Items /\ n = Len(uploads[c]) + 1
      /\ uploads[c] \in Seq(AnyReceipt) /\ new \in AnyReceipt
      /\ pc[c] \in Running
  <2>1. n \in 1..Items
    BY ItemNumbers, SubmitAssumption DEF SubmitInv, StagesInv
  <2>2. /\ uploads[c] \in Seq(AnyReceipt) /\ artifact[c] \in Names
    BY DEF SubmitInv, Typed, CallsTyped
  <2>3. new \in AnyReceipt
    BY <2>1, <2>2 DEF Receipt, AnyReceipt
  <2> QED
    BY <2>1, <2>2, <2>3 DEF NextItem, Running
<1>2. /\ uploads' = [uploads EXCEPT ![c] = Append(@, new)]
      /\ \A d \in Calls : d # c => pc'[d] = pc[d]
  BY DEF Push, Goto, SubmitInv, Typed, CallsTyped
<1>3. /\ Entries(uploads'[c]) = Entries(uploads[c]) \cup {new}
      /\ NextItem(c)' = n + 1
  BY <1>1, <1>2, EntriesOfAppend DEF NextItem, SubmitInv, Typed, CallsTyped
<1>4. /\ earned[c] = Held(c) /\ \A i \in Pending(c) : n <= i
      /\ earned' \in [Calls -> SUBSET AnyReceipt]
      /\ earned'[c] = earned[c] \cup {new}
      /\ \A d \in Calls : d # c => earned'[d] = earned[d] /\ resumed'[d] = resumed[d]
      /\ Pending(c)' = Pending(c) \ {n}
      /\ \A i \in Pending(c) \ {n} : resumed'[c][i] = resumed[c][i]
  <2>0. /\ earned[c] = Held(c) /\ \A i \in Pending(c) : n <= i
        /\ earned \in [Calls -> SUBSET AnyReceipt]
    BY <1>1 DEF OutcomeInv, EarnedInv
  <2>1. CASE /\ resumed[c][n] = u /\ u # None
             /\ resumed' = [resumed EXCEPT ![c][n] = None]
             /\ UNCHANGED earned
    <3>1. new \in Held(c)
      BY <1>1, <2>1 DEF Held, Pending
    <3>2. /\ resumed'[c] = [resumed[c] EXCEPT ![n] = None]
          /\ \A d \in Calls : d # c => resumed'[d] = resumed[d]
      BY <2>1 DEF SubmitInv, Typed, CallsTyped
    <3>3. /\ Pending(c)' = Pending(c) \ {n}
          /\ \A i \in Pending(c) \ {n} : resumed'[c][i] = resumed[c][i]
      <4>1. resumed[c] \in [1..Items -> Nat]
        BY DEF SubmitInv, Typed, CallsTyped
      <4>2. /\ resumed'[c][n] = None
            /\ \A i \in 1..Items : i # n => resumed'[c][i] = resumed[c][i]
        BY <1>1, <3>2, <4>1
      <4> QED
        BY <4>2 DEF Pending
    <3> QED
      BY <2>0, <2>1, <3>1, <3>2, <3>3
  <2>2. CASE /\ resumed[c][n] = None /\ UNCHANGED resumed
             /\ earned' = [earned EXCEPT ![c] = @ \cup {new}]
    <3>1. Pending(c)' = Pending(c) \ {n}
      BY <2>2 DEF Pending
    <3> QED
      BY <1>1, <2>0, <2>2, <3>1
  <2> QED
    BY <2>1, <2>2
<1>5. Held(c)' = Held(c) \cup {new}
  <2>1. Held(c)' = Entries(uploads'[c]) \cup
          {Receipt(artifact[c], i, resumed[c][i]) : i \in Pending(c) \ {n}}
    BY <1>4 DEF Held, Entries
  <2>2. n \in Pending(c) => new = Receipt(artifact[c], n, resumed[c][n])
    BY DEF Pending
  <2> QED
    BY <1>3, <2>1, <2>2 DEF Held
<1>6. \A i \in Pending(c)' : n + 1 <= i
  <2>1. \A i \in Pending(c) : i \in Nat
    BY DEF Pending
  <2> QED
    BY <1>1, <1>4, <2>1
<1>7. ASSUME NEW r \in earned'[c]
      PROVE  Vouched(r)'
  <2>1. CASE r \in earned[c]
    BY <2>1, VouchedStays DEF OutcomeInv, EarnedInv
  <2>2. CASE r = new
    <3>1. /\ Len(uploads'[c]) = n /\ uploads'[c][n] = new /\ n \in DOMAIN uploads'[c]
      BY <1>1, <1>2 DEF SubmitInv, Typed, CallsTyped
    <3> QED
      BY <2>2, <3>1 DEF SubmitInv, ReceiptsInv
  <2> QED
    BY <1>4, <2>1, <2>2
<1>8. ASSUME NEW d \in Calls, d # c
      PROVE  /\ \A r \in earned'[d] : Vouched(r)'
             /\ pc'[d] \in Running => earned'[d] = Held(d)'
             /\ pc'[d] \in Running => \A i \in Pending(d)' : NextItem(d)' <= i
  <2>1. /\ uploads'[d] = uploads[d] /\ resumed'[d] = resumed[d] /\ earned'[d] = earned[d]
        /\ pc'[d] = pc[d]
    BY <1>2, <1>4, <1>8 DEF SubmitInv, Typed, CallsTyped
  <2>2. Held(d)' = Held(d) /\ Pending(d)' = Pending(d) /\ NextItem(d)' = NextItem(d)
    BY <2>1 DEF Held, Pending, NextItem, Entries
  <2> QED
    BY <2>1, <2>2, VouchedStays DEF OutcomeInv, EarnedInv
<1> HIDE DEF n, new
<1>9. ASSUME NEW d \in Calls
      PROVE  /\ \A r \in earned'[d] : Vouched(r)'
             /\ pc'[d] \in Running => earned'[d] = Held(d)'
             /\ pc'[d] \in Running => \A i \in Pending(d)' : NextItem(d)' <= i
  BY <1>3, <1>4, <1>5, <1>6, <1>7, <1>8
<1> QED
  BY <1>4, <1>9 DEF EarnedInv

(* A call begins with the receipts it was passed, each at its item.        *)
LEMMA EarnedBegins ==
  ASSUME SubmitInv, SubmitInv', OutcomeInv, StoresGrow, NEW c \in Calls, Begin(c)
  PROVE  EarnedInv'
<1>1. PICK a \in Artifacts, offered \in SUBSET kept :
        (\E q \in {None} \cup DOMAIN quotes : Start(c, a, offered, q)) \/ Rejected(c, a, offered)
  BY DEF Begin
<1>2. ASSUME NEW d \in Calls, d # c
      PROVE  /\ \A r \in earned'[d] : Vouched(r)'
             /\ pc'[d] \in Running => earned'[d] = Held(d)'
             /\ pc'[d] \in Running => \A i \in Pending(d)' : NextItem(d)' <= i
  <2>1. /\ uploads'[d] = uploads[d] /\ resumed'[d] = resumed[d] /\ earned'[d] = earned[d]
        /\ pc'[d] = pc[d] /\ artifact'[d] = artifact[d]
    BY <1>1, <1>2 DEF Start, Rejected, Goto, SubmitInv, Typed, CallsTyped, OutcomeInv, EarnedInv
  <2>2. Held(d)' = Held(d) /\ Pending(d)' = Pending(d) /\ NextItem(d)' = NextItem(d)
    BY <2>1 DEF Held, Pending, NextItem, Entries
  <2> QED
    BY <2>1, <2>2, VouchedStays DEF OutcomeInv, EarnedInv
<1>3. \A r \in kept : r \in AnyReceipt /\ Vouched(r)
  BY DEF SubmitInv, Typed, CallsTyped, ReceiptsInv
<1>4. CASE Rejected(c, a, offered)
  <2>1. /\ pc'[c] = "rejected" /\ earned' \in [Calls -> SUBSET AnyReceipt]
        /\ earned'[c] \subseteq kept
    BY <1>3, <1>4 DEF Rejected, Goto, SubmitInv, Typed, CallsTyped, OutcomeInv, EarnedInv
  <2>2. \A r \in earned'[c] : Vouched(r)'
    BY <1>3, <2>1, VouchedStays
  <2> QED
    BY <1>2, <2>1, <2>2 DEF EarnedInv, Running
<1>5. CASE \E q \in {None} \cup DOMAIN quotes : Start(c, a, offered, q)
  <2>1. /\ pc[c] = "idle" /\ ValidReceipts(a, offered) /\ uploads' = uploads
        /\ artifact'[c] = a /\ earned'[c] = offered /\ earned' \in [Calls -> SUBSET AnyReceipt]
        /\ resumed'[c] = [i \in 1..Items |-> TokenOf(offered, i)]
    BY <1>3, <1>5 DEF Start, SubmitInv, Typed, CallsTyped, OutcomeInv, EarnedInv
  <2>2. uploads'[c] = <<>> /\ Entries(uploads'[c]) = {} /\ NextItem(c)' = 1
    BY <2>1 DEF SubmitInv, StagesInv, Entries, NextItem
  <2>3. ASSUME NEW r \in offered
        PROVE  /\ r.item \in Pending(c)'
               /\ Receipt(a, r.item, TokenOf(offered, r.item)) = r
               /\ Vouched(r)'
    <3>1. r \in AnyReceipt /\ Vouched(r) /\ r.artifact = a
      BY <1>3, <2>1 DEF ValidReceipts
    <3>2. r.item \in 1..Items /\ r.uri # None
      BY <3>1 DEF OutcomeInv, BlobsInv, Vouched, None, SubmitInv, Typed, GatewayTyped
    <3>3. TokenOf(offered, r.item) = r.uri
      BY <2>1 DEF TokenOf, ValidReceipts
    <3> QED
      BY <2>1, <3>1, <3>2, <3>3, VouchedStays DEF Pending, Receipt, AnyReceipt
  <2>4. ASSUME NEW i \in Pending(c)'
        PROVE  Receipt(a, i, TokenOf(offered, i)) \in offered
    <3>1. i \in 1..Items /\ TokenOf(offered, i) # None
      BY <2>1 DEF Pending
    <3>2. PICK r \in offered : r.item = i
      BY <3>1 DEF TokenOf
    <3> QED
      BY <2>3, <3>2
  <2>5. Held(c)' = {Receipt(a, i, TokenOf(offered, i)) : i \in Pending(c)'}
    <3>1. \A i \in Pending(c)' : resumed'[c][i] = TokenOf(offered, i)
      BY <2>1 DEF Pending
    <3> QED
      BY <2>1, <2>2, <3>1 DEF Held, Entries
  <2>6. earned'[c] = Held(c)'
    <3>1. \A r \in offered : r \in Held(c)'
      BY <2>3, <2>5
    <3>2. \A r \in Held(c)' : r \in offered
      BY <2>4, <2>5
    <3> QED
      BY <2>1, <3>1, <3>2
  <2>7. \A i \in Pending(c)' : NextItem(c)' <= i
    BY <2>2 DEF Pending
  <2> QED
    BY <1>2, <2>1, <2>3, <2>6, <2>7 DEF EarnedInv
<1> QED
  BY <1>1, <1>4, <1>5

LEMMA EarnedStep ==
  ASSUME SubmitInv, SubmitInv', OutcomeInv, [Next]_vars
  PROVE  EarnedInv'
<1>1. StoresGrow
  BY StoresOnlyGrow
<1>2. ASSUME NEW c \in Calls, SkipUploaded(c)
      PROVE  EarnedInv'
  <2>1. /\ pc[c] = "upload" /\ resumed[c][NextItem(c)] \in Nat
        /\ resumed[c][NextItem(c)] # None
        /\ Push(c, resumed[c][NextItem(c)]) /\ UNCHANGED <<artifact, earned>>
        /\ resumed' = [resumed EXCEPT ![c][NextItem(c)] = None]
    <3>1. pc[c] = "upload"
      BY <1>2 DEF SkipUploaded
    <3>2. NextItem(c) \in 1..Items
      BY <3>1, ItemNumbers, SubmitAssumption DEF SubmitInv, StagesInv
    <3> QED
      BY <1>2, <3>2 DEF SkipUploaded, SubmitInv, Typed, CallsTyped
  <2> QED
    BY <1>1, <2>1, EarnedPushed
<1>3. ASSUME NEW c \in Calls, UploadAnswered(c)
      PROVE  EarnedInv'
  <2>1. /\ pc[c] = "upload" /\ resumed[c][NextItem(c)] = None /\ StoreItem(c)
        /\ Push(c, Uri(UploadKey(c))) /\ UNCHANGED <<artifact, resumed>>
        /\ earned' = [earned EXCEPT ![c] =
                        @ \cup {Receipt(artifact[c], NextItem(c), Uri(UploadKey(c)))}]
    BY <1>3 DEF UploadAnswered
  <2>2. Uri(UploadKey(c)) \in Nat
    BY <2>1, StoreFacts DEF SubmitInv
  <2> QED
    BY <1>1, <2>1, <2>2, EarnedPushed
<1>4. ASSUME NEW c \in Calls,
             \/ LockFirst(c) \/ Refresh(c) \/ StepFails(c) \/ UploadFails(c) \/ Signed(c)
             \/ PublishAnswered(c) \/ PublishFails(c) \/ Crash(c)
      PROVE  EarnedInv'
  <2>1. UNCHANGED workVars
    BY <1>4 DEF LockFirst, Refresh, StepFails, UploadFails, Signed, PublishAnswered, PublishFails,
                Crash
  <2>2. pc[c] \in Running /\ \E stage : pc' = [pc EXCEPT ![c] = stage]
    BY <1>4 DEF LockFirst, Lock, Refresh, StepFails, UploadFails, Signed, PublishAnswered,
                PublishFails, Crash, Fail, Settle, Goto, Running
  <2>3. \A d \in Calls : pc'[d] \in Running => pc[d] \in Running
    BY <2>2 DEF SubmitInv, Typed, CallsTyped
  <2> QED
    BY <1>1, <2>1, <2>3, EarnedStays
<1>5. CASE Preview \/ (\E q \in DOMAIN quotes : QuoteAges(q)) \/ UNCHANGED vars
  <2>1. UNCHANGED <<pc, workVars>>
    BY <1>5 DEF Preview, QuoteAges, vars
  <2> QED
    BY <1>1, <2>1, EarnedStays
<1> QED
  BY <1>1, <1>2, <1>3, <1>4, <1>5, EarnedBegins DEF Next, Work

(* A call settles by failing, by publishing, or not at all.                *)
LEMMA ReturnedStep ==
  ASSUME SubmitInv, OutcomeInv, [Next]_vars
  PROVE  ReturnedInv' /\ ReceiptsCarried'
<1>1. StoresGrow
  BY StoresOnlyGrow
<1>2. ASSUME NEW c \in Calls, Fail(c), pc[c] \in Running, UNCHANGED workVars
      PROVE  ReturnedInv' /\ ReceiptsCarried'
  <2>1. PICK receipts \in Seq(AnyReceipt) :
          /\ Settle(c, "failed", receipts)
          /\ \A k \in DOMAIN receipts : Vouched(receipts[k])
          /\ InItemOrder(receipts)
          /\ artifact[c] \notin Batches => Entries(receipts) = Held(c)
    BY <1>2, FailCarries DEF OutcomeInv
  <2> QED
    BY <1>1, <1>2, <2>1, CallSettlesWith
<1>3. ASSUME NEW c \in Calls, PublishAnswered(c) \/ PublishFails(c)
      PROVE  ReturnedInv' /\ ReceiptsCarried'
  <2>1. /\ pc[c] = "publish" /\ pc[c] \in Running /\ UNCHANGED workVars
        /\ \E how \in {"ok", "failed"} : Settle(c, how, uploads[c])
    BY <1>3 DEF PublishAnswered, PublishFails, Running
  <2>2. /\ uploads[c] \in Seq(AnyReceipt)
        /\ \A k \in DOMAIN uploads[c] : Vouched(uploads[c][k]) /\ uploads[c][k].item = k
    BY DEF SubmitInv, Typed, CallsTyped, ReceiptsInv
  <2>3. InItemOrder(uploads[c])
    BY <2>2 DEF InItemOrder
  <2>4. ASSUME artifact[c] \notin Batches
        PROVE  Entries(uploads[c]) = Held(c)
    <3>1. DOMAIN uploads[c] = 1..Items
      BY <2>1, <2>4 DEF SubmitInv, StagesInv, ItemsOf
    <3>2. Len(uploads[c]) = Items
      BY <2>2, <3>1, SubmitAssumption
    <3>3. Pending(c) = {}
      BY <2>1, <3>2, SubmitAssumption DEF OutcomeInv, EarnedInv, Pending, NextItem
    <3> QED
      BY <3>3 DEF Held
  <2> QED
    BY <1>1, <2>1, <2>2, <2>3, <2>4, CallSettlesWith
<1>4. ASSUME NEW c \in Calls, StepFails(c) \/ UploadFails(c)
      PROVE  ReturnedInv' /\ ReceiptsCarried'
  BY <1>2, <1>4 DEF StepFails, UploadFails, Running
<1>5. ASSUME NEW c \in Calls, LockFirst(c) \/ Refresh(c)
      PROVE  ReturnedInv' /\ ReceiptsCarried'
  <2>1. /\ pc[c] \in Running /\ UNCHANGED workVars
        /\ Fail(c) \/ (UNCHANGED returned /\ \E stage \in {"upload", "sign"} : Goto(c, stage))
    BY <1>5 DEF LockFirst, Refresh, Lock, Running, outcomeVars
  <2>2. CASE UNCHANGED returned /\ \E stage \in {"upload", "sign"} : Goto(c, stage)
    <3>1. \A d \in Calls : pc'[d] \in {"ok", "failed"} => pc'[d] = pc[d]
      BY <2>2 DEF Goto, SubmitInv, Typed, CallsTyped
    <3> QED
      BY <1>1, <2>1, <2>2, <3>1, NobodySettles DEF workVars
  <2> QED
    BY <1>2, <2>1, <2>2
<1>6. ASSUME NEW c \in Calls,
             Begin(c) \/ SkipUploaded(c) \/ UploadAnswered(c) \/ Signed(c) \/ Crash(c)
      PROVE  ReturnedInv' /\ ReceiptsCarried'
  <2>1. UNCHANGED returned
    BY <1>6 DEF Begin, Start, Rejected, SkipUploaded, UploadAnswered, Signed, Crash, outcomeVars
  <2>2. PICK stage \in {"quote", "rejected", "upload", "refresh", "publish", "crashed"} :
          pc' = [pc EXCEPT ![c] = stage]
    BY <1>6 DEF Begin, Start, Rejected, SkipUploaded, UploadAnswered, Signed, Crash, Push, Goto
  <2>3. pc'[c] = stage /\ \A d \in Calls : d # c => pc'[d] = pc[d]
    BY <2>2 DEF SubmitInv, Typed, CallsTyped
  <2>4. \A d \in Calls : d # c => artifact'[d] = artifact[d] /\ earned'[d] = earned[d]
    BY <1>6 DEF Begin, Start, Rejected, SkipUploaded, UploadAnswered, Signed, Crash, workVars,
                SubmitInv, Typed, CallsTyped, OutcomeInv, EarnedInv
  <2> QED
    BY <1>1, <2>1, <2>3, <2>4, NobodySettles
<1>7. CASE Preview \/ (\E q \in DOMAIN quotes : QuoteAges(q)) \/ UNCHANGED vars
  <2>1. UNCHANGED <<pc, artifact, earned, returned>>
    BY <1>7 DEF Preview, QuoteAges, vars, workVars, outcomeVars
  <2> QED
    BY <1>1, <2>1, NobodySettles
<1> QED
  BY <1>3, <1>4, <1>5, <1>6, <1>7 DEF Next, Work

(* Nothing is lost between the offer and the settlement: OutcomeInv holds  *)
(* always (validateReceipts(), the upload loop and the error's `uploads'   *)
(* in sealed.ts).                                                          *)
THEOREM OutcomeInvAlways == Spec => []OutcomeInv
<1>1. Init => OutcomeInv
  <2> SUFFICES ASSUME Init PROVE OutcomeInv
    OBVIOUS
  <2>1. BlobsInv /\ Len(quotes) <= NQuotes
    BY SubmitAssumption DEF Init, BlobsInv
  <2>2. EarnedInv
    BY DEF Init, EarnedInv, Running
  <2>3. ReturnedInv /\ ReceiptsCarried
    BY DEF Init, ReturnedInv, ReceiptsCarried, InItemOrder
  <2> QED
    BY <2>1, <2>2, <2>3 DEF OutcomeInv
<1>2. SubmitInv /\ SubmitInv' /\ OutcomeInv /\ [Next]_vars => OutcomeInv'
  BY BlobsStep, QuotesStep, EarnedStep, ReturnedStep DEF OutcomeInv
<1> QED
  BY <1>1, <1>2, SubmitInvAlways, PTL DEF Spec

(* The error of a submit that got past its offline checks, like its        *)
(* result, carries in item order every valid receipt it was passed and     *)
(* every one it completed, whatever failed and whoever else was at work.   *)
THEOREM ReceiptsCorrect == Spec => []ReceiptsCarried
<1>1. OutcomeInv => ReceiptsCarried
  BY DEF OutcomeInv
<1> QED
  BY <1>1, OutcomeInvAlways, PTL

-----------------------------------------------------------------------------
(* Types and bounds.                                                       *)

(* There are no more blobs than items of the artifacts that were taken up. *)
LEMMA BlobsBounded ==
  ASSUME SubmitInv, BlobsInv
  PROVE  Len(stores) <= NCalls * Items
<1> DEFINE S == 1..Len(stores)
           P == (1..NCalls) \X (1..Items)
           f == [u \in S |-> <<CHOOSE c \in Calls : artifact[c] = stores[u].artifact,
                              stores[u].item>>]
<1>1. Len(stores) \in Nat /\ NCalls \in Nat /\ Items \in Nat /\ DOMAIN stores = S
  BY SubmitAssumption DEF SubmitInv, Typed, GatewayTyped
<1>2. ASSUME NEW u \in S
      PROVE  /\ f[u][1] \in Calls /\ artifact[f[u][1]] = stores[u].artifact
             /\ f[u][2] = stores[u].item /\ f[u] \in P
  <2>1. /\ \E c \in Calls : artifact[c] = stores[u].artifact
        /\ stores[u].item \in 1..Items
    BY <1>1 DEF BlobsInv
  <2> QED
    BY <2>1 DEF Calls
<1>3. f \in [S -> P]
  BY <1>2
<1>4. ASSUME NEW u \in S, NEW w \in S, f[u] = f[w]
      PROVE  u = w
  <2>1. stores[u].artifact = stores[w].artifact /\ stores[u].item = stores[w].item
    <3> HIDE DEF f, S, P
    <3> QED
      BY <1>2, <1>4
  <2> QED
    BY <1>1, <2>1 DEF SubmitInv, KeysInv
<1> HIDE DEF f
<1>5. f \in Injection(S, P)
  BY <1>3, <1>4 DEF Injection, IsInjective
<1>6. /\ IsFiniteSet(1..NCalls) /\ Cardinality(1..NCalls) = NCalls
      /\ IsFiniteSet(1..Items) /\ Cardinality(1..Items) = Items
      /\ Cardinality(S) = Len(stores)
  BY <1>1, UpToCardinality
<1>7. IsFiniteSet(P) /\ Cardinality(P) = NCalls * Items
  <2>1. IsFiniteSet(P) /\ Cardinality(P) = Cardinality(1..NCalls) * Cardinality(1..Items)
    <3>1. IsFiniteSet(1..NCalls) /\ IsFiniteSet(1..Items)
      BY <1>6
    <3> QED
      BY <3>1, FS_Product, Zenon
  <2> QED
    BY <1>6, <2>1
<1> HIDE DEF S, P
<1>8. Cardinality(S) <= Cardinality(P)
  BY <1>5, <1>7, FS_Injection
<1> QED
  BY <1>6, <1>7, <1>8

(* A true receipt is one of an item, by a uri within the bound.            *)
LEMMA VouchedTyped ==
  ASSUME SubmitInv, BlobsInv, NEW r \in AnyReceipt, Vouched(r)
  PROVE  r \in Receipts
<1>1. PICK n \in Int : n = NCalls * Items
  BY SubmitAssumption
<1>2. Len(stores) \in Nat /\ DOMAIN stores = 1..Len(stores) /\ Len(stores) <= n
  BY <1>1, BlobsBounded DEF SubmitInv, Typed, GatewayTyped
<1>3. r.uri \in 1..n
  BY <1>2 DEF Vouched, AnyReceipt
<1>4. r.item \in 1..Items /\ r.artifact \in Artifacts
  BY DEF Vouched, BlobsInv
<1> QED
  BY <1>1, <1>3, <1>4 DEF AnyReceipt, Receipts, Uris

(* Every variable has its type: whatever is handed round, a list of        *)
(* receipts never outgrows the items of the artifact.                      *)
THEOREM SubmitTypeCorrect == Spec => []TypeOK
<1>1. SubmitInv /\ OutcomeInv => TypeOK
  <2> SUFFICES ASSUME SubmitInv, OutcomeInv PROVE TypeOK
    OBVIOUS
  <2>0. SubmitInv /\ BlobsInv
    BY DEF OutcomeInv
  <2>1. /\ pc \in [Calls -> {"idle", "ok", "failed", "rejected", "crashed"} \cup Running]
        /\ artifact \in [Calls -> Artifacts \cup {None}]
        /\ margin \in [Calls -> BOOLEAN]
    BY DEF SubmitInv, Typed, CallsTyped, Names
  <2>2. resumed \in [Calls -> [1..Items -> Uris \cup {None}]]
    <3>1. ASSUME NEW c \in Calls, NEW i \in 1..Items
          PROVE  resumed[c][i] \in Uris \cup {None}
      <4> DEFINE r == Receipt(artifact[c], i, resumed[c][i])
      <4>1. CASE resumed[c][i] # None
        <5>1. resumed[c][i] \in Nat /\ artifact[c] \in Names /\ i \in Nat
          <6>1. resumed[c] \in [1..Items -> Nat] /\ artifact[c] \in Names
            BY DEF SubmitInv, Typed, CallsTyped
          <6> QED
            BY <6>1, SubmitAssumption
        <5>2. r \in AnyReceipt /\ Vouched(r)
          BY <4>1, <5>1 DEF SubmitInv, ReceiptsInv, AnyReceipt, Receipt
        <5>3. r \in Receipts
          BY <2>0, <5>2, VouchedTyped
        <5> QED
          BY <5>3 DEF Receipts, Receipt
      <4> QED
        BY <4>1
    <3> QED
      BY <3>1 DEF SubmitInv, Typed, CallsTyped
  <2>3. quote \in [Calls -> 0..NQuotes]
    <3>1. ASSUME NEW c \in Calls
          PROVE  quote[c] \in 0..NQuotes
      <4>1. /\ quote[c] \in Nat
            /\ quote[c] # None => quote[c] \in DOMAIN quotes
            /\ quotes \in Seq(AnyQuote) /\ Len(quotes) <= NQuotes
        BY DEF SubmitInv, Typed, CallsTyped, GatewayTyped, LocksInv, OutcomeInv
      <4> QED
        BY <4>1, SubmitAssumption DEF None
    <3> QED
      BY <3>1 DEF SubmitInv, Typed, CallsTyped
  <2>4. ASSUME NEW c \in Calls
        PROVE  /\ uploads[c] \in Seq(Receipts) /\ Len(uploads[c]) <= Items
               /\ returned[c] \in Seq(Receipts) /\ Len(returned[c]) <= Items
               /\ earned[c] \subseteq Receipts
    <3>1. ASSUME NEW l \in Seq(AnyReceipt), InItemOrder(l), \A k \in DOMAIN l : Vouched(l[k])
          PROVE  l \in Seq(Receipts) /\ Len(l) <= Items
      <4>1. \A k \in DOMAIN l : l[k] \in Receipts
        BY <2>0, <3>1, VouchedTyped
      <4>2. l \in Seq(Receipts)
        BY <4>1
      <4>3. \A k \in DOMAIN l : l[k].item \in 1..Items
        BY <4>1 DEF Receipts
      <4> QED
        BY <3>1, <4>2, <4>3, OrderedIsShort
    <3>2. uploads[c] \in Seq(AnyReceipt) /\ InItemOrder(uploads[c])
          /\ \A k \in DOMAIN uploads[c] : Vouched(uploads[c][k])
      <4>1. /\ uploads[c] \in Seq(AnyReceipt)
            /\ \A k \in DOMAIN uploads[c] : Vouched(uploads[c][k]) /\ uploads[c][k].item = k
        BY DEF SubmitInv, Typed, CallsTyped, ReceiptsInv
      <4> QED
        BY <4>1 DEF InItemOrder
    <3>3. /\ returned[c] \in Seq(AnyReceipt) /\ InItemOrder(returned[c])
          /\ \A k \in DOMAIN returned[c] : Vouched(returned[c][k])
      BY DEF OutcomeInv, ReturnedInv
    <3>4. \A r \in earned[c] : r \in AnyReceipt /\ Vouched(r)
      BY DEF OutcomeInv, EarnedInv
    <3> QED
      BY <2>0, <3>1, <3>2, <3>3, <3>4, VouchedTyped
  <2>5. kept \subseteq Receipts
    <3>1. \A r \in kept : r \in AnyReceipt /\ Vouched(r)
      BY DEF SubmitInv, Typed, CallsTyped, ReceiptsInv
    <3> QED
      BY <2>0, <3>1, VouchedTyped
  <2>6. \A q \in DOMAIN quotes :
          quotes[q] \in [price : Prices, stage : {"fresh", "stale", "expired"}, used : BOOLEAN]
    <3>1. \A q \in DOMAIN quotes : quotes[q] \in AnyQuote
      BY DEF SubmitInv, Typed, GatewayTyped
    <3> QED
      BY <3>1 DEF AnyQuote
  <2>7. \A u \in DOMAIN stores : stores[u].artifact \in Artifacts /\ stores[u].item \in 1..Items
    BY <2>0 DEF BlobsInv
  <2> QED
    BY <2>1, <2>2, <2>3, <2>4, <2>5, <2>6, <2>7 DEF TypeOK
<1> QED
  BY <1>1, SubmitInvAlways, OutcomeInvAlways, PTL

-----------------------------------------------------------------------------
(* Live locks.                                                             *)

(* While a signer takes less than the skew, a lock that has the margin     *)
(* when refreshQuoteIfStale() tests it, or is taken there, is still live   *)
(* when the record is published.                                           *)
LEMMA MarginStep ==
  ASSUME SubmitInv, SubmitInv', ~SlowSigner, MarginInv, [Next]_vars
  PROVE  MarginInv'
<1> USE DEF MarginInv
<1> DEFINE Ready(d) == margin[d] /\ quotes[quote[d]].stage # "expired"
<1>0. /\ \A d \in Calls : pc[d] \in {"refresh", "sign", "publish"} =>
            quote[d] \in DOMAIN quotes
      /\ quotes \in Seq(AnyQuote)
      /\ pc \in [Calls -> {"idle", "ok", "failed", "rejected", "crashed"} \cup Running]
      /\ quote \in [Calls -> Nat] /\ margin \in [Calls -> BOOLEAN]
  BY DEF SubmitInv, LocksInv, Locked, Typed, CallsTyped, GatewayTyped
<1>1. ASSUME NEW c \in Calls, NEW stage, stage \notin {"sign", "publish"},
             pc' = [pc EXCEPT ![c] = stage],
             \A d \in Calls : d # c => quote'[d] = quote[d] /\ margin'[d] = margin[d],
             \A q \in DOMAIN quotes : quotes'[q].stage = quotes[q].stage
      PROVE  MarginInv'
  BY <1>0, <1>1
<1>2. ASSUME NEW price, PostQuote(price)
      PROVE  /\ \A q \in DOMAIN quotes : quotes'[q] = quotes[q]
             /\ quotes'[Len(quotes) + 1].stage = "fresh"
  BY <1>0, <1>2 DEF PostQuote
<1>3. ASSUME NEW c \in Calls, Begin(c)
      PROVE  MarginInv'
  <2>1. /\ \E stage \in {"quote", "rejected"} : pc' = [pc EXCEPT ![c] = stage]
        /\ \A d \in Calls : d # c => quote'[d] = quote[d] /\ margin'[d] = margin[d]
        /\ quotes' = quotes
    BY <1>0, <1>3 DEF Begin, Start, Rejected, Goto, lockVars, gatewayVars
  <2> QED
    BY <1>1, <2>1
<1>4. ASSUME NEW c \in Calls, LockFirst(c)
      PROVE  MarginInv'
  <2>1. /\ \E stage \in {"upload", "failed"} : pc' = [pc EXCEPT ![c] = stage]
        /\ \A d \in Calls : d # c => quote'[d] = quote[d] /\ margin'[d] = margin[d]
        /\ UNCHANGED quotes \/ \E price : PostQuote(price)
    BY <1>0, <1>4 DEF LockFirst, Lock, Fail, Settle, Goto, gatewayVars
  <2>2. \A q \in DOMAIN quotes : quotes'[q] = quotes[q]
    BY <1>2, <2>1
  <2>3. \A q \in DOMAIN quotes : quotes'[q].stage = quotes[q].stage
    BY <2>2
  <2> QED
    BY <1>1, <2>1, <2>3
<1>5. ASSUME NEW c \in Calls, Refresh(c)
      PROVE  MarginInv'
  <2>1. CASE /\ QuoteIsFresh(quote[c]) /\ pc' = [pc EXCEPT ![c] = "sign"]
             /\ margin' = [margin EXCEPT ![c] = quotes[quote[c]].stage = "fresh"]
             /\ UNCHANGED <<quote, quotes>>
    <3>1. quotes[quote[c]].stage = "fresh"
      BY <2>1 DEF QuoteIsFresh
    <3>2. margin' = [margin EXCEPT ![c] = TRUE]
      BY <2>1, <3>1
    <3> QED
      BY <1>0, <2>1, <3>1, <3>2
  <2>2. ASSUME NEW price, PostQuote(price), Lock(c, Len(quotes) + 1, price, TRUE, "sign")
        PROVE  MarginInv'
    <3>1. /\ quote' = [quote EXCEPT ![c] = Len(quotes) + 1]
          /\ margin' = [margin EXCEPT ![c] = TRUE]
          /\ \E stage \in {"sign", "failed"} : pc' = [pc EXCEPT ![c] = stage]
      BY <2>2 DEF Lock, Fail, Settle, Goto
    <3>2. /\ \A q \in DOMAIN quotes : quotes'[q] = quotes[q]
          /\ quotes'[Len(quotes) + 1].stage = "fresh"
      BY <1>2, <2>2
    <3> QED
      BY <1>0, <3>1, <3>2
  <2> QED
    BY <1>5, <2>1, <2>2 DEF Refresh, Goto, gatewayVars
<1>6. ASSUME NEW c \in Calls, StepFails(c) \/ UploadFails(c) \/ Crash(c)
                             \/ SkipUploaded(c) \/ UploadAnswered(c)
      PROVE  MarginInv'
  <2>1. /\ \E stage \in {"upload", "refresh", "failed", "crashed"} : pc' = [pc EXCEPT ![c] = stage]
        /\ UNCHANGED <<quote, margin, quotes>>
    BY <1>6 DEF StepFails, UploadFails, Crash, SkipUploaded, UploadAnswered, Push, StoreItem, Fail,
                Settle, Goto, lockVars, gatewayVars
  <2> QED
    BY <1>1, <2>1
<1>7. ASSUME NEW c \in Calls, Signed(c)
      PROVE  MarginInv'
  <2>1. pc[c] = "sign" /\ pc' = [pc EXCEPT ![c] = "publish"] /\ UNCHANGED <<quote, margin, quotes>>
    BY <1>7 DEF Signed, Goto, lockVars, gatewayVars
  <2> QED
    BY <1>0, <2>1
<1>8. ASSUME NEW c \in Calls, PublishAnswered(c) \/ PublishFails(c)
      PROVE  MarginInv'
  <2>1. /\ pc[c] = "publish"
        /\ \E stage \in {"ok", "failed"} : pc' = [pc EXCEPT ![c] = stage]
        /\ UNCHANGED <<quote, margin>>
        /\ UNCHANGED quotes \/ quotes' = [quotes EXCEPT ![quote[c]].used = TRUE]
    BY <1>8 DEF PublishAnswered, PublishFails, Accept, Settle, Goto, lockVars, gatewayVars
  <2>2. \A q \in DOMAIN quotes : quotes'[q].stage = quotes[q].stage
    <3>1. quote[c] \in DOMAIN quotes /\ quotes[quote[c]] \in AnyQuote
      BY <1>0, <2>1
    <3>2. [quotes[quote[c]] EXCEPT !.used = TRUE].stage = quotes[quote[c]].stage
      BY <3>1 DEF AnyQuote
    <3> QED
      BY <1>0, <2>1, <3>1, <3>2
  <2> QED
    BY <1>1, <2>1, <2>2
<1>9. ASSUME Preview \/ UNCHANGED vars
      PROVE  MarginInv'
  <2>1. /\ UNCHANGED <<pc, quote, margin>>
        /\ UNCHANGED quotes \/ \E price : PostQuote(price)
    BY <1>9 DEF Preview, vars, lockVars, gatewayVars
  <2>2. \A q \in DOMAIN quotes : quotes'[q] = quotes[q]
    BY <1>2, <2>1
  <2> QED
    BY <1>0, <2>1, <2>2
<1>10. ASSUME NEW q \in DOMAIN quotes, QuoteAges(q)
       PROVE  MarginInv'
  <2>1. /\ UNCHANGED <<pc, quote, margin>>
        /\ \/ quotes' = [quotes EXCEPT ![q].stage = "stale"]
           \/ /\ quotes' = [quotes EXCEPT ![q].stage = "expired"]
              /\ \A c \in Calls : ~(quote[c] = q /\ margin[c] /\ pc[c] \in {"sign", "publish"})
    BY <1>10 DEF QuoteAges, lockVars
  <2>2. ASSUME NEW d \in Calls, pc[d] \in {"sign", "publish"}
        PROVE  margin[d] /\ quotes'[quote[d]].stage # "expired"
    <3>1. margin[d] /\ quotes[quote[d]].stage # "expired" /\ quote[d] \in DOMAIN quotes
      BY <1>0, <2>2
    <3>2. CASE quote[d] # q
      BY <1>0, <2>1, <3>1, <3>2
    <3>3. CASE quote[d] = q
      <4>1. quotes' = [quotes EXCEPT ![q].stage = "stale"]
        BY <2>1, <2>2, <3>1, <3>3
      <4>2. quotes[q] \in AnyQuote
        BY <1>0
      <4> QED
        BY <1>0, <3>1, <3>3, <4>1, <4>2 DEF AnyQuote
    <3> QED
      BY <3>2, <3>3
  <2> QED
    BY <2>1, <2>2
<1> QED
  BY <1>3, <1>4, <1>5, <1>6, <1>7, <1>8, <1>9, <1>10 DEF Next, Work

(* A record is published against a quote that has not expired, for every   *)
(* signer quicker than the skew (QUOTE_EXPIRY_SKEW_MS in publish.ts); a    *)
(* slower one breaks it, as MCSubmitSlowSigner.cfg shows.                  *)
THEOREM LiveQuoteCorrect ==
  ASSUME ~SlowSigner
  PROVE  Spec => []PublishAgainstLiveQuote
<1>1. Init => MarginInv
  BY DEF Init, MarginInv
<1>2. SubmitInv /\ SubmitInv' /\ MarginInv /\ [Next]_vars => MarginInv'
  BY MarginStep
<1>3. MarginInv => PublishAgainstLiveQuote
  BY DEF MarginInv, PublishAgainstLiveQuote
<1> QED
  BY <1>1, <1>2, <1>3, SubmitInvAlways, PTL DEF Spec

=============================================================================
