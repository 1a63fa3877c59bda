---------------------------- MODULE VerifierProofs ----------------------------
(***************************************************************************)
(* Proofs about Verifier: a run advances, what it reports of a transaction *)
(* it could not have, and what it judges when it could.                    *)
(***************************************************************************)
EXTENDS Verifier, RecordValidatorProofs

-----------------------------------------------------------------------------
(* The place of a run.                                                     *)

Phases == {"start", "resolve", "record", "claims", "done"}
Steps == {"cbor", "info", "tip"}
IsAttempt(a) ==
  /\ a = [provider |-> a.provider, step |-> a.step, tx |-> a.tx, height |-> a.height,
          times |-> a.times, notFound |-> a.notFound, mismatch |-> a.mismatch]
  /\ a.provider \in Nat /\ a.step \in Steps
  /\ a.notFound \in BOOLEAN /\ a.mismatch \in BOOLEAN
Cursors == [claim : Nat, uri : Nat, gateway : Nat, limitExceeded : BOOLEAN]
PlaceInv == phase \in Phases /\ IsAttempt(attempt) /\ cursor \in Cursors

-----------------------------------------------------------------------------
(* The explorer consulted next.                                            *)
LEMMA NextAttempt ==
  ASSUME IsAttempt(attempt), NEW kind
  PROVE  /\ IsAttempt(recordAttempt(kind))
         /\ recordAttempt(kind).provider = attempt.provider + 1
         /\ recordAttempt(kind).step = "cbor" /\ recordAttempt(kind).tx = << >>
         /\ recordAttempt(kind).notFound = (attempt.notFound \/ kind = "not_found")
         /\ recordAttempt(kind).mismatch = (attempt.mismatch \/ kind = "integrity_mismatch")
<1> DEFINE nf == attempt.notFound \/ kind = "not_found"
           mm == attempt.mismatch \/ kind = "integrity_mismatch"
<1>1. nf \in BOOLEAN /\ mm \in BOOLEAN
  BY DEF IsAttempt
<1>2. recordAttempt(kind) = [provider |-> attempt.provider + 1, step |-> "cbor", tx |-> << >>,
                             height |-> 0, times |-> TRUE, notFound |-> nf, mismatch |-> mm]
  <2> HIDE DEF nf, mm
  <2>1. recordAttempt(kind) = [FirstAttempt EXCEPT !.provider = attempt.provider + 1,
                                                   !.notFound = nf, !.mismatch = mm]
    BY DEF recordAttempt, nf, mm
  <2> QED
    BY <2>1 DEF FirstAttempt
<1>3. attempt.provider + 1 \in Nat
  BY DEF IsAttempt
<1> HIDE DEF nf, mm
<1>4. IsAttempt(recordAttempt(kind))
  BY <1>1, <1>2, <1>3 DEF IsAttempt, Steps
<1>5. recordAttempt(kind).notFound = nf /\ recordAttempt(kind).mismatch = mm
  BY <1>2
<1> QED
  BY <1>2, <1>4, <1>5 DEF nf, mm

LEMMA PlaceInit == Init => PlaceInv
BY DEF Init, PlaceInv, Phases, IsAttempt, FirstAttempt, Steps, Cursors

(* The moves of the cursor.                                                *)
LEMMA CursorMoves ==
  ASSUME cursor \in Cursors
  PROVE  /\ NextUri \in Cursors /\ NextGateway \in Cursors
         /\ [cursor EXCEPT !.limitExceeded = TRUE] \in Cursors
         /\ [claim |-> cursor.claim + 1, uri |-> 0, gateway |-> 1, limitExceeded |-> FALSE]
              \in Cursors
<1>1. NextUri \in Cursors
  BY DEF Cursors, NextUri
<1>2. NextGateway \in Cursors
  BY <1>1 DEF Cursors, NextGateway
<1>3. [cursor EXCEPT !.limitExceeded = TRUE] \in Cursors
  BY DEF Cursors
<1> QED
  BY <1>1, <1>2, <1>3 DEF Cursors

-----------------------------------------------------------------------------
(* The parts of the position.                                              *)
PhaseOrder == << "start", "resolve", "record", "claims", "done" >>
StepOrder == << "cbor", "info", "tip" >>
LEMMA PlaceOf ==
  ASSUME NEW seq, NEW i \in DOMAIN seq, \A j \in DOMAIN seq : seq[j] = seq[i] => j = i
  PROVE  PlaceIn(seq[i], seq) = i
BY DEF PlaceIn

LEMMA PhasePlaces ==
  /\ PlaceIn("start", PhaseOrder) = 1 /\ PlaceIn("resolve", PhaseOrder) = 2
  /\ PlaceIn("record", PhaseOrder) = 3 /\ PlaceIn("claims", PhaseOrder) = 4
  /\ PlaceIn("done", PhaseOrder) = 5
<1>1. DOMAIN PhaseOrder = 1..5
  BY DEF PhaseOrder
<1>2. \A i, j \in DOMAIN PhaseOrder : PhaseOrder[i] = PhaseOrder[j] => i = j
  BY <1>1 DEF PhaseOrder
<1>3. \A i \in DOMAIN PhaseOrder : PlaceIn(PhaseOrder[i], PhaseOrder) = i
  BY <1>2, PlaceOf
<1>4. /\ PhaseOrder[1] = "start" /\ PhaseOrder[2] = "resolve" /\ PhaseOrder[3] = "record"
      /\ PhaseOrder[4] = "claims" /\ PhaseOrder[5] = "done"
  BY DEF PhaseOrder
<1> QED
  BY <1>1, <1>3, <1>4

LEMMA StepPlaces ==
  /\ PlaceIn("cbor", StepOrder) = 1 /\ PlaceIn("info", StepOrder) = 2
  /\ PlaceIn("tip", StepOrder) = 3
<1>1. DOMAIN StepOrder = 1..3
  BY DEF StepOrder
<1>2. \A i, j \in DOMAIN StepOrder : StepOrder[i] = StepOrder[j] => i = j
  BY <1>1 DEF StepOrder
<1>3. \A i \in DOMAIN StepOrder : PlaceIn(StepOrder[i], StepOrder) = i
  BY <1>2, PlaceOf
<1>4. StepOrder[1] = "cbor" /\ StepOrder[2] = "info" /\ StepOrder[3] = "tip"
  BY DEF StepOrder
<1> QED
  BY <1>1, <1>3, <1>4

LEMMA Ahead ==
  ASSUME NEW p, NEW q, DOMAIN p = 1..7, NEW i \in 1..7, p[i] < q[i],
         \A j \in 1..(i - 1) : p[j] = q[j]
  PROVE  Precedes(p, q)
BY DEF Precedes

(* The part of the position that a step advances.                          *)
LEMMA PositionParts ==
  /\ DOMAIN Position = 1..7 /\ Position[1] = PlaceIn(phase, PhaseOrder)
  /\ Position[2] = attempt.provider /\ Position[3] = PlaceIn(attempt.step, StepOrder)
  /\ Position[4] = cursor.claim /\ Position[5] = cursor.uri /\ Position[6] = cursor.gateway
  /\ Position[7] = IF cursor.limitExceeded THEN 1 ELSE 0
BY DEF Position, PhaseOrder, StepOrder

LEMMA PositionPartsNext ==
  /\ DOMAIN Position' = 1..7 /\ Position'[1] = PlaceIn(phase', PhaseOrder)
  /\ Position'[2] = attempt'.provider /\ Position'[3] = PlaceIn(attempt'.step, StepOrder)
  /\ Position'[4] = cursor'.claim /\ Position'[5] = cursor'.uri /\ Position'[6] = cursor'.gateway
  /\ Position'[7] = IF cursor'.limitExceeded THEN 1 ELSE 0
BY DEF Position, PhaseOrder, StepOrder

LEMMA PhaseAdvances ==
  ASSUME PlaceIn(phase, PhaseOrder) < PlaceIn(phase', PhaseOrder)
  PROVE  Precedes(Position, Position')
<1>1. \A j \in 1..(1 - 1) : Position[j] = Position'[j]
  OBVIOUS
<1> QED
  BY <1>1, Ahead, PositionParts, PositionPartsNext

LEMMA ExplorerAdvances ==
  ASSUME phase' = phase,
         \/ attempt.provider < attempt'.provider
         \/ /\ attempt'.provider = attempt.provider
            /\ PlaceIn(attempt.step, StepOrder) < PlaceIn(attempt'.step, StepOrder)
  PROVE  Precedes(Position, Position')
<1>0. Position[1] = Position'[1]
  BY PositionParts, PositionPartsNext
<1>1. CASE attempt.provider < attempt'.provider
  <2>1. \A j \in 1..(2 - 1) : Position[j] = Position'[j]
    BY <1>0
  <2> QED
    BY <1>1, <2>1, Ahead, PositionParts, PositionPartsNext
<1>2. CASE /\ attempt'.provider = attempt.provider
           /\ PlaceIn(attempt.step, StepOrder) < PlaceIn(attempt'.step, StepOrder)
  <2>1. Position[2] = Position'[2]
    BY <1>2, PositionParts, PositionPartsNext
  <2>2. \A j \in 1..(3 - 1) : Position[j] = Position'[j]
    BY <1>0, <2>1
  <2> QED
    BY <1>2, <2>2, Ahead, PositionParts, PositionPartsNext
<1> QED
  BY <1>1, <1>2

LEMMA CursorAdvances ==
  ASSUME phase' = phase, attempt' = attempt,
         \/ cursor.claim < cursor'.claim
         \/ cursor'.claim = cursor.claim /\ cursor.uri < cursor'.uri
         \/ /\ cursor'.claim = cursor.claim /\ cursor'.uri = cursor.uri
            /\ cursor.gateway < cursor'.gateway
         \/ /\ cursor'.claim = cursor.claim /\ cursor'.uri = cursor.uri
            /\ cursor'.gateway = cursor.gateway
            /\ cursor.limitExceeded = FALSE /\ cursor'.limitExceeded = TRUE
  PROVE  Precedes(Position, Position')
<1>0. /\ Position[1] = Position'[1] /\ Position[2] = Position'[2] /\ Position[3] = Position'[3]
  BY PositionParts, PositionPartsNext
<1>1. CASE cursor.claim < cursor'.claim
  <2>1. \A j \in 1..(4 - 1) : Position[j] = Position'[j]
    BY <1>0
  <2> QED
    BY <1>1, <2>1, Ahead, PositionParts, PositionPartsNext
<1>2. ASSUME cursor'.claim = cursor.claim
      PROVE  \A j \in 1..(5 - 1) : Position[j] = Position'[j]
  <2>1. Position[4] = Position'[4]
    BY <1>2, PositionParts, PositionPartsNext
  <2> QED
    BY <1>0, <2>1
<1>3. CASE cursor'.claim = cursor.claim /\ cursor.uri < cursor'.uri
  BY <1>2, <1>3, Ahead, PositionParts, PositionPartsNext
<1>4. ASSUME cursor'.claim = cursor.claim, cursor'.uri = cursor.uri
      PROVE  \A j \in 1..(6 - 1) : Position[j] = Position'[j]
  <2>1. Position[5] = Position'[5]
    BY <1>4, PositionParts, PositionPartsNext
  <2> QED
    BY <1>2, <1>4, <2>1
<1>5. CASE /\ cursor'.claim = cursor.claim /\ cursor'.uri = cursor.uri
           /\ cursor.gateway < cursor'.gateway
  BY <1>4, <1>5, Ahead, PositionParts, PositionPartsNext
<1>6. CASE /\ cursor'.claim = cursor.claim /\ cursor'.uri = cursor.uri
           /\ cursor'.gateway = cursor.gateway
           /\ cursor.limitExceeded = FALSE /\ cursor'.limitExceeded = TRUE
  <2>1. Position[6] = Position'[6] /\ Position[7] = 0 /\ Position'[7] = 1
    BY <1>6, PositionParts, PositionPartsNext
  <2>2. \A j \in 1..(7 - 1) : Position[j] = Position'[j]
    BY <1>4, <1>6, <2>1
  <2> QED
    BY <2>1, <2>2, Ahead, PositionParts
<1> QED
  BY <1>1, <1>3, <1>5, <1>6

-----------------------------------------------------------------------------
(* What each action does to the position.                                  *)
LEMMA PhaseLeaves ==
  ASSUME PlaceInv, phase \in {"start", "resolve", "record", "claims"},
         attempt' = attempt, cursor' = cursor,
         \/ phase = "start" /\ phase' \in {"resolve", "record", "done"}
         \/ phase = "resolve" /\ phase' \in {"record", "done"}
         \/ phase = "record" /\ phase' \in {"claims", "done"}
         \/ phase = "claims" /\ phase' = "done"
  PROVE  PlaceInv' /\ Precedes(Position, Position')
<1>1. PlaceInv'
  BY DEF PlaceInv, IsAttempt, Phases
<1>2. PlaceIn(phase, PhaseOrder) < PlaceIn(phase', PhaseOrder)
  BY PhasePlaces
<1> QED
  BY <1>1, <1>2, PhaseAdvances

LEMMA AsksOn ==
  ASSUME PlaceInv, phase' = phase, cursor' = cursor, IsAttempt(attempt'),
         \/ attempt'.provider = attempt.provider + 1
         \/ /\ attempt'.provider = attempt.provider
            /\ \/ attempt.step = "cbor" /\ attempt'.step = "info"
               \/ attempt.step = "info" /\ attempt'.step = "tip"
  PROVE  PlaceInv' /\ Precedes(Position, Position')
<1>1. PlaceInv'
  BY DEF PlaceInv
<1>2. attempt.provider \in Nat
  BY DEF PlaceInv, IsAttempt
<1>3. CASE attempt'.provider = attempt.provider + 1
  BY <1>1, <1>2, <1>3, ExplorerAdvances
<1>4. CASE /\ attempt'.provider = attempt.provider
           /\ \/ attempt.step = "cbor" /\ attempt'.step = "info"
              \/ attempt.step = "info" /\ attempt'.step = "tip"
  <2>1. PlaceIn(attempt.step, StepOrder) < PlaceIn(attempt'.step, StepOrder)
    BY <1>4, StepPlaces
  <2> QED
    BY <1>1, <1>4, <2>1, ExplorerAdvances
<1> QED
  BY <1>3, <1>4

LEMMA UnservedAdvances ==
  ASSUME PlaceInv, NEW kind, Unserved(kind), UNCHANGED cursor
  PROVE  PlaceInv' /\ Precedes(Position, Position')
<1>1. IsAttempt(attempt)
  BY DEF PlaceInv
<1>2. attempt' = recordAttempt(kind) /\ phase' = phase
  BY DEF Unserved
<1> QED
  BY <1>1, <1>2, NextAttempt, AsksOn

LEMMA DeniedAdvances ==
  ASSUME PlaceInv, phase = "resolve", Denied, UNCHANGED cursor
  PROVE  PlaceInv' /\ Precedes(Position, Position')
BY PhaseLeaves DEF Denied, Conclude

LEMMA ServedAdvances ==
  ASSUME PlaceInv, phase = "resolve", NEW depth, Served(depth), UNCHANGED cursor
  PROVE  PlaceInv' /\ Precedes(Position, Position')
BY PhaseLeaves DEF Served

LEMMA FetchTxCborAdvances ==
  ASSUME PlaceInv, FetchTxCbor
  PROVE  PlaceInv' /\ Precedes(Position, Position')
<1>1. phase = "resolve" /\ attempt.step = "cbor" /\ UNCHANGED cursor
  BY DEF FetchTxCbor, ResolveStep
<1>2. PICK answer :
        IF answer.kind = "denied" THEN Denied
        ELSE IF answer.kind # "tx"
        THEN Unserved(IF answer.kind = NegativeAnswer THEN "not_found" ELSE "unusable")
        ELSE IF bindFetchedTx(answer.tx) # "bound" THEN Unserved(bindFetchedTx(answer.tx))
        ELSE /\ attempt' = [attempt EXCEPT !.step = "info", !.tx = answer.tx]
             /\ UNCHANGED << phase, resolved, report >>
  BY DEF FetchTxCbor
<1>3. CASE Denied
  BY <1>1, <1>3, DeniedAdvances
<1>4. CASE \E kind : Unserved(kind)
  BY <1>1, <1>4, UnservedAdvances
<1>5. CASE /\ attempt' = [attempt EXCEPT !.step = "info", !.tx = answer.tx]
           /\ UNCHANGED << phase, resolved, report >>
  <2>1. attempt' = [provider |-> attempt.provider, step |-> "info", tx |-> answer.tx,
                    height |-> attempt.height, times |-> attempt.times,
                    notFound |-> attempt.notFound, mismatch |-> attempt.mismatch]
    BY <1>5 DEF PlaceInv, IsAttempt
  <2>2. IsAttempt(attempt') /\ attempt'.provider = attempt.provider /\ attempt'.step = "info"
    BY <2>1 DEF PlaceInv, IsAttempt, Steps
  <2> QED
    BY <1>1, <1>5, <2>2, AsksOn
<1> QED
  BY <1>2, <1>3, <1>4, <1>5

LEMMA FetchTxInfoAdvances ==
  ASSUME PlaceInv, FetchTxInfo
  PROVE  PlaceInv' /\ Precedes(Position, Position')
<1>1. phase = "resolve" /\ attempt.step = "info" /\ UNCHANGED cursor
  BY DEF FetchTxInfo, ResolveStep
<1>2. PICK answer :
        IF answer.kind = "denied" THEN Denied
        ELSE IF answer.kind = "unusable" THEN Unserved("unusable")
        ELSE IF answer.kind = "confirmations"
        THEN IF ViaKoios /\ answer.n >= 1 /\ answer.times THEN Served(answer.n)
             ELSE Unserved("unusable")
        ELSE IF ~ViaKoios /\ ~answer.times THEN Unserved("unusable")
        ELSE /\ attempt' = [attempt EXCEPT !.step = "tip", !.height = answer.n,
                                           !.times = answer.times]
             /\ UNCHANGED << phase, resolved, report >>
  BY DEF FetchTxInfo
<1>3. CASE Denied
  BY <1>1, <1>3, DeniedAdvances
<1>4. CASE Unserved("unusable")
  BY <1>1, <1>4, UnservedAdvances
<1>5. CASE Served(answer.n)
  BY <1>1, <1>5, ServedAdvances
<1>6. CASE /\ attempt' = [attempt EXCEPT !.step = "tip", !.height = answer.n,
                                         !.times = answer.times]
           /\ UNCHANGED << phase, resolved, report >>
  <2>1. attempt' = [provider |-> attempt.provider, step |-> "tip", tx |-> attempt.tx,
                    height |-> answer.n, times |-> answer.times,
                    notFound |-> attempt.notFound, mismatch |-> attempt.mismatch]
    BY <1>6 DEF PlaceInv, IsAttempt
  <2>2. IsAttempt(attempt') /\ attempt'.provider = attempt.provider /\ attempt'.step = "tip"
    BY <2>1 DEF PlaceInv, IsAttempt, Steps
  <2> QED
    BY <1>1, <1>6, <2>2, AsksOn
<1> QED
  BY <1>2, <1>3, <1>4, <1>5, <1>6

LEMMA FetchTipAdvances ==
  ASSUME PlaceInv, FetchTip
  PROVE  PlaceInv' /\ Precedes(Position, Position')
<1>1. phase = "resolve" /\ UNCHANGED cursor
  BY DEF FetchTip, ResolveStep
<1>2. Denied \/ Unserved("unusable") \/ \E depth : Served(depth)
  BY DEF FetchTip
<1> QED
  BY <1>1, <1>2, DeniedAdvances, UnservedAdvances, ServedAdvances

LEMMA JudgeRecordAdvances ==
  ASSUME PlaceInv, JudgeRecord
  PROVE  PlaceInv' /\ Precedes(Position, Position')
<1>1. phase = "record" /\ UNCHANGED << attempt, cursor >>
  BY DEF JudgeRecord
<1>2. \/ \E code : Refused(code)
      \/ \E rec, validation : JudgeBody(rec, validation)
  BY DEF JudgeRecord
<1>3. phase' \in {"claims", "done"}
  BY <1>2 DEF Refused, JudgeBody, Conclude
<1> QED
  BY <1>1, <1>3, PhaseLeaves

(* The moves among the claims.                                             *)
LEMMA SettleAdvances ==
  ASSUME PlaceInv, UNCHANGED << phase, attempt >>, NEW check, NEW outcome, NEW list,
         Settle(check, outcome, list)
  PROVE  PlaceInv' /\ Precedes(Position, Position')
<1>1. cursor' = [claim |-> cursor.claim + 1, uri |-> 0, gateway |-> 1, limitExceeded |-> FALSE]
  BY DEF Settle
<1>2. cursor \in Cursors
  BY DEF PlaceInv
<1>3. cursor' \in Cursors
  BY <1>1, <1>2, CursorMoves
<1>4. cursor.claim < cursor'.claim
  BY <1>1, <1>2 DEF Cursors
<1> QED
  BY <1>3, <1>4, CursorAdvances DEF PlaceInv

LEMMA GoAdvances ==
  ASSUME PlaceInv, UNCHANGED << phase, attempt >>, NEW next, NEW list, Go(next, list),
         next \in {NextUri, NextGateway}
  PROVE  PlaceInv' /\ Precedes(Position, Position')
<1>1. cursor \in Cursors /\ cursor' = next
  BY DEF PlaceInv, Go
<1>2. cursor' \in Cursors
  BY <1>1, CursorMoves
<1>3. CASE next = NextUri
  <2>1. cursor'.claim = cursor.claim /\ cursor.uri < cursor'.uri
    BY <1>1, <1>3 DEF NextUri, Cursors
  <2> QED
    BY <1>2, <2>1, CursorAdvances DEF PlaceInv
<1>4. CASE next = [cursor EXCEPT !.gateway = cursor.gateway + 1]
  <2>1. /\ cursor'.claim = cursor.claim /\ cursor'.uri = cursor.uri
        /\ cursor.gateway < cursor'.gateway
    BY <1>1, <1>4 DEF Cursors
  <2> QED
    BY <1>2, <2>1, CursorAdvances DEF PlaceInv
<1> QED
  BY <1>3, <1>4 DEF NextGateway

LEMMA ConsumeAdvances ==
  ASSUME PlaceInv, UNCHANGED << phase, attempt >>, NEW content, NEW isAttributable, NEW path,
         NEW next, Consume(content, isAttributable, path, next), next \in {NextUri, NextGateway}
  PROVE  PlaceInv' /\ Precedes(Position, Position')
<1>1. \/ \E list : Go(next, list)
      \/ \E check, outcome, list : Settle(check, outcome, list)
  BY DEF Consume
<1> QED
  BY <1>1, GoAdvances, SettleAdvances

LEMMA FetchedBlob ==
  ASSUME FetchBlob
  PROVE  \/ \E list : Go(NextGateway, list)
         \/ \E list : Go([cursor EXCEPT !.limitExceeded = TRUE], list)
         \/ \E content, isAttributable : Consume(content, isAttributable, UriPath, NextGateway)
<1>1. PICK answer \in {[kind |-> k, claim |-> cursor.claim] : k \in {"denied", "failed", "too_large"}}
                        \cup {[kind |-> "body", claim |-> cursor.claim, content |-> c] :
                                c \in input.contents} :
        CASE answer.kind = "denied" ->
               Go(NextGateway, << issueOf("SERVICE_INDEPENDENCE_VIOLATION", UriPath) >>)
          [] answer.kind = "failed" ->
               Go(NextGateway, << issueOf("URI_FETCH_FAILED", UriPath) >>)
          [] answer.kind = "too_large" -> Go([cursor EXCEPT !.limitExceeded = TRUE], << >>)
          [] answer.kind = "body" ->
               Consume(answer.content, attributable(Uri, answer.content), UriPath, NextGateway)
  BY DEF FetchBlob
<1>2. answer.kind \in {"denied", "failed", "too_large", "body"}
  BY <1>1
<1>3. CASE answer.kind = "denied"
  <2>1. Go(NextGateway, << issueOf("SERVICE_INDEPENDENCE_VIOLATION", UriPath) >>)
    BY <1>1, <1>3
  <2> QED
    BY <2>1
<1>4. CASE answer.kind = "failed"
  <2>1. Go(NextGateway, << issueOf("URI_FETCH_FAILED", UriPath) >>)
    BY <1>1, <1>4
  <2> QED
    BY <2>1
<1>5. CASE answer.kind = "too_large"
  <2>1. Go([cursor EXCEPT !.limitExceeded = TRUE], << >>)
    BY <1>1, <1>5
  <2> QED
    BY <2>1
<1>6. CASE answer.kind = "body"
  <2>1. Consume(answer.content, attributable(Uri, answer.content), UriPath, NextGateway)
    BY <1>1, <1>6
  <2> QED
    BY <2>1
<1> QED
  BY <1>2, <1>3, <1>4, <1>5, <1>6

LEMMA FetchBlobAdvances ==
  ASSUME PlaceInv, FetchBlob
  PROVE  PlaceInv' /\ Precedes(Position, Position')
<1>1. UNCHANGED << phase, attempt >> /\ cursor.limitExceeded = FALSE
  BY DEF FetchBlob, AtClaim, SourcesLeft, PlaceInv, Cursors
<1>2. \/ \E list : Go(NextGateway, list)
      \/ \E list : Go([cursor EXCEPT !.limitExceeded = TRUE], list)
      \/ \E content, isAttributable : Consume(content, isAttributable, UriPath, NextGateway)
  BY FetchedBlob
<1>3. CASE \E list : Go([cursor EXCEPT !.limitExceeded = TRUE], list)
  <2>1. cursor \in Cursors /\ cursor' = [cursor EXCEPT !.limitExceeded = TRUE]
    BY <1>3 DEF PlaceInv, Go
  <2>2. cursor' \in Cursors
    BY <2>1, CursorMoves
  <2>3. /\ cursor'.claim = cursor.claim /\ cursor'.uri = cursor.uri
        /\ cursor'.gateway = cursor.gateway /\ cursor'.limitExceeded = TRUE
    BY <2>1 DEF Cursors
  <2> QED
    BY <1>1, <2>2, <2>3, CursorAdvances DEF PlaceInv
<1> QED
  BY <1>1, <1>2, <1>3, GoAdvances, ConsumeAdvances

LEMMA ClaimAdvances ==
  ASSUME PlaceInv, SettleUnseen \/ OutOfBandBlob \/ RefuseUri \/ FetchBlob \/ EndOfSources
  PROVE  PlaceInv' /\ Precedes(Position, Position')
<1>1. UNCHANGED << phase, attempt >>
  BY DEF SettleUnseen, OutOfBandBlob, RefuseUri, FetchBlob, EndOfSources, AtClaim
<1>2. CASE SettleUnseen \/ EndOfSources
  <2>1. \E check, outcome, list : Settle(check, outcome, list)
    BY <1>2 DEF SettleUnseen, EndOfSources
  <2> QED
    BY <1>1, <2>1, SettleAdvances
<1>3. CASE OutOfBandBlob \/ RefuseUri
  <2>1. \/ \E list : Go(NextUri, list)
        \/ \E content, isAttributable, path : Consume(content, isAttributable, path, NextUri)
    BY <1>3 DEF OutOfBandBlob, RefuseUri
  <2> QED
    BY <1>1, <2>1, GoAdvances, ConsumeAdvances
<1> QED
  BY <1>2, <1>3, FetchBlobAdvances

LEMMA NextAdvances ==
  ASSUME PlaceInv, [Next]_vars
  PROVE  PlaceInv' /\ (UNCHANGED vars \/ Precedes(Position, Position'))
<1>1. CASE UNCHANGED vars
  BY <1>1 DEF vars, PlaceInv, IsAttempt
<1>2. CASE verifyTx \/ verifyResolved \/ NoProviderLeft \/ Finish
  BY <1>2, PhaseLeaves DEF verifyTx, verifyResolved, NoProviderLeft, Finish, Conclude
<1>3. CASE FetchTxCbor \/ FetchTxInfo \/ FetchTip \/ JudgeRecord
  BY <1>3, FetchTxCborAdvances, FetchTxInfoAdvances, FetchTipAdvances, JudgeRecordAdvances
<1>4. CASE SettleUnseen \/ OutOfBandBlob \/ RefuseUri \/ FetchBlob \/ EndOfSources
  BY <1>4, ClaimAdvances
<1>5. CASE Reported
  BY <1>1, <1>5 DEF Reported
<1> QED
  BY <1>1, <1>2, <1>3, <1>4, <1>5 DEF Next

(* A run keeps its place: the phases, the explorer consulted and the       *)
(* cursor stay what they are declared to be.                               *)
THEOREM PlaceKept == Spec => []PlaceInv
<1>1. PlaceInv /\ [Next]_vars => PlaceInv'
  BY NextAdvances
<1> QED
  BY <1>1, PlaceInit, PTL DEF Spec

(* A run goes forward at every step, explorer by explorer, claim by claim, *)
(* URI by URI and gateway by gateway, whatever they answer.                *)
THEOREM EveryStepAdvancesThm == Spec => EveryStepAdvances
<1>1. PlaceInv /\ [Next]_vars => [Precedes(Position, Position')]_vars
  BY NextAdvances
<1> QED
  BY <1>1, PlaceKept, PTL DEF Spec, EveryStepAdvances


-----------------------------------------------------------------------------
(* What an explorer serves is bound exactly when it is the transaction     *)
(* asked for.                                                              *)
LEMMA Bound ==
  ASSUME input \in Inputs, input.entry = "tx", NEW b
  PROVE  /\ sliceTxComponents(b).ok \in BOOLEAN
         /\ ~sliceTxComponents(b).ok => bindFetchedTx(b) = "unusable"
         /\ sliceTxComponents(b).ok /\ SameTx(b, input.genuine) => bindFetchedTx(b) = "bound"
         /\ sliceTxComponents(b).ok /\ ~SameTx(b, input.genuine) =>
              bindFetchedTx(b) = "integrity_mismatch"
<1> DEFINE c == sliceTxComponents(b)  g == sliceTxComponents(input.genuine)
           h == input.txHash  body == c.txBody  aux == c.auxiliaryData
           Committed == auxiliaryDataHashFromTxBody(body)
           HashOf(a) == IF a = << >> THEN Missing ELSE blake2b256(a)
<1>1. c.ok \in BOOLEAN
  BY DEF sliceTxComponents, Malformed, TxParts
<1>2. g.ok /\ bindTransactionBytes(h, g.txBody, g.auxiliaryData) = "ok"
  BY GenuineAssumption
<1>3. \A x, y : blake2b256(x) = blake2b256(y) => x = y
  BY DEF blake2b256, Digest
<1>4. \A x, y : HashOf(x) = HashOf(y) => x = y
  <2>1. \A x : blake2b256(x) # Missing
    BY DEF blake2b256, Digest, Missing
  <2> HIDE DEF HashOf
  <2> QED
    BY <2>1, <1>3 DEF HashOf
<1>5. \A x, a : bindTransactionBytes(h, x, a) = "ok" <=>
                  /\ h = blake2b256(x) /\ auxiliaryDataHashFromTxBody(x).ok
                  /\ auxiliaryDataHashFromTxBody(x).hash = HashOf(a)
  BY DEF bindTransactionBytes
<1> HIDE DEF HashOf
<1>6. bindTransactionBytes(h, body, aux) = "ok" <=> SameTx(b, input.genuine)
  <2>1. SameTx(b, input.genuine) <=> body = g.txBody /\ aux = g.auxiliaryData
    BY DEF SameTx
  <2> HIDE DEF h, body, aux, g
  <2>2. ASSUME bindTransactionBytes(h, body, aux) = "ok"
        PROVE  body = g.txBody /\ aux = g.auxiliaryData
    <3>1. body = g.txBody
      BY <1>2, <1>3, <1>5, <2>2
    <3> QED
      BY <1>2, <1>4, <1>5, <2>2, <3>1
  <2> QED
    BY <1>2, <2>1, <2>2
<1> QED
  BY <1>1, <1>6 DEF bindFetchedTx


-----------------------------------------------------------------------------
(* The audit trail, one call longer.                                       *)
LEMMA Longer ==
  ASSUME NEW S, NEW trail \in Seq(S), NEW e \in S
  PROVE  LET t == Append(trail, e)  k == Len(trail) + 1 IN
         /\ t \in Seq(S) /\ Len(t) = k /\ DOMAIN t = DOMAIN trail \cup {k}
         /\ k \notin DOMAIN trail /\ t[k] = e /\ \A i \in DOMAIN trail : t[i] = trail[i]
         /\ Len(trail) \in Nat /\ DOMAIN trail = 1..Len(trail)
<1> DEFINE t == Append(trail, e)
<1>1. /\ t \in Seq(S) /\ Len(t) = Len(trail) + 1 /\ Len(trail) \in Nat
      /\ DOMAIN trail = 1..Len(trail) /\ DOMAIN t = 1..(Len(trail) + 1)
  OBVIOUS
<1>2. t[Len(trail) + 1] = e /\ \A i \in DOMAIN trail : t[i] = trail[i]
  OBVIOUS
<1> HIDE DEF t
<1>3. DOMAIN t = DOMAIN trail \cup {Len(trail) + 1} /\ Len(trail) + 1 \notin DOMAIN trail
  BY <1>1
<1> QED
  BY <1>1, <1>2, <1>3 DEF t

LEMMA CborCallsFinite ==
  ASSUME NEW S, NEW trail \in Seq(S)
  PROVE  /\ IsFiniteSet(CborCalls(trail)) /\ Cardinality(CborCalls(trail)) \in Nat
         /\ CborCalls(trail) \subseteq 1..Len(trail)
<1>1. Len(trail) \in Nat /\ DOMAIN trail = 1..Len(trail)
  OBVIOUS
<1>2. IsFiniteSet(1..Len(trail))
  BY <1>1, FS_Interval
<1>3. CborCalls(trail) \subseteq 1..Len(trail)
  BY <1>1 DEF CborCalls
<1>4. IsFiniteSet(CborCalls(trail))
  BY <1>2, <1>3, FS_Subset
<1> QED
  BY <1>3, <1>4, FS_CardinalityType

LEMMA LongerTrail ==
  ASSUME NEW S, NEW trail \in Seq(S), NEW e \in S, NEW call
  PROVE  LET t == Append(trail, e)  k == Len(trail) + 1 IN
         /\ CborCalls(t) = CborCalls(trail) \cup (IF e.purpose = "tx_cbor" THEN {k} ELSE {})
         /\ DeniedAt(t) = DeniedAt(trail) \cup (IF e.answer.kind = "denied" THEN {k} ELSE {})
         /\ ForgedAt(call, t) =
              ForgedAt(call, trail)
                \cup (IF /\ e.purpose = "tx_cbor" /\ e.answer.kind = "tx"
                         /\ sliceTxComponents(e.answer.tx).ok
                         /\ ~SameTx(e.answer.tx, call.genuine) THEN {k} ELSE {})
<1> DEFINE t == Append(trail, e)  k == Len(trail) + 1
<1>1. /\ DOMAIN t = DOMAIN trail \cup {k} /\ k \notin DOMAIN trail /\ t[k] = e
      /\ \A i \in DOMAIN trail : t[i] = trail[i]
  BY Longer
<1> HIDE DEF t, k
<1>2. CborCalls(t) = CborCalls(trail) \cup (IF e.purpose = "tx_cbor" THEN {k} ELSE {})
  BY <1>1 DEF CborCalls
<1>3. DeniedAt(t) = DeniedAt(trail) \cup (IF e.answer.kind = "denied" THEN {k} ELSE {})
  BY <1>1 DEF DeniedAt
<1>4. CborCalls(trail) \subseteq DOMAIN trail
  BY DEF CborCalls
<1>5. ForgedAt(call, t) =
        ForgedAt(call, trail)
          \cup (IF /\ e.purpose = "tx_cbor" /\ e.answer.kind = "tx"
                   /\ sliceTxComponents(e.answer.tx).ok
                   /\ ~SameTx(e.answer.tx, call.genuine) THEN {k} ELSE {})
  <2>1. ASSUME NEW i PROVE i \in ForgedAt(call, t) <=>
          \/ i \in ForgedAt(call, trail)
          \/ /\ i = k /\ e.purpose = "tx_cbor" /\ e.answer.kind = "tx"
             /\ sliceTxComponents(e.answer.tx).ok /\ ~SameTx(e.answer.tx, call.genuine)
    <3>1. CASE i = k
      BY <3>1, <1>1, <1>2, <1>4 DEF ForgedAt
    <3>2. CASE i # k
      <4>1. i \in CborCalls(t) <=> i \in CborCalls(trail)
        BY <3>2, <1>2
      <4>2. i \in CborCalls(trail) => t[i] = trail[i]
        BY <1>1, <1>4
      <4> QED
        BY <3>2, <4>1, <4>2 DEF ForgedAt
    <3> QED
      BY <3>1, <3>2
  <2> QED
    BY <2>1
<1> QED
  BY <1>2, <1>3, <1>5 DEF t, k

(* The answers counted: a call for the transaction is one more.            *)
LEMMA LongerAsks ==
  ASSUME NEW S, NEW trail \in Seq(S), NEW e \in S
  PROVE  LET t == Append(trail, e)  k == Len(trail) + 1 IN
         /\ \A i \in DOMAIN trail : Asks(t, i) = Asks(trail, i)
         /\ e.purpose = "tx_cbor" =>
              /\ Cardinality(CborCalls(t)) = Cardinality(CborCalls(trail)) + 1
              /\ Asks(t, k) = Cardinality(CborCalls(trail)) + 1
         /\ e.purpose # "tx_cbor" => Cardinality(CborCalls(t)) = Cardinality(CborCalls(trail))
<1> DEFINE t == Append(trail, e)  k == Len(trail) + 1
<1>1. /\ k \notin DOMAIN trail /\ Len(trail) \in Nat /\ DOMAIN trail = 1..Len(trail)
  BY Longer
<1>2. CborCalls(t) = CborCalls(trail) \cup (IF e.purpose = "tx_cbor" THEN {k} ELSE {})
  BY LongerTrail
<1>3. IsFiniteSet(CborCalls(trail)) /\ CborCalls(trail) \subseteq 1..Len(trail)
  BY CborCallsFinite
<1> HIDE DEF t
<1>4. ASSUME NEW i \in DOMAIN trail PROVE Asks(t, i) = Asks(trail, i)
  <2>1. ~(k =< i)
    BY <1>1
  <2>2. {j \in CborCalls(t) : j =< i} = {j \in CborCalls(trail) : j =< i}
    <3> HIDE DEF k
    <3> QED
      BY <2>1, <1>2
  <2> QED
    BY <2>2 DEF Asks
<1>5. ASSUME e.purpose = "tx_cbor"
      PROVE  /\ Cardinality(CborCalls(t)) = Cardinality(CborCalls(trail)) + 1
             /\ Asks(t, k) = Cardinality(CborCalls(trail)) + 1
  <2>1. CborCalls(t) = CborCalls(trail) \cup {k} /\ k \notin CborCalls(trail)
    BY <1>1, <1>2, <1>3, <1>5
  <2>2. Cardinality(CborCalls(t)) = Cardinality(CborCalls(trail)) + 1
    BY <2>1, <1>3, FS_AddElement
  <2>3. \A j \in CborCalls(t) : j =< k
    BY <2>1, <1>1, <1>3
  <2>4. {j \in CborCalls(t) : j =< k} = CborCalls(t)
    BY <2>3
  <2> QED
    BY <2>2, <2>4 DEF Asks
<1>6. e.purpose # "tx_cbor" => CborCalls(t) = CborCalls(trail)
  BY <1>2
<1> QED
  BY <1>4, <1>5, <1>6 DEF t

LEMMA LongerNegative ==
  ASSUME NEW S, NEW trail \in Seq(S), NEW e \in S, NEW call
  PROVE  LET t == Append(trail, e)  k == Len(trail) + 1 IN
         /\ e.purpose # "tx_cbor" => NegativeAt(call, t) = NegativeAt(call, trail)
         /\ e.purpose = "tx_cbor" =>
              NegativeAt(call, t) =
                NegativeAt(call, trail)
                  \cup (IF e.answer.kind = (IF Cardinality(CborCalls(trail)) + 1 =< call.koios
                                            THEN "empty" ELSE "status404") THEN {k} ELSE {})
<1> DEFINE t == Append(trail, e)  k == Len(trail) + 1
           asked == Cardinality(CborCalls(trail)) + 1
<1>1. k \notin DOMAIN trail /\ t[k] = e /\ \A i \in DOMAIN trail : t[i] = trail[i]
  BY Longer
<1>2. CborCalls(t) = CborCalls(trail) \cup (IF e.purpose = "tx_cbor" THEN {k} ELSE {})
  BY LongerTrail
<1>3. /\ \A i \in DOMAIN trail : Asks(t, i) = Asks(trail, i)
      /\ e.purpose = "tx_cbor" => Asks(t, k) = asked
  BY LongerAsks
<1>4. CborCalls(trail) \subseteq DOMAIN trail
  BY DEF CborCalls
<1> HIDE DEF t, k, asked
<1>5. ASSUME NEW i, i # k PROVE i \in NegativeAt(call, t) <=> i \in NegativeAt(call, trail)
  <2>1. i \in CborCalls(t) <=> i \in CborCalls(trail)
    BY <1>2, <1>5
  <2>2. i \in CborCalls(trail) => t[i] = trail[i] /\ Asks(t, i) = Asks(trail, i)
    BY <1>1, <1>3, <1>4
  <2> QED
    BY <2>1, <2>2 DEF NegativeAt
<1>6. k \notin NegativeAt(call, trail)
  BY <1>1, <1>4 DEF NegativeAt
<1>7. k \in NegativeAt(call, t) <=>
        /\ e.purpose = "tx_cbor"
        /\ e.answer.kind = IF asked =< call.koios THEN "empty" ELSE "status404"
  BY <1>1, <1>2, <1>3, <1>4 DEF NegativeAt
<1>8. ASSUME e.purpose # "tx_cbor" PROVE NegativeAt(call, t) = NegativeAt(call, trail)
  <2>1. \A i : i \in NegativeAt(call, t) <=> i \in NegativeAt(call, trail)
    BY <1>5, <1>6, <1>7, <1>8
  <2>2. NegativeAt(call, t) \subseteq NegativeAt(call, trail)
    BY <2>1
  <2>3. NegativeAt(call, trail) \subseteq NegativeAt(call, t)
    BY <2>1
  <2> QED
    BY <2>2, <2>3
<1>9. e.purpose = "tx_cbor" =>
        NegativeAt(call, t) =
          NegativeAt(call, trail)
            \cup (IF e.answer.kind = (IF asked =< call.koios THEN "empty" ELSE "status404")
                  THEN {k} ELSE {})
  BY <1>5, <1>6, <1>7
<1> QED
  BY <1>8, <1>9 DEF t, k, asked


-----------------------------------------------------------------------------
(* The chain of explorers.  What it has been asked is what the trail says: *)
(* the explorer consulted counts the calls for the transaction, and what   *)
(* the others left is a mismatch exactly when one served other bytes, a    *)
(* not found exactly when one denied the transaction.                      *)
Answers(call) ==
  {[kind |-> k] : k \in {"denied", "unusable", "empty", "status404"}}
    \cup {[kind |-> "tx", tx |-> b] : b \in call.txs}
    \cup [kind : {"confirmations"}, n : Confirmations, times : BOOLEAN]
    \cup [kind : {"height"}, n : Heights, times : BOOLEAN]
    \cup [kind : {"height"}, n : Heights]
    \cup {[kind |-> k, claim |-> n] : k \in {"denied", "failed", "too_large"}, n \in Nat}
    \cup {[kind |-> "body", claim |-> n, content |-> c] : n \in Nat, c \in call.contents}
AuditEntries(call) ==
  [purpose : {"tx_cbor", "tx_info", "tip", "content"}, answer : Answers(call)]
TrailInv == input \in Inputs /\ auditTrail \in Seq(AuditEntries(input))

AskedAgainAfterForged(call, trail) ==
  \A i \in ForgedAt(call, trail) : i < Len(trail) => i + 1 \in CborCalls(trail)
ChainAsked ==
  /\ resolved = NoTxResolved /\ attempt.provider \in 1..(Providers + 1)
  /\ attempt.provider = Cardinality(CborCalls(auditTrail))
                          + IF attempt.step = "cbor" THEN 1 ELSE 0
  /\ attempt.step # "cbor" => /\ attempt.provider =< Providers
                              /\ Len(auditTrail) \notin ForgedAt(input, auditTrail)
  /\ attempt.mismatch <=> ForgedAt(input, auditTrail) # {}
  /\ attempt.notFound <=> NegativeAt(input, auditTrail) # {}
  /\ DeniedAt(auditTrail) = {}
ChainReported ==
  resolved = NoTxResolved /\ DeniedAt(auditTrail) = {} =>
    /\ Cardinality(CborCalls(auditTrail)) = Providers
    /\ Codes(report.issues) = {ChainVerdict(input, auditTrail)}
    /\ report.verdict = "unverifiable"
ChainInv ==
  input.entry = "tx" =>
    /\ AskedAgainAfterForged(input, auditTrail)
    /\ phase \in {"start", "resolve"} => ChainAsked
    /\ phase \in {"record", "claims"} =>
         resolved.depth # 0 /\ Len(auditTrail) \notin ForgedAt(input, auditTrail)
    /\ phase = "done" => ChainReported

LEMMA ChainVerdictStands ==
  ASSUME NEW code \in {"TX_INTEGRITY_MISMATCH", "TX_NOT_FOUND", "PROVIDER_UNAVAILABLE"}
  PROVE  LET list == << issueOf(code, << >>) >> IN
         verdictFromIssues(list) = "unverifiable" /\ Codes(sortIssues(list)) = {code}
<1> DEFINE list == << issueOf(code, << >>) >>
<1>1. ERROR_CODES[47] = "TX_NOT_FOUND" /\ ERROR_CODES[48] = "PROVIDER_UNAVAILABLE"
      /\ ERROR_CODES[49] = "TX_INTEGRITY_MISMATCH" /\ DOMAIN ERROR_CODES = 1..76
  BY DEF ERROR_CODES
<1>2. code \in ErrorCode
  BY <1>1 DEF ErrorCode, Range
<1>3. SEVERITY[code] = "error"
  BY <1>2 DEF SEVERITY
<1>4. list = << [code |-> code, path |-> << >>, severity |-> "error"] >>
  BY <1>3 DEF issueOf, IssueAs
<1>5. Codes(list) = {code} /\ ErrorsOf(list) = {code}
  BY <1>4 DEF Codes, ErrorsOf
<1>6. verdictFromIssues(list) = "unverifiable"
  BY <1>5 DEF verdictFromIssues, NETWORK_CLASS_CODES
<1>7. list \in Seq({list[1]})
  BY <1>4
<1>8. Codes(sortIssues(list)) = Codes(list)
  <2> HIDE DEF list
  <2> QED
    BY <1>7, SortedCodes
<1> QED
  BY <1>5, <1>6, <1>8

LEMMA TrailAndChainInit == Init => TrailInv /\ ChainInv
<1> SUFFICES ASSUME Init PROVE TrailInv /\ ChainInv
  OBVIOUS
<1>1. /\ input \in Inputs /\ phase = "start" /\ resolved = NoTxResolved /\ auditTrail = << >>
      /\ attempt = FirstAttempt
  BY DEF Init
<1>2. TrailInv
  BY <1>1 DEF TrailInv
<1>3. CborCalls(auditTrail) = {} /\ DeniedAt(auditTrail) = {}
  BY <1>1 DEF CborCalls, DeniedAt
<1>4. ForgedAt(input, auditTrail) = {} /\ NegativeAt(input, auditTrail) = {}
  BY <1>3 DEF ForgedAt, NegativeAt
<1>5. Cardinality(CborCalls(auditTrail)) = 0
  BY <1>3, FS_EmptySet
<1>6. ASSUME input.entry = "tx" PROVE ChainAsked
  <2>1. Providers \in Nat
    BY <1>1, <1>6, GenuineAssumption DEF Providers
  <2>2. attempt.provider = 1 /\ attempt.step = "cbor" /\ attempt.mismatch = FALSE
        /\ attempt.notFound = FALSE
    BY <1>1 DEF FirstAttempt
  <2> QED
    BY <1>1, <1>3, <1>4, <1>5, <2>1, <2>2 DEF ChainAsked
<1> QED
  BY <1>1, <1>2, <1>4, <1>6 DEF ChainInv, AskedAgainAfterForged

(* The trail, one answer longer or as it was.                              *)
LEMMA TrailNext ==
  ASSUME TrailInv, PlaceInv, [Next]_vars
  PROVE  TrailInv'
<1>1. input' = input
  BY DEF Next, vars, verifyTx, verifyResolved, FetchTxCbor, FetchTxInfo, FetchTip, ResolveStep,
         NoProviderLeft, JudgeRecord, SettleUnseen, OutOfBandBlob, RefuseUri, FetchBlob,
         EndOfSources, AtClaim, Finish, Reported
<1>2. \/ UNCHANGED auditTrail
      \/ \E e \in AuditEntries(input) : auditTrail' = Append(auditTrail, e)
  <2>1. CASE FetchTxCbor
    <3>1. PICK answer \in {[kind |-> k] : k \in {"denied", "unusable", "empty", "status404"}}
                            \cup {[kind |-> "tx", tx |-> b] : b \in input.txs} :
            Asked("tx_cbor", answer)
      BY <2>1 DEF FetchTxCbor
    <3>2. answer \in Answers(input)
      BY DEF Answers
    <3> QED
      BY <3>1, <3>2 DEF Asked, AuditEntries
  <2>2. CASE FetchTxInfo
    <3>1. PICK answer \in {[kind |-> k] : k \in {"denied", "unusable"}}
                     \cup [kind : {"confirmations"}, n : Confirmations, times : BOOLEAN]
                     \cup [kind : {"height"}, n : Heights, times : BOOLEAN] :
            Asked("tx_info", answer)
      BY <2>2 DEF FetchTxInfo
    <3>2. answer \in Answers(input)
      BY DEF Answers
    <3> QED
      BY <3>1, <3>2 DEF Asked, AuditEntries
  <2>3. CASE FetchTip
    <3>1. PICK answer \in {[kind |-> k] : k \in {"denied", "unusable"}}
                     \cup [kind : {"height"}, n : Heights] :
            Asked("tip", answer)
      BY <2>3 DEF FetchTip
    <3>2. answer \in Answers(input)
      BY DEF Answers
    <3> QED
      BY <3>1, <3>2 DEF Asked, AuditEntries
  <2>4. CASE FetchBlob
    <3>1. PICK answer \in
            {[kind |-> k, claim |-> cursor.claim] : k \in {"denied", "failed", "too_large"}}
              \cup {[kind |-> "body", claim |-> cursor.claim, content |-> c] :
                      c \in input.contents} :
            Asked("content", answer)
      BY <2>4 DEF FetchBlob
    <3>2. cursor.claim \in Nat
      BY DEF PlaceInv, Cursors
    <3>3. answer \in Answers(input)
      BY <3>2 DEF Answers
    <3> QED
      BY <3>1, <3>3 DEF Asked, AuditEntries
  <2>5. CASE ~(FetchTxCbor \/ FetchTxInfo \/ FetchTip \/ FetchBlob)
    BY <2>5 DEF Next, vars, verifyTx, verifyResolved, NoProviderLeft, JudgeRecord, SettleUnseen,
                OutOfBandBlob, RefuseUri, EndOfSources, Finish, Reported
  <2> QED
    BY <2>1, <2>2, <2>3, <2>4, <2>5
<1> HIDE DEF AuditEntries
<1>3. ASSUME NEW e \in AuditEntries(input), auditTrail' = Append(auditTrail, e)
      PROVE  auditTrail' \in Seq(AuditEntries(input))
  BY <1>3, Longer DEF TrailInv
<1> QED
  BY <1>1, <1>2, <1>3 DEF TrailInv


(* An answer more, and what it leaves of the forged ones.                  *)
LEMMA ForgedAside ==
  ASSUME NEW S, NEW trail \in Seq(S), NEW e \in S, NEW call,
         AskedAgainAfterForged(call, trail),
         e.purpose = "tx_cbor" \/ Len(trail) \notin ForgedAt(call, trail)
  PROVE  LET t == Append(trail, e) IN
         /\ AskedAgainAfterForged(call, t)
         /\ e.purpose # "tx_cbor" =>
              ForgedAt(call, t) = ForgedAt(call, trail) /\ Len(t) \notin ForgedAt(call, t)
<1> DEFINE t == Append(trail, e)  k == Len(trail) + 1
<1>1. Len(t) = k /\ k \notin DOMAIN trail /\ Len(trail) \in Nat /\ DOMAIN trail = 1..Len(trail)
  BY Longer
<1>2. CborCalls(t) = CborCalls(trail) \cup (IF e.purpose = "tx_cbor" THEN {k} ELSE {})
  BY LongerTrail
<1>3. /\ ForgedAt(call, t) \subseteq ForgedAt(call, trail) \cup {k}
      /\ e.purpose # "tx_cbor" => ForgedAt(call, t) = ForgedAt(call, trail)
  <2>1. ForgedAt(call, t) =
          ForgedAt(call, trail)
            \cup (IF /\ e.purpose = "tx_cbor" /\ e.answer.kind = "tx"
                     /\ sliceTxComponents(e.answer.tx).ok
                     /\ ~SameTx(e.answer.tx, call.genuine) THEN {k} ELSE {})
    BY LongerTrail
  <2> HIDE DEF t, k
  <2> QED
    BY <2>1
<1>4. ForgedAt(call, trail) \subseteq DOMAIN trail
  BY DEF ForgedAt, CborCalls
<1> HIDE DEF t
<1>5. ASSUME NEW i \in ForgedAt(call, t), i < Len(t)
      PROVE  i + 1 \in CborCalls(t)
  <2>1. i \in ForgedAt(call, trail) /\ i \in 1..Len(trail)
    BY <1>1, <1>3, <1>4, <1>5
  <2>2. CASE i = Len(trail)
    BY <2>1, <2>2, <1>2
  <2>3. CASE i < Len(trail)
    BY <2>1, <2>3, <1>2 DEF AskedAgainAfterForged
  <2>4. i = Len(trail) \/ i < Len(trail)
    <3>1. i \in 1..Len(trail) /\ Len(trail) \in Nat
      BY <2>1, <1>1
    <3> QED
      BY ONLY <3>1
  <2> QED
    BY <2>2, <2>3, <2>4
<1>6. e.purpose # "tx_cbor" => Len(t) \notin ForgedAt(call, t)
  BY <1>1, <1>3, <1>4
<1> QED
  BY <1>3, <1>5, <1>6 DEF AskedAgainAfterForged, t

(* What a call that is not for the transaction leaves of the chain.        *)
LEMMA AskedElse ==
  ASSUME NEW S, NEW trail \in Seq(S), NEW e \in S, NEW call, e.purpose # "tx_cbor",
         AskedAgainAfterForged(call, trail), Len(trail) \notin ForgedAt(call, trail)
  PROVE  LET t == Append(trail, e) IN
         /\ AskedAgainAfterForged(call, t) /\ Len(t) \notin ForgedAt(call, t)
         /\ ForgedAt(call, t) = ForgedAt(call, trail)
         /\ NegativeAt(call, t) = NegativeAt(call, trail)
         /\ Cardinality(CborCalls(t)) = Cardinality(CborCalls(trail))
         /\ DeniedAt(t) = DeniedAt(trail)
              \cup (IF e.answer.kind = "denied" THEN {Len(trail) + 1} ELSE {})
<1>1. LET t == Append(trail, e) IN
      /\ AskedAgainAfterForged(call, t) /\ Len(t) \notin ForgedAt(call, t)
      /\ ForgedAt(call, t) = ForgedAt(call, trail)
  BY ForgedAside
<1>2. NegativeAt(call, Append(trail, e)) = NegativeAt(call, trail)
  BY LongerNegative
<1>3. Cardinality(CborCalls(Append(trail, e))) = Cardinality(CborCalls(trail))
  BY LongerAsks
<1>4. DeniedAt(Append(trail, e)) = DeniedAt(trail)
        \cup (IF e.answer.kind = "denied" THEN {Len(trail) + 1} ELSE {})
  BY LongerTrail
<1> QED
  BY <1>1, <1>2, <1>3, <1>4

LEMMA FetchTxCborKeepsChain ==
  ASSUME TrailInv, PlaceInv, ChainInv, FetchTxCbor
  PROVE  ChainInv'
<1> SUFFICES ASSUME input'.entry = "tx" PROVE
      /\ AskedAgainAfterForged(input', auditTrail')
      /\ phase' \in {"start", "resolve"} => ChainAsked'
      /\ phase' \in {"record", "claims"} =>
           resolved'.depth # 0 /\ Len(auditTrail') \notin ForgedAt(input', auditTrail')
      /\ phase' = "done" => ChainReported'
  BY DEF ChainInv
<1>1. phase = "resolve" /\ attempt.step = "cbor" /\ attempt.provider =< Providers
      /\ input' = input
  BY DEF FetchTxCbor, ResolveStep
<1>2. PICK answer \in {[kind |-> k] : k \in {"denied", "unusable", "empty", "status404"}}
                        \cup {[kind |-> "tx", tx |-> b] : b \in input.txs} :
        /\ Asked("tx_cbor", answer)
        /\ IF answer.kind = "denied" THEN Denied
           ELSE IF answer.kind # "tx"
           THEN Unserved(IF answer.kind = NegativeAnswer THEN "not_found" ELSE "unusable")
           ELSE IF bindFetchedTx(answer.tx) # "bound" THEN Unserved(bindFetchedTx(answer.tx))
           ELSE /\ attempt' = [attempt EXCEPT !.step = "info", !.tx = answer.tx]
                /\ UNCHANGED << phase, resolved, report >>
  BY DEF FetchTxCbor
<1> DEFINE e == [purpose |-> "tx_cbor", answer |-> answer]
           t == Append(auditTrail, e)  k == Len(auditTrail) + 1
           forged == /\ answer.kind = "tx" /\ sliceTxComponents(answer.tx).ok
                     /\ ~SameTx(answer.tx, input.genuine)
<1>3. answer \in Answers(input)
  BY DEF Answers
<1>4. e \in AuditEntries(input) /\ auditTrail \in Seq(AuditEntries(input)) /\ input \in Inputs
      /\ e.purpose = "tx_cbor" /\ e.answer = answer /\ auditTrail' = t
  BY <1>2, <1>3 DEF AuditEntries, TrailInv, Asked
<1>5. ChainAsked /\ AskedAgainAfterForged(input, auditTrail)
  BY <1>1 DEF ChainInv
<1> DEFINE asked == Cardinality(CborCalls(auditTrail))
<1>6. /\ attempt.provider = asked + 1 /\ asked \in Nat /\ Providers \in Nat
  <2>1. asked \in Nat
    BY <1>4, CborCallsFinite
  <2>2. Providers \in Nat
    BY <1>1, <1>4, GenuineAssumption DEF Providers
  <2> QED
    BY <1>1, <1>5, <2>1, <2>2 DEF ChainAsked
<1> HIDE DEF e, t
<1>7. /\ AskedAgainAfterForged(input, t)
      /\ Cardinality(CborCalls(t)) = asked + 1
      /\ DeniedAt(t) = DeniedAt(auditTrail) \cup (IF answer.kind = "denied" THEN {k} ELSE {})
      /\ ForgedAt(input, t) = ForgedAt(input, auditTrail) \cup (IF forged THEN {k} ELSE {})
      /\ NegativeAt(input, t) =
           NegativeAt(input, auditTrail)
             \cup (IF answer.kind = (IF asked + 1 =< input.koios THEN "empty" ELSE "status404")
                   THEN {k} ELSE {})
  <2>1. AskedAgainAfterForged(input, t)
    BY <1>4, <1>5, ForgedAside DEF t
  <2>2. Cardinality(CborCalls(t)) = asked + 1
    BY <1>4, LongerAsks DEF t
  <2>3. /\ DeniedAt(t) = DeniedAt(auditTrail) \cup (IF answer.kind = "denied" THEN {k} ELSE {})
        /\ ForgedAt(input, t) = ForgedAt(input, auditTrail) \cup (IF forged THEN {k} ELSE {})
    BY <1>4, LongerTrail DEF t
  <2>4. NegativeAt(input, t) =
           NegativeAt(input, auditTrail)
             \cup (IF answer.kind = (IF asked + 1 =< input.koios THEN "empty" ELSE "status404")
                   THEN {k} ELSE {})
    BY <1>4, LongerNegative DEF t
  <2> QED
    BY <2>1, <2>2, <2>3, <2>4
<1>8. (IF asked + 1 =< input.koios THEN "empty" ELSE "status404") = NegativeAnswer
  BY <1>6 DEF NegativeAnswer, ViaKoios
<1> HIDE DEF k, asked
<1>9. CASE Denied
  <2>1. phase' = "done"
    BY <1>9 DEF Denied, Conclude
  <2>2. answer.kind = "denied" => ChainReported'
    BY <1>4, <1>7 DEF ChainReported
  <2>3. answer.kind = "denied"
    BY <1>1, <1>2, <2>1 DEF Unserved
  <2> QED
    BY <1>1, <1>4, <1>7, <2>1, <2>2, <2>3
<1>10. ASSUME NEW kind, Unserved(kind), answer.kind # "denied",
              kind = "integrity_mismatch" <=> forged,
              kind = "not_found" <=> answer.kind = NegativeAnswer
       PROVE  phase' = "resolve" /\ ChainAsked'
  <2>1. IsAttempt(attempt) /\ attempt' = recordAttempt(kind) /\ phase' = "resolve"
        /\ resolved' = resolved
    BY <1>1, <1>10 DEF PlaceInv, Unserved
  <2>2. /\ attempt'.provider = attempt.provider + 1 /\ attempt'.step = "cbor"
        /\ attempt'.notFound = (attempt.notFound \/ kind = "not_found")
        /\ attempt'.mismatch = (attempt.mismatch \/ kind = "integrity_mismatch")
    BY <2>1, NextAttempt
  <2>3. attempt'.mismatch <=> ForgedAt(input, t) # {}
    BY <2>2, <1>5, <1>7, <1>10 DEF ChainAsked
  <2>4. attempt'.notFound <=> NegativeAt(input, t) # {}
    BY <2>2, <1>5, <1>7, <1>8, <1>10 DEF ChainAsked
  <2>5. DeniedAt(t) = {}
    BY <1>5, <1>7, <1>10 DEF ChainAsked
  <2>6. /\ attempt'.provider = Cardinality(CborCalls(t)) + 1
        /\ attempt'.provider \in 1..(Providers + 1)
    BY <2>2, <1>1, <1>6, <1>7
  <2>7. Providers' = Providers
    BY <1>1 DEF Providers
  <2> QED
    BY <1>1, <1>4, <1>5, <2>1, <2>2, <2>3, <2>4, <2>5, <2>6, <2>7 DEF ChainAsked
<1>11. CASE answer.kind # "denied" /\ answer.kind # "tx"
  <2>1. NegativeAnswer \in {"empty", "status404"}
    BY DEF NegativeAnswer
  <2>2. Unserved(IF answer.kind = NegativeAnswer THEN "not_found" ELSE "unusable")
    BY <1>2, <1>11
  <2>3. phase' = "resolve" /\ ChainAsked'
    BY <2>2, <1>10, <1>11
  <2> QED
    BY <2>3, <1>1, <1>4, <1>7
<1>12. CASE answer.kind = "tx"
  <2>1. NegativeAnswer # "tx"
    BY DEF NegativeAnswer
  <2>2. /\ sliceTxComponents(answer.tx).ok \in BOOLEAN
        /\ ~sliceTxComponents(answer.tx).ok => bindFetchedTx(answer.tx) = "unusable"
        /\ sliceTxComponents(answer.tx).ok /\ SameTx(answer.tx, input.genuine) =>
             bindFetchedTx(answer.tx) = "bound"
        /\ sliceTxComponents(answer.tx).ok /\ ~SameTx(answer.tx, input.genuine) =>
             bindFetchedTx(answer.tx) = "integrity_mismatch"
    BY <1>1, <1>4, Bound
  <2>3. CASE bindFetchedTx(answer.tx) # "bound"
    <3>1. Unserved(bindFetchedTx(answer.tx))
      BY <1>2, <1>12, <2>3
    <3>2. bindFetchedTx(answer.tx) = "integrity_mismatch" <=> forged
      BY <2>2, <2>3, <1>12
    <3>3. ~(bindFetchedTx(answer.tx) = "not_found") /\ answer.kind # NegativeAnswer
      BY <2>1, <2>2, <2>3, <1>12
    <3>4. phase' = "resolve" /\ ChainAsked'
      BY <3>1, <3>2, <3>3, <1>10, <1>12
    <3> QED
      BY <3>4, <1>1, <1>4, <1>7
  <2>4. CASE bindFetchedTx(answer.tx) = "bound"
    <3>1. /\ attempt' = [attempt EXCEPT !.step = "info", !.tx = answer.tx]
          /\ phase' = "resolve" /\ resolved' = resolved
      BY <1>1, <1>2, <1>12, <2>4
    <3>2. /\ attempt'.provider = attempt.provider /\ attempt'.step = "info"
          /\ attempt'.notFound = attempt.notFound /\ attempt'.mismatch = attempt.mismatch
      BY <3>1 DEF PlaceInv, IsAttempt
    <3>3. ~forged
      BY <2>2, <2>4
    <3>4. ForgedAt(input, t) = ForgedAt(input, auditTrail) /\ DeniedAt(t) = DeniedAt(auditTrail)
          /\ NegativeAt(input, t) = NegativeAt(input, auditTrail)
      BY <3>3, <2>1, <1>7, <1>8, <1>12
    <3>5. Len(t) \notin ForgedAt(input, t)
      <4>1. Len(t) = k /\ k \notin DOMAIN auditTrail
        BY <1>4, Longer DEF t, k
      <4>2. ForgedAt(input, auditTrail) \subseteq DOMAIN auditTrail
        BY DEF ForgedAt, CborCalls
      <4> QED
        BY <4>1, <4>2, <3>4
    <3>6. Providers' = Providers
      BY <1>1 DEF Providers
    <3>7. attempt'.provider = Cardinality(CborCalls(t)) + 0 /\ attempt'.provider =< Providers
      BY <3>2, <1>1, <1>6, <1>7
    <3>8. ChainAsked'
      BY <1>1, <1>4, <1>5, <3>1, <3>2, <3>4, <3>5, <3>6, <3>7 DEF ChainAsked
    <3> QED
      BY <3>1, <3>8, <1>1, <1>4, <1>7
  <2> QED
    BY <2>3, <2>4
<1>13. answer.kind = "denied" => Denied
  BY <1>2
<1> QED
  BY <1>9, <1>11, <1>12, <1>13


(* A call for the height or the depth: the answers about the transaction   *)
(* stay as they were.                                                      *)
LEMMA ElseKeepsChain ==
  ASSUME TrailInv, PlaceInv, ChainInv, input.entry = "tx", phase = "resolve",
         attempt.step # "cbor", input' = input, NEW e \in AuditEntries(input),
         e.purpose # "tx_cbor", auditTrail' = Append(auditTrail, e),
         \/ e.answer.kind = "denied" /\ Denied
         \/ e.answer.kind # "denied" /\ Unserved("unusable")
         \/ \E depth : depth # 0 /\ Served(depth)
         \/ /\ e.answer.kind # "denied" /\ UNCHANGED << phase, resolved >>
            /\ attempt'.provider = attempt.provider /\ attempt'.step # "cbor"
            /\ attempt'.notFound = attempt.notFound /\ attempt'.mismatch = attempt.mismatch
  PROVE  ChainInv'
<1> DEFINE t == Append(auditTrail, e)
<1>1. auditTrail \in Seq(AuditEntries(input)) /\ input \in Inputs
  BY DEF TrailInv
<1>2. ChainAsked /\ AskedAgainAfterForged(input, auditTrail)
  BY DEF ChainInv
<1>3. /\ AskedAgainAfterForged(input, t) /\ Len(t) \notin ForgedAt(input, t)
      /\ ForgedAt(input, t) = ForgedAt(input, auditTrail)
      /\ NegativeAt(input, t) = NegativeAt(input, auditTrail)
      /\ Cardinality(CborCalls(t)) = Cardinality(CborCalls(auditTrail))
      /\ DeniedAt(t) = DeniedAt(auditTrail)
           \cup (IF e.answer.kind = "denied" THEN {Len(auditTrail) + 1} ELSE {})
  BY <1>1, <1>2, AskedElse DEF ChainAsked
<1>4. Cardinality(CborCalls(auditTrail)) \in Nat /\ Providers \in Nat /\ Providers' = Providers
  BY <1>1, CborCallsFinite, GenuineAssumption DEF Providers
<1>5. attempt.provider = Cardinality(CborCalls(auditTrail)) /\ attempt.provider =< Providers
  BY <1>2, <1>4 DEF ChainAsked
<1> HIDE DEF t
<1>6. auditTrail' = t
  BY DEF t
<1>7. CASE e.answer.kind = "denied" /\ Denied
  <2>1. phase' = "done"
    BY <1>7 DEF Denied, Conclude
  <2>2. DeniedAt(t) # {}
    BY <1>3, <1>7
  <2>3. ChainReported'
    BY <1>6, <2>2 DEF ChainReported
  <2> QED
    BY <2>1, <2>3, <1>3, <1>6 DEF ChainInv
<1>8. CASE e.answer.kind # "denied" /\ Unserved("unusable")
  <2>1. IsAttempt(attempt) /\ attempt' = recordAttempt("unusable") /\ phase' = phase
        /\ resolved' = resolved
    BY <1>8 DEF PlaceInv, Unserved
  <2>2. /\ attempt'.provider = attempt.provider + 1 /\ attempt'.step = "cbor"
        /\ attempt'.notFound = (attempt.notFound \/ "unusable" = "not_found")
        /\ attempt'.mismatch = (attempt.mismatch \/ "unusable" = "integrity_mismatch")
    BY <2>1, NextAttempt
  <2>3. attempt.notFound \in BOOLEAN /\ attempt.mismatch \in BOOLEAN
    BY <2>1 DEF IsAttempt
  <2>4. attempt'.notFound = attempt.notFound /\ attempt'.mismatch = attempt.mismatch
    BY <2>2, <2>3
  <2>5. /\ attempt'.provider = Cardinality(CborCalls(t)) + 1
        /\ attempt'.provider \in 1..(Providers + 1)
    BY <2>2, <1>3, <1>4, <1>5
  <2>6. DeniedAt(t) = {}
    BY <1>2, <1>3, <1>8 DEF ChainAsked
  <2>7. ChainAsked'
    BY <1>2, <1>3, <1>4, <1>6, <2>1, <2>2, <2>4, <2>5, <2>6 DEF ChainAsked
  <2> QED
    BY <2>1, <2>7, <1>3, <1>6 DEF ChainInv
<1>9. CASE \E depth : depth # 0 /\ Served(depth)
  <2>1. phase' = "record" /\ resolved'.depth # 0
    BY <1>9 DEF Served
  <2> QED
    BY <2>1, <1>3, <1>6 DEF ChainInv
<1>10. CASE /\ e.answer.kind # "denied" /\ UNCHANGED << phase, resolved >>
            /\ attempt'.provider = attempt.provider /\ attempt'.step # "cbor"
            /\ attempt'.notFound = attempt.notFound /\ attempt'.mismatch = attempt.mismatch
  <2>1. DeniedAt(t) = {}
    BY <1>2, <1>3, <1>10 DEF ChainAsked
  <2>2. attempt'.provider = Cardinality(CborCalls(t)) + 0 /\ attempt'.provider =< Providers
        /\ attempt'.provider \in 1..(Providers + 1)
    BY <1>2, <1>3, <1>4, <1>5, <1>10 DEF ChainAsked
  <2>3. ChainAsked'
    BY <1>2, <1>3, <1>4, <1>6, <1>10, <2>1, <2>2 DEF ChainAsked
  <2> QED
    BY <2>3, <1>3, <1>6, <1>10 DEF ChainInv
<1> QED
  BY <1>7, <1>8, <1>9, <1>10

LEMMA FetchTxInfoKeepsChain ==
  ASSUME TrailInv, PlaceInv, ChainInv, input.entry = "tx", FetchTxInfo
  PROVE  ChainInv'
<1>1. phase = "resolve" /\ attempt.step = "info" /\ input' = input
  BY DEF FetchTxInfo, ResolveStep
<1>2. PICK answer \in {[kind |-> k] : k \in {"denied", "unusable"}}
                        \cup [kind : {"confirmations"}, n : Confirmations, times : BOOLEAN]
                        \cup [kind : {"height"}, n : Heights, times : BOOLEAN] :
        /\ Asked("tx_info", answer)
        /\ IF answer.kind = "denied" THEN Denied
           ELSE IF answer.kind = "unusable" THEN Unserved("unusable")
           ELSE IF answer.kind = "confirmations"
           THEN IF ViaKoios /\ answer.n >= 1 /\ answer.times THEN Served(answer.n)
                ELSE Unserved("unusable")
           ELSE IF ~ViaKoios /\ ~answer.times THEN Unserved("unusable")
           ELSE /\ attempt' = [attempt EXCEPT !.step = "tip", !.height = answer.n,
                                              !.times = answer.times]
                /\ UNCHANGED << phase, resolved, report >>
  BY DEF FetchTxInfo
<1> DEFINE e == [purpose |-> "tx_info", answer |-> answer]
<1>3. answer \in Answers(input)
  BY DEF Answers
<1>4. e \in AuditEntries(input) /\ e.purpose # "tx_cbor" /\ e.answer = answer
      /\ auditTrail' = Append(auditTrail, e)
  BY <1>2, <1>3 DEF AuditEntries, Asked
<1> HIDE DEF e
<1>5. CASE answer.kind = "denied"
  BY <1>1, <1>2, <1>4, <1>5, ElseKeepsChain
<1>6. CASE answer.kind # "denied" /\ Unserved("unusable")
  BY <1>1, <1>4, <1>6, ElseKeepsChain
<1>7. CASE answer.n >= 1 /\ Served(answer.n)
  <2>1. answer.n # 0
    BY <1>7
  <2> QED
    BY <1>1, <1>4, <1>7, <2>1, ElseKeepsChain
<1>8. CASE /\ answer.kind # "denied"
           /\ attempt' = [attempt EXCEPT !.step = "tip", !.height = answer.n,
                                         !.times = answer.times]
           /\ UNCHANGED << phase, resolved, report >>
  <2>1. /\ attempt'.provider = attempt.provider /\ attempt'.step = "tip"
        /\ attempt'.notFound = attempt.notFound /\ attempt'.mismatch = attempt.mismatch
    BY <1>8 DEF PlaceInv, IsAttempt
  <2> QED
    BY <1>1, <1>4, <1>8, <2>1, ElseKeepsChain
<1> QED
  BY <1>2, <1>5, <1>6, <1>7, <1>8

LEMMA FetchTipKeepsChain ==
  ASSUME TrailInv, PlaceInv, ChainInv, input.entry = "tx", FetchTip
  PROVE  ChainInv'
<1>1. phase = "resolve" /\ attempt.step = "tip" /\ input' = input
  BY DEF FetchTip, ResolveStep
<1>2. PICK answer \in {[kind |-> k] : k \in {"denied", "unusable"}}
                        \cup [kind : {"height"}, n : Heights] :
        /\ Asked("tip", answer)
        /\ IF answer.kind = "denied" THEN Denied
           ELSE IF answer.kind = "unusable" \/ ~attempt.times THEN Unserved("unusable")
           ELSE IF depthFromHeights(answer.n, attempt.height) < 1 THEN Unserved("unusable")
           ELSE Served(depthFromHeights(answer.n, attempt.height))
  BY DEF FetchTip
<1> DEFINE e == [purpose |-> "tip", answer |-> answer]
<1>3. answer \in Answers(input)
  BY DEF Answers
<1>4. e \in AuditEntries(input) /\ e.purpose # "tx_cbor" /\ e.answer = answer
      /\ auditTrail' = Append(auditTrail, e)
  BY <1>2, <1>3 DEF AuditEntries, Asked
<1> HIDE DEF e
<1>5. CASE answer.kind = "denied"
  BY <1>1, <1>2, <1>4, <1>5, ElseKeepsChain
<1>6. CASE answer.kind # "denied" /\ Unserved("unusable")
  BY <1>1, <1>4, <1>6, ElseKeepsChain
<1>7. CASE /\ ~(depthFromHeights(answer.n, attempt.height) < 1)
           /\ Served(depthFromHeights(answer.n, attempt.height))
  <2>1. depthFromHeights(answer.n, attempt.height) # 0
    BY <1>7
  <2> QED
    BY <1>1, <1>4, <1>7, <2>1, ElseKeepsChain
<1> QED
  BY <1>2, <1>5, <1>6, <1>7

LEMMA NoProviderLeftKeepsChain ==
  ASSUME TrailInv, PlaceInv, ChainInv, input.entry = "tx", NoProviderLeft
  PROVE  ChainInv'
<1> DEFINE code == IF attempt.mismatch THEN "TX_INTEGRITY_MISMATCH"
                   ELSE IF attempt.notFound THEN "TX_NOT_FOUND" ELSE "PROVIDER_UNAVAILABLE"
           list == << issueOf(code, << >>) >>
<1>1. /\ phase = "resolve" /\ attempt.provider > Providers
      /\ Conclude(verdictFromIssues(list), list)
      /\ UNCHANGED << input, resolved, auditTrail >>
  BY DEF NoProviderLeft
<1>2. ChainAsked /\ AskedAgainAfterForged(input, auditTrail)
  BY <1>1 DEF ChainInv
<1>3. code = ChainVerdict(input, auditTrail)
  BY <1>2 DEF ChainAsked, ChainVerdict
<1>4. code \in {"TX_INTEGRITY_MISMATCH", "TX_NOT_FOUND", "PROVIDER_UNAVAILABLE"}
  OBVIOUS
<1>5. Cardinality(CborCalls(auditTrail)) \in Nat /\ Providers \in Nat
  BY CborCallsFinite, GenuineAssumption DEF TrailInv, Providers
<1>6. Cardinality(CborCalls(auditTrail)) = Providers
  BY <1>1, <1>2, <1>5 DEF ChainAsked
<1> HIDE DEF code
<1>7. verdictFromIssues(list) = "unverifiable" /\ Codes(sortIssues(list)) = {code}
  BY <1>4, ChainVerdictStands
<1>8. phase' = "done" /\ report'.issues = sortIssues(list) /\ report'.verdict = "unverifiable"
  BY <1>1, <1>7 DEF Conclude, assembleReport
<1>9. Providers' = Providers
  BY <1>1 DEF Providers
<1>10. ChainReported'
  BY <1>1, <1>3, <1>6, <1>7, <1>8, <1>9 DEF ChainReported
<1> QED
  BY <1>1, <1>2, <1>8, <1>10 DEF ChainInv

(* Past the chain: the calls are for contents, and the depth stays.        *)
LEMMA BeyondKeepsChain ==
  ASSUME TrailInv, PlaceInv, ChainInv, input.entry = "tx", UNCHANGED << input, resolved >>,
         phase \in {"record", "claims"}, phase' \in {"record", "claims", "done"},
         \/ UNCHANGED auditTrail
         \/ \E e \in AuditEntries(input) :
              e.purpose # "tx_cbor" /\ auditTrail' = Append(auditTrail, e)
  PROVE  ChainInv'
<1>1. /\ AskedAgainAfterForged(input, auditTrail) /\ resolved.depth # 0
      /\ Len(auditTrail) \notin ForgedAt(input, auditTrail)
  BY DEF ChainInv
<1>2. resolved' # NoTxResolved /\ resolved'.depth # 0
  BY <1>1 DEF NoTxResolved
<1>3. /\ AskedAgainAfterForged(input, auditTrail')
      /\ Len(auditTrail') \notin ForgedAt(input, auditTrail')
  <2>1. CASE UNCHANGED auditTrail
    BY <2>1, <1>1
  <2>2. ASSUME NEW e \in AuditEntries(input), e.purpose # "tx_cbor",
               auditTrail' = Append(auditTrail, e)
        PROVE  <1>3!:
    <3>1. auditTrail \in Seq(AuditEntries(input))
      BY DEF TrailInv
    <3> QED
      BY <1>1, <2>2, <3>1, AskedElse
  <2> QED
    BY <2>1, <2>2
<1> QED
  BY <1>2, <1>3 DEF ChainInv, ChainReported

LEMMA ChainNext ==
  ASSUME TrailInv, PlaceInv, ChainInv, [Next]_vars
  PROVE  ChainInv'
<1>1. CASE UNCHANGED vars
  BY <1>1 DEF vars, ChainInv, ChainAsked, ChainReported, Providers
<1>2. input' = input
  BY DEF Next, vars, verifyTx, verifyResolved, FetchTxCbor, FetchTxInfo, FetchTip, ResolveStep,
         NoProviderLeft, JudgeRecord, SettleUnseen, OutOfBandBlob, RefuseUri, FetchBlob,
         EndOfSources, AtClaim, Finish, Reported
<1>3. CASE input.entry # "tx"
  BY <1>2, <1>3 DEF ChainInv
<1>4. CASE input.entry = "tx"
  <2>1. CASE verifyTx
    <3>1. /\ phase = "start" /\ phase' = "resolve"
          /\ UNCHANGED << input, attempt, resolved, auditTrail >>
      BY <2>1 DEF verifyTx
    <3> QED
      BY <3>1 DEF ChainInv, ChainAsked, Providers
  <2>2. CASE verifyResolved
    BY <2>2, <1>4 DEF verifyResolved
  <2>3. CASE FetchTxCbor \/ FetchTxInfo \/ FetchTip \/ NoProviderLeft
    BY <2>3, <1>4, FetchTxCborKeepsChain, FetchTxInfoKeepsChain, FetchTipKeepsChain,
       NoProviderLeftKeepsChain
  <2>4. CASE JudgeRecord
    <3>1. phase = "record" /\ UNCHANGED << input, resolved, auditTrail >>
      BY <2>4 DEF JudgeRecord
    <3>2. \/ \E code : Refused(code)
          \/ \E rec, validation : JudgeBody(rec, validation)
      BY <2>4 DEF JudgeRecord
    <3>3. phase' \in {"claims", "done"}
      BY <3>2 DEF Refused, JudgeBody, Conclude
    <3> QED
      BY <1>4, <3>1, <3>3, BeyondKeepsChain
  <2>5. CASE SettleUnseen \/ OutOfBandBlob \/ RefuseUri \/ EndOfSources
    <3>1. phase = "claims" /\ UNCHANGED << input, phase, resolved, auditTrail >>
      BY <2>5 DEF SettleUnseen, OutOfBandBlob, RefuseUri, EndOfSources, AtClaim
    <3> QED
      BY <1>4, <3>1, BeyondKeepsChain
  <2>6. CASE FetchBlob
    <3>1. phase = "claims" /\ UNCHANGED << input, phase, resolved >>
      BY <2>6 DEF FetchBlob, AtClaim
    <3>2. PICK answer \in
            {[kind |-> k, claim |-> cursor.claim] : k \in {"denied", "failed", "too_large"}}
              \cup {[kind |-> "body", claim |-> cursor.claim, content |-> c] :
                      c \in input.contents} :
            Asked("content", answer)
      BY <2>6 DEF FetchBlob
    <3>3. cursor.claim \in Nat
      BY DEF PlaceInv, Cursors
    <3>4. answer \in Answers(input)
      BY <3>3 DEF Answers
    <3> DEFINE e == [purpose |-> "content", answer |-> answer]
    <3>5. e \in AuditEntries(input) /\ e.purpose # "tx_cbor"
          /\ auditTrail' = Append(auditTrail, e)
      BY <3>2, <3>4 DEF AuditEntries, Asked
    <3> HIDE DEF e
    <3> QED
      BY <1>4, <3>1, <3>5, BeyondKeepsChain
  <2>7. CASE Finish
    <3>1. phase = "claims" /\ phase' = "done" /\ UNCHANGED << input, resolved, auditTrail >>
      BY <2>7 DEF Finish
    <3> QED
      BY <1>4, <3>1, BeyondKeepsChain
  <2>8. CASE Reported
    BY <2>8, <1>1 DEF Reported
  <2> QED
    BY <1>1, <2>1, <2>2, <2>3, <2>4, <2>5, <2>6, <2>7, <2>8 DEF Next
<1> QED
  BY <1>3, <1>4

(* What a run says of a transaction it could not have, and that an         *)
(* explorer that served other bytes is asked nothing more.                 *)
THEOREM ResolutionPrecedenceHolds == Spec => []ResolutionPrecedence
<1>1. Init => PlaceInv /\ TrailInv /\ ChainInv
  BY PlaceInit, TrailAndChainInit
<1>2. PlaceInv /\ TrailInv /\ ChainInv /\ [Next]_vars => (PlaceInv /\ TrailInv /\ ChainInv)'
  BY NextAdvances, TrailNext, ChainNext
<1>3. ChainInv => ResolutionPrecedence
  BY DEF ChainInv, ChainReported, AskedAgainAfterForged, ResolutionPrecedence, Done
<1> QED
  BY <1>1, <1>2, <1>3, PTL DEF Spec


-----------------------------------------------------------------------------
(* What is judged is the transaction that was asked for.                   *)
IsGenuine(b) ==
  b \in input.txs /\ sliceTxComponents(b).ok /\ SameTx(b, input.genuine)
GenuineInv ==
  /\ phase = "start" => resolved = NoTxResolved /\ attempt.step = "cbor"
  /\ phase = "resolve" =>
       /\ input.entry = "tx" /\ resolved = NoTxResolved
       /\ attempt.step # "cbor" => IsGenuine(attempt.tx)
  /\ resolved.tx # << >> =>
       /\ input.entry = "tx" /\ IsGenuine(resolved.tx)
       /\ phase = "claims" => record = CarriedBodyOf(resolved.tx).body.value
       /\ Done /\ report.record # Missing => report.record = CarriedBodyOf(resolved.tx).body.value
  /\ Done => report.facts = ChainFacts

LEMMA InputKept ==
  ASSUME [Next]_vars
  PROVE  input' = input
BY DEF Next, vars, verifyTx, verifyResolved, FetchTxCbor, FetchTxInfo, FetchTip, ResolveStep,
       NoProviderLeft, JudgeRecord, SettleUnseen, OutOfBandBlob, RefuseUri, FetchBlob,
       EndOfSources, AtClaim, Finish, Reported

LEMMA GenuineInit == Init => GenuineInv
BY DEF Init, GenuineInv, NoTxResolved, Done, NoReport, FirstAttempt

(* A run that ends before a transaction is known says so.                  *)
LEMMA ConcludeKeepsGenuine ==
  ASSUME UNCHANGED << input, resolved >>, resolved = NoTxResolved, NEW verdict, NEW list,
         Conclude(verdict, list)
  PROVE  GenuineInv'
<1>1. phase' = "done" /\ report' = assembleReport(verdict, list, << >>, << >>, Missing)
  BY DEF Conclude
<1>2. report'.facts = ChainFacts /\ resolved'.tx = << >> /\ ChainFacts' = ChainFacts
  BY <1>1 DEF assembleReport, NoTxResolved, ChainFacts
<1> QED
  BY <1>1, <1>2 DEF GenuineInv

LEMMA ResolveKeepsGenuine ==
  ASSUME GenuineInv, TrailInv, PlaceInv, FetchTxCbor \/ FetchTxInfo \/ FetchTip
  PROVE  GenuineInv'
<1>1. /\ phase = "resolve" /\ UNCHANGED << input, record >>
      /\ input.entry = "tx" /\ resolved = NoTxResolved /\ IsAttempt(attempt)
      /\ attempt.step # "cbor" => IsGenuine(attempt.tx)
  BY DEF FetchTxCbor, FetchTxInfo, FetchTip, ResolveStep, GenuineInv, PlaceInv
<1>2. CASE Denied
  BY <1>1, <1>2, ConcludeKeepsGenuine DEF Denied
<1>3. ASSUME NEW kind, Unserved(kind) PROVE GenuineInv'
  <2>1. phase' = "resolve" /\ resolved' = resolved /\ attempt' = recordAttempt(kind)
    BY <1>1, <1>3 DEF Unserved
  <2>2. attempt'.step = "cbor"
    BY <1>1, <2>1, NextAttempt
  <2> QED
    BY <1>1, <2>1, <2>2 DEF GenuineInv, NoTxResolved, Done
<1>4. ASSUME NEW depth, Served(depth), attempt.step # "cbor" PROVE GenuineInv'
  <2>1. phase' = "record" /\ resolved'.tx = attempt.tx
    BY <1>4 DEF Served
  <2> QED
    BY <1>1, <1>4, <2>1 DEF GenuineInv, IsGenuine, Done
<1>5. ASSUME UNCHANGED << phase, resolved >>, IsGenuine(attempt'.tx) PROVE GenuineInv'
  BY <1>1, <1>5 DEF GenuineInv, IsGenuine, NoTxResolved, Done
<1>6. CASE FetchTxCbor
  <2>1. PICK answer \in {[kind |-> k] : k \in {"denied", "unusable", "empty", "status404"}}
                          \cup {[kind |-> "tx", tx |-> b] : b \in input.txs} :
          IF answer.kind = "denied" THEN Denied
          ELSE IF answer.kind # "tx"
          THEN Unserved(IF answer.kind = NegativeAnswer THEN "not_found" ELSE "unusable")
          ELSE IF bindFetchedTx(answer.tx) # "bound" THEN Unserved(bindFetchedTx(answer.tx))
          ELSE /\ attempt' = [attempt EXCEPT !.step = "info", !.tx = answer.tx]
               /\ UNCHANGED << phase, resolved, report >>
    BY <1>6 DEF FetchTxCbor
  <2>2. CASE /\ answer.kind = "tx" /\ bindFetchedTx(answer.tx) = "bound"
             /\ attempt' = [attempt EXCEPT !.step = "info", !.tx = answer.tx]
             /\ UNCHANGED << phase, resolved, report >>
    <3>1. attempt'.tx = answer.tx
      BY <1>1, <2>2 DEF IsAttempt
    <3>2. answer.tx \in input.txs
      BY <2>2
    <3>3. sliceTxComponents(answer.tx).ok /\ SameTx(answer.tx, input.genuine)
      BY <1>1, <2>2, Bound DEF TrailInv
    <3> QED
      BY <2>2, <3>1, <3>2, <3>3, <1>5 DEF IsGenuine
  <2>3. Denied \/ (\E kind : Unserved(kind))
        \/ /\ answer.kind = "tx" /\ bindFetchedTx(answer.tx) = "bound"
           /\ attempt' = [attempt EXCEPT !.step = "info", !.tx = answer.tx]
           /\ UNCHANGED << phase, resolved, report >>
    BY <2>1
  <2> QED
    BY <2>2, <2>3, <1>2, <1>3
<1>7. CASE FetchTxInfo
  <2>1. attempt.step = "info"
    BY <1>7 DEF FetchTxInfo, ResolveStep
  <2>2. PICK answer :
          IF answer.kind = "denied" THEN Denied
          ELSE IF answer.kind = "unusable" THEN Unserved("unusable")
          ELSE IF answer.kind = "confirmations"
          THEN IF ViaKoios /\ answer.n >= 1 /\ answer.times THEN Served(answer.n)
               ELSE Unserved("unusable")
          ELSE IF ~ViaKoios /\ ~answer.times THEN Unserved("unusable")
          ELSE /\ attempt' = [attempt EXCEPT !.step = "tip", !.height = answer.n,
                                             !.times = answer.times]
               /\ UNCHANGED << phase, resolved, report >>
    BY <1>7 DEF FetchTxInfo
  <2>3. CASE /\ attempt' = [attempt EXCEPT !.step = "tip", !.height = answer.n,
                                           !.times = answer.times]
             /\ UNCHANGED << phase, resolved, report >>
    <3>1. attempt'.tx = attempt.tx
      BY <1>1, <2>3 DEF IsAttempt
    <3> QED
      BY <1>1, <1>5, <2>1, <2>3, <3>1
  <2> QED
    BY <2>1, <2>2, <2>3, <1>2, <1>3, <1>4
<1>8. CASE FetchTip
  <2>1. attempt.step = "tip"
    BY <1>8 DEF FetchTip, ResolveStep
  <2>2. Denied \/ Unserved("unusable") \/ \E depth : Served(depth)
    BY <1>8 DEF FetchTip
  <2> QED
    BY <2>1, <2>2, <1>2, <1>3, <1>4
<1> QED
  BY <1>6, <1>7, <1>8

LEMMA JudgeKeepsGenuine ==
  ASSUME GenuineInv, JudgeRecord
  PROVE  GenuineInv'
<1>1. phase = "record" /\ UNCHANGED << input, attempt, resolved >>
  BY DEF JudgeRecord
<1>2. /\ resolved.tx # << >> => input.entry = "tx" /\ IsGenuine(resolved.tx)
      /\ ChainFacts' = ChainFacts
  BY <1>1 DEF GenuineInv, ChainFacts
<1>3. IsGenuine(resolved.tx) => IsGenuine(resolved.tx)'
  BY <1>1 DEF IsGenuine
<1>4. \/ \E code : Refused(code)
      \/ JudgeBody(CarriedBody.body.value, Validation(input, CarriedBody.body))
  BY DEF JudgeRecord
<1>5. ASSUME NEW verdict, NEW list, Conclude(verdict, list) PROVE GenuineInv'
  <2>1. phase' = "done" /\ report' = assembleReport(verdict, list, << >>, << >>, Missing)
    BY <1>5 DEF Conclude
  <2>2. report'.facts = ChainFacts /\ report'.record = Missing
    BY <2>1 DEF assembleReport
  <2> QED
    BY <1>1, <1>2, <1>3, <2>1, <2>2 DEF GenuineInv
<1>6. CASE \E code : Refused(code)
  BY <1>5, <1>6 DEF Refused
<1>7. CASE JudgeBody(CarriedBody.body.value, Validation(input, CarriedBody.body))
  <2> DEFINE rec == CarriedBody.body.value
  <2>1. resolved.tx # << >> => rec = CarriedBodyOf(resolved.tx).body.value
    BY <1>2 DEF CarriedBody
  <2>2. CASE phase' = "claims" /\ record' = rec
    BY <1>1, <1>2, <1>3, <2>1, <2>2 DEF GenuineInv, Done
  <2>3. ASSUME NEW verdict, NEW list, NEW items, NEW merkle,
               phase' = "done", report' = assembleReport(verdict, list, items, merkle, rec)
        PROVE  GenuineInv'
    <3>1. report'.facts = ChainFacts /\ report'.record = rec
      BY <2>3 DEF assembleReport
    <3> QED
      BY <1>1, <1>2, <1>3, <2>1, <2>3, <3>1 DEF GenuineInv
  <2> HIDE DEF rec
  <2>4. \/ \E verdict, list : Conclude(verdict, list)
        \/ phase' = "claims" /\ record' = rec
        \/ \E verdict, list, items, merkle :
             phase' = "done" /\ report' = assembleReport(verdict, list, items, merkle, rec)
    BY <1>7 DEF JudgeBody, rec
  <2> QED
    BY <1>5, <2>2, <2>3, <2>4
<1> QED
  BY <1>4, <1>6, <1>7

LEMMA GenuineNext ==
  ASSUME GenuineInv, TrailInv, PlaceInv, [Next]_vars
  PROVE  GenuineInv'
<1>1. CASE UNCHANGED vars
  <2>1. UNCHANGED << input, phase, attempt, resolved, record, report >>
    BY <1>1 DEF vars
  <2> QED
    BY <2>1 DEF GenuineInv, IsGenuine, ChainFacts, Done
<1>2. CASE verifyTx
  <2>1. /\ phase = "start" /\ input.entry = "tx" /\ phase' = "resolve"
        /\ UNCHANGED << input, attempt, resolved >>
    BY <1>2 DEF verifyTx
  <2>2. attempt.step = "cbor" /\ resolved = NoTxResolved
    BY <2>1 DEF GenuineInv
  <2> QED
    BY <2>1, <2>2 DEF GenuineInv, NoTxResolved, Done
<1>3. CASE verifyResolved
  <2>1. phase = "start" /\ input' = input
    BY <1>3 DEF verifyResolved
  <2>2. resolved'.tx = << >>
    BY <1>3, <2>1 DEF verifyResolved, GenuineInv, NoTxResolved
  <2>3. phase' = "record" \/ (phase' = "done" /\ "record" \notin DOMAIN report')
    BY <1>3 DEF verifyResolved
  <2> QED
    BY <2>2, <2>3 DEF GenuineInv, Done
<1>4. CASE NoProviderLeft
  <2>1. phase = "resolve" /\ UNCHANGED << input, resolved >>
        /\ \E verdict, list : Conclude(verdict, list)
    BY <1>4 DEF NoProviderLeft
  <2> QED
    BY <2>1, ConcludeKeepsGenuine DEF GenuineInv
<1>5. CASE SettleUnseen \/ OutOfBandBlob \/ RefuseUri \/ FetchBlob \/ EndOfSources
  <2>1. phase = "claims" /\ UNCHANGED << input, phase, attempt, resolved, record, report >>
    BY <1>5 DEF SettleUnseen, OutOfBandBlob, RefuseUri, FetchBlob, EndOfSources, AtClaim
  <2> QED
    BY <2>1 DEF GenuineInv, IsGenuine, ChainFacts, Done
<1>6. CASE Finish
  <2>1. PICK verdict, list, items, merkle :
          /\ phase = "claims" /\ phase' = "done" /\ UNCHANGED << input, resolved, record >>
          /\ report' = assembleReport(verdict, list, items, merkle, record)
    BY <1>6 DEF Finish
  <2>2. report'.facts = ChainFacts /\ report'.record = record
    BY <2>1 DEF assembleReport
  <2>3. ChainFacts' = ChainFacts /\ (IsGenuine(resolved.tx) => IsGenuine(resolved.tx)')
    BY <2>1 DEF ChainFacts, IsGenuine
  <2> QED
    BY <2>1, <2>2, <2>3 DEF GenuineInv
<1>7. CASE Reported
  BY <1>1, <1>7 DEF Reported
<1>8. CASE FetchTxCbor \/ FetchTxInfo \/ FetchTip \/ JudgeRecord
  BY <1>8, ResolveKeepsGenuine, JudgeKeepsGenuine
<1> QED
  BY <1>1, <1>2, <1>3, <1>4, <1>5, <1>6, <1>7, <1>8 DEF Next

(* What is listed as a valid witness verifies over the genuine body.       *)
LEMMA ListedWitnesses ==
  ASSUME NEW pairs, pairs \in Seq(Range(pairs)), NEW signed,
         NEW i \in DOMAIN WitnessesIn(pairs, signed)
  PROVE  LET witness == WitnessesIn(pairs, signed)[i] IN
         witness.signature_valid =>
           \E n \in DOMAIN pairs : /\ pairs[n][1] = witness.vkey
                                   /\ verifyEd25519(witness.vkey, signed, pairs[n][2])
<1> DEFINE seq == [n \in DOMAIN pairs |-> Witnessed(pairs[n], signed)]
           at == {n \in DOMAIN pairs : IsKey(pairs[n][1])}
           S == {Witnessed(pairs[n], signed) : n \in DOMAIN pairs}
           kept == Subsequence(seq, at)
<1>1. DOMAIN pairs = 1..Len(pairs) /\ Len(pairs) \in Nat
  OBVIOUS
<1>2. seq \in Seq(S)
  <2>1. seq \in [1..Len(pairs) -> S]
    BY <1>1
  <2> HIDE DEF seq, S
  <2> QED
    BY <1>1, <2>1
<1>3. kept = WitnessesIn(pairs, signed)
  BY DEF WitnessesIn
<1>4. DOMAIN seq = DOMAIN pairs
  OBVIOUS
<1> HIDE DEF S, at, kept, seq
<1>5. \A j \in DOMAIN kept : \E n \in DOMAIN seq : n \in at /\ kept[j] = seq[n]
  BY <1>2, Subsequences DEF kept
<1>6. PICK n \in DOMAIN pairs : kept[i] = seq[n]
  BY <1>3, <1>4, <1>5
<1>7. kept[i] = Witnessed(pairs[n], signed)
  BY <1>6 DEF seq
<1>8. /\ kept[i].vkey = pairs[n][1]
      /\ kept[i].signature_valid => verifyEd25519(pairs[n][1], signed, pairs[n][2])
  BY <1>7 DEF Witnessed
<1> QED
  BY <1>3, <1>8

(* The record judged is the one that was asked for, with its witnesses.    *)
THEOREM JudgedIsGenuineHolds == Spec => []JudgedIsGenuine
<1>1. Init => PlaceInv /\ TrailInv /\ GenuineInv
  BY PlaceInit, TrailAndChainInit, GenuineInit
<1>2. PlaceInv /\ TrailInv /\ GenuineInv /\ [Next]_vars => (PlaceInv /\ TrailInv /\ GenuineInv)'
  BY NextAdvances, TrailNext, GenuineNext
<1>3. ASSUME GenuineInv, TrailInv, resolved.tx # << >>
      PROVE  JudgedIsGenuine
  <2> DEFINE c == sliceTxComponents(resolved.tx)
  <2>1. /\ input.entry = "tx" /\ resolved.tx \in input.txs /\ input \in Inputs
        /\ c.ok /\ SameTx(resolved.tx, input.genuine)
    BY <1>3 DEF GenuineInv, IsGenuine, TrailInv
  <2>2. /\ c.txBody = sliceTxComponents(input.genuine).txBody
        /\ c.auxiliaryData = sliceTxComponents(input.genuine).auxiliaryData
    BY <2>1 DEF SameTx
  <2>3. CarriedBodyOf(resolved.tx) = CarriedBodyOf(input.genuine)
    BY <2>2 DEF CarriedBodyOf
  <2>4. Done /\ report.record # Missing => report.record = CarriedBodyOf(input.genuine).body.value
    BY <1>3, <2>3 DEF GenuineInv
  <2> DEFINE pairs == WitnessPairs(c.witnessSet)  signed == blake2b256(c.txBody)
  <2>5. pairs \in Seq(Range(pairs))
    BY <2>1, WitnessAssumption
  <2>6. Done => report.facts.description.txWitnesses = WitnessesIn(pairs, signed)
    BY <1>3 DEF GenuineInv, ChainFacts, decodeTxDescription, Described, DescribedParts,
                decodeTxWitnesses
  <2>7. signed = blake2b256(sliceTxComponents(input.genuine).txBody)
    BY <2>2
  <2>8. WitnessPairs(sliceTxComponents(resolved.tx).witnessSet) = pairs
    OBVIOUS
  <2> HIDE DEF pairs, signed
  <2>9. ASSUME Done, NEW i \in DOMAIN report.facts.description.txWitnesses
        PROVE  LET witness == report.facts.description.txWitnesses[i] IN
               witness.signature_valid =>
                 \E n \in DOMAIN pairs : /\ pairs[n][1] = witness.vkey
                                         /\ verifyEd25519(witness.vkey, signed, pairs[n][2])
    BY <2>5, <2>6, <2>9, ListedWitnesses
  <2> QED
    BY <2>3, <2>4, <2>7, <2>8, <2>9 DEF JudgedIsGenuine
<1>4. GenuineInv /\ TrailInv => JudgedIsGenuine
  BY <1>3 DEF JudgedIsGenuine
<1> QED
  BY <1>1, <1>2, <1>4, PTL DEF Spec

=============================================================================
