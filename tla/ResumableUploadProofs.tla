------------------------- MODULE ResumableUploadProofs -------------------------
(***************************************************************************)
(* Proofs about ResumableUpload, for every number of calls, lanes, chunks, *)
(* retries and polls.  TInv strengthens TypeOK until it is inductive.      *)
(* BatchInv relates the shared cursor, the lanes and the acknowledged      *)
(* chunks; it is inductive together with TInv, and implies that /complete  *)
(* is never sent early, that no lane of a call that goes on is left        *)
(* behind, and that no two lanes send the same chunk.  KeptInv follows a   *)
(* session from its creation to its end: who may name it, what length its  *)
(* chunks are cut to, who holds its id.  It is inductive beside TInv, and  *)
(* implies that every PUT fits, that no byte is sent before the caller can *)
(* resume, that an error leaves no session behind, and that the calls keep *)
(* UploadContract.                                                         *)
(***************************************************************************)
EXTENDS ResumableUpload, FiniteSetTheorems, TLAPS

InSession == {"status", "upload", "complete", "gap", "poll", "abandon"}

(* The stages of a call before its completion is accepted. *)
BeforePoll == {"idle", "single", "create", "status", "upload", "complete", "gap"}

(* The stages of a call that has not sent a chunk. *)
BeforeBatch == {"idle", "single", "create", "status"}

(* A bounded loop that is about to go round again is below its limit. *)
LoopInv ==
  \A c \in Calls :
    /\ pc[c] = "gap" => round[c] < CompleteRetries
    /\ pc[c] = "poll" => polls[c] < PollMax
    /\ pc[c] \in BeforePoll => polls[c] = 0

(* Whoever talks to a session has one, and has no lane before it sends.    *)
CallsInSession ==
  \A c \in Calls :
    /\ pc[c] \in {"single", "create"} => declared[c] \in Sizes
    /\ pc[c] \in InSession => sess[c] \in Calls
    /\ \A l \in Lanes : lane[c][l].st \in InFlight =>
         sess[c] \in Calls /\ pc[c] \notin BeforeBatch

(* Every session anyone refers to was created by the gateway. *)
SessionsSized ==
  /\ \A c \in Calls : sess[c] \in Calls => gwTotal[sess[c]] \in Sizes
  /\ \A s \in persisted : gwTotal[s] \in Sizes
  /\ \A s \in Calls : gwState[s] # "none" => gwTotal[s] \in Sizes
  /\ \A s \in Calls : attempt[s] # "none" => gwTotal[s] \in Sizes

SessionInv == CallsInSession /\ SessionsSized

TInv == TypeOK /\ LoopInv /\ SessionInv

-----------------------------------------------------------------------------
(* The grid is a finite set of naturals, so its listings are sequences.    *)
LEMMA ListingsAreSequences ==
  ASSUME NEW n \in Int, NEW S, S \subseteq 0..n
  PROVE  /\ Cardinality(S) \in Nat
         /\ \A q \in Listings(S) : q \in Seq(Nat) /\ Len(q) = Cardinality(S)
<1>0. IsFiniteSet(0..n)
  BY FS_Interval
<1>1. IsFiniteSet(S)
  BY <1>0, FS_Subset
<1>2. Cardinality(S) \in Nat
  BY <1>1, FS_CardinalityType
<1>3. ASSUME NEW q \in Listings(S)
      PROVE  q \in Seq(Nat) /\ Len(q) = Cardinality(S)
  <2>1. q \in [1..Cardinality(S) -> S]
    BY DEF Listings
  <2>2. S \subseteq Nat
    OBVIOUS
  <2>3. q \in [1..Cardinality(S) -> Nat]
    BY <2>1, <2>2
  <2> QED
    BY <1>2, <2>3
<1> QED
  BY <1>2, <1>3

(* The number of chunks of a grid is an integer. *)
LEMMA ChunkCountType ==
  ASSUME NEW bytes \in Nat \ {0}, NEW size \in Nat
  PROVE  ChunkCount(bytes, size) \in Int
BY DEF ChunkCount

LEMMA SizeIsNat ==
  ASSUME NEW n \in Sizes \cup {0}
  PROVE  n \in Nat
<1>1. CASE n \in Sizes
  BY <1>1, ConstantsAssumption
<1>2. CASE n = 0
  BY <1>2
<1> QED
  BY <1>1, <1>2

LEMMA MissingType ==
  ASSUME NEW s \in Calls, GatewayTyped
  PROVE  ChunkCount(ChunkBytes, gwTotal[s]) - 1 \in Int
         /\ ServerMissing(s) \subseteq 0..(ChunkCount(ChunkBytes, gwTotal[s]) - 1)
<1>1. gwTotal[s] \in Sizes \cup {0}
  BY DEF GatewayTyped
<1>3. gwTotal[s] \in Nat
  BY <1>1, SizeIsNat
<1> QED
  BY <1>3, ConstantsAssumption, ChunkCountType DEF ServerMissing, Grid

(* A new batch keeps the types of the batch variables. *)
LEMMA StartBatchType ==
  ASSUME BatchesTyped, NEW c \in Calls, NEW n \in Int, NEW S, S \subseteq 0..n,
         StartBatch(c, S)
  PROVE  /\ BatchesTyped'
         /\ \A d \in Calls : d # c => lane'[d] = lane[d]
<1> DEFINE m == Minimum(Parallelism, Cardinality(S))
<1>1. PICK q \in Listings(S) :
        /\ todo' = [todo EXCEPT ![c] = q]
        /\ cursor' = [cursor EXCEPT ![c] = m]
        /\ lane' = [lane EXCEPT ![c] =
                      [l \in Lanes |->
                         IF l > m THEN LaneOff
                         ELSE [st |-> IF aborted[c] THEN "failed" ELSE "put",
                               chunk |-> q[l], tries |-> 0]]]
        /\ acked' = [acked EXCEPT ![c] = {}]
  BY DEF StartBatch
<1>2. q \in Seq(Nat) /\ Len(q) = Cardinality(S) /\ Cardinality(S) \in Nat
  BY ListingsAreSequences
<1>3. m \in Nat /\ m <= Cardinality(S)
  BY <1>2, ConstantsAssumption DEF Minimum
<1>4. ASSUME NEW l \in Lanes
      PROVE  (IF l > m THEN LaneOff
              ELSE [st |-> IF aborted[c] THEN "failed" ELSE "put",
                    chunk |-> q[l], tries |-> 0]) \in LaneRecords
  <2>1. CASE l > m
    BY <2>1, ConstantsAssumption DEF LaneRecords, LaneOff, LaneStates
  <2>2. CASE ~(l > m)
    <3>1. l \in 1..Len(q)
      BY <2>2, <1>2, <1>3, ConstantsAssumption DEF Lanes
    <3>2. q[l] \in Nat
      BY <3>1, <1>2
    <3> QED
      BY <2>2, <3>2, ConstantsAssumption DEF LaneRecords, LaneStates
  <2> QED
    BY <2>1, <2>2
<1>5. [l \in Lanes |->
         IF l > m THEN LaneOff
         ELSE [st |-> IF aborted[c] THEN "failed" ELSE "put",
               chunk |-> q[l], tries |-> 0]] \in [Lanes -> LaneRecords]
  BY <1>4
<1> HIDE DEF m
<1> QED
  BY <1>1, <1>2, <1>3, <1>5 DEF BatchesTyped

-----------------------------------------------------------------------------
LEMMA TInvInit == Init => TInv
<1> SUFFICES ASSUME Init PROVE TInv
  OBVIOUS
<1> USE ConstantsAssumption DEF Init
<1>1. CallsTyped
  BY DEF CallsTyped, NoSession
<1>2. BatchesTyped
  BY DEF BatchesTyped, LaneRecords, LaneOff, LaneStates
<1>3. GatewayTyped
  BY DEF GatewayTyped
<1>4. sourceSize \in Sizes /\ persisted \subseteq Calls
  OBVIOUS
<1>5. LoopInv
  BY DEF LoopInv, BeforePoll
<1>6. SessionInv
  BY DEF SessionInv, CallsInSession, SessionsSized, InFlight, InSession, BeforeBatch, LaneOff,
       NoSession, Calls
<1> QED
  BY <1>1, <1>2, <1>3, <1>4, <1>5, <1>6 DEF TInv, TypeOK

(* The batch variables change when a batch starts, when a lane steps, and  *)
(* when the process dies.                                                  *)
LEMMA BatchesStep ==
  ASSUME TInv, [Next]_vars
  PROVE  BatchesTyped'
<1> USE DEF TInv, TypeOK
<1>1. CASE UNCHANGED batchVars
  BY <1>1 DEF BatchesTyped, batchVars
<1>2. ASSUME NEW c \in Calls, NEW n \in Int, NEW S, S \subseteq 0..n, StartBatch(c, S)
      PROVE  BatchesTyped'
  BY <1>2, StartBatchType
<1>3. ASSUME NEW c \in Calls, CreateAnswered(c)
      PROVE  BatchesTyped'
  <2>1. declared[c] \in Nat
    BY SizeIsNat DEF CallsTyped
  <2>2. ChunkCount(ChunkBytes, declared[c]) - 1 \in Int
    BY <2>1, ConstantsAssumption, ChunkCountType
  <2> QED
    BY <1>2, <1>3, <2>2 DEF CreateAnswered
<1>4. ASSUME NEW c \in Calls, ResumeAdopts(c) \/ GapRead(c)
      PROVE  BatchesTyped'
  <2>1. sess[c] \in Calls
    BY <1>4 DEF ResumeAdopts, GapRead, SessionInv, CallsInSession, InSession
  <2>2. SendMissing(c, ServerMissing(sess[c]))
    BY <1>4 DEF ResumeAdopts, GapRead
  <2> QED
    BY <1>1, <1>2, <2>1, <2>2, MissingType DEF SendMissing
<1>5. ASSUME NEW c \in Calls, NEW l \in Lanes, Lane(c, l)
      PROVE  BatchesTyped'
  <2>1. lane[c][l] \in LaneRecords
    BY DEF BatchesTyped
  <2>2. CASE GatewayStoresChunk(c, l)
    BY <2>1, <2>2 DEF GatewayStoresChunk, BatchesTyped, LaneRecords, LaneStates
  <2>3. CASE LaneRetries(c, l)
    <3>1. CASE lane' = [lane EXCEPT ![c][l].st = "failed"]
      BY <2>1, <2>3, <3>1 DEF LaneRetries, BatchesTyped, LaneRecords, LaneStates
    <3>2. CASE /\ lane[c][l].tries < MaxRetries
               /\ lane' = [lane EXCEPT ![c][l].st = "put", ![c][l].tries = @ + 1]
      <4>1. lane[c][l].tries + 1 \in 0..MaxRetries
        BY <2>1, <3>2, ConstantsAssumption DEF LaneRecords
      <4> QED
        BY <2>1, <2>3, <3>2, <4>1 DEF LaneRetries, BatchesTyped, LaneRecords, LaneStates
    <3> QED
      BY <2>3, <3>1, <3>2 DEF LaneRetries
  <2>4. CASE LaneRefused(c, l)
    BY <2>1, <2>4 DEF LaneRefused, BatchesTyped, LaneRecords, LaneStates
  <2>5. CASE LaneAcked(c, l)
    <3>1. acked' \in [Calls -> SUBSET Nat]
      BY <2>1, <2>5 DEF LaneAcked, BatchesTyped, LaneRecords
    <3>2. CASE ClaimNext(c, l)
      <4>1. CASE lane' = [lane EXCEPT ![c][l].st = "failed"] /\ UNCHANGED cursor
        BY <2>1, <2>5, <3>1, <4>1 DEF LaneAcked, BatchesTyped, LaneRecords, LaneStates
      <4>2. CASE lane' = [lane EXCEPT ![c][l].st = "done"] /\ UNCHANGED cursor
        BY <2>1, <2>5, <3>1, <4>2 DEF LaneAcked, BatchesTyped, LaneRecords, LaneStates
      <4>3. ASSUME cursor[c] < Len(todo[c]),
                   lane' = [lane EXCEPT ![c][l] =
                              [st |-> "put", chunk |-> todo[c][cursor[c] + 1], tries |-> 0]],
                   cursor' = [cursor EXCEPT ![c] = @ + 1]
            PROVE  BatchesTyped'
        <5>1. cursor[c] + 1 \in 1..Len(todo[c])
          BY <4>3 DEF BatchesTyped
        <5>2. todo[c][cursor[c] + 1] \in Nat
          BY <5>1 DEF BatchesTyped
        <5>3. lane' \in [Calls -> [Lanes -> LaneRecords]]
          BY <4>3, <5>2, ConstantsAssumption DEF BatchesTyped, LaneRecords, LaneStates
        <5>4. cursor' \in [Calls -> Nat] /\ todo' = todo
          BY <4>3, <2>5 DEF BatchesTyped, LaneAcked
        <5> QED
          BY <3>1, <5>3, <5>4 DEF BatchesTyped
      <4> QED
        BY <3>2, <4>1, <4>2, <4>3 DEF ClaimNext
    <3>3. CASE lane' = [lane EXCEPT ![c][l].st = "failed"] /\ UNCHANGED cursor
      BY <2>1, <2>5, <3>1, <3>3 DEF LaneAcked, BatchesTyped, LaneRecords, LaneStates
    <3> QED
      BY <2>5, <3>2, <3>3 DEF LaneAcked
  <2> QED
    BY <1>5, <2>2, <2>3, <2>4, <2>5 DEF Lane
<1>6. ASSUME NEW c \in Calls, Crash(c)
      PROVE  BatchesTyped'
  BY <1>6, ConstantsAssumption DEF Crash, BatchesTyped, LaneRecords, LaneStates, LaneOff
<1>7. ASSUME NEW c \in Calls, Start(c) \/ Drive(c)
      PROVE  UNCHANGED batchVars \/ CreateAnswered(c) \/ ResumeAdopts(c) \/ GapRead(c)
  BY <1>7 DEF Start, Drive, StartFresh, StartResume, SingleShotAnswered, SingleShotFails,
     CreateDeduplicated, CreatedButNotifyThrows, CreateFails, ResumeFindsCompleted, ResumeFails,
     BatchDone, BatchFails, CompleteAnswered, CompleteIncomplete, CompleteFails, GapFails,
     PollReserved, PollTerminal, PollFails, AbandonAnswered, AbandonFails, clientVars
<1>8. ASSUME Environment, \A c \in Calls : ~Crash(c)
      PROVE  UNCHANGED batchVars
  BY <1>8 DEF Environment, Abort, CallerAbandons, ResolveAttempt, LoseChunk, Expire, SourceGrows,
     clientVars
<1>9. CASE UNCHANGED vars
  BY <1>1, <1>9 DEF vars, clientVars
<1> QED
  BY <1>1, <1>3, <1>4, <1>5, <1>6, <1>7, <1>8, <1>9 DEF Next

Rest == CallsTyped /\ GatewayTyped /\ sourceSize \in Sizes /\ persisted \subseteq Calls

(* The variables of the calls, the caller and the gateway keep their types. *)
LEMMA RestStep ==
  ASSUME TInv, [Next]_vars
  PROVE  Rest'
<1>a. /\ \A c \in Calls : pc[c] = "gap" => round[c] < CompleteRetries
      /\ \A c \in Calls : pc[c] = "poll" => polls[c] < PollMax
      /\ \A c \in Calls : pc[c] \in {"single", "create"} => declared[c] \in Sizes
      /\ \A c \in Calls :
           pc[c] \in {"status", "upload", "complete", "gap", "poll", "abandon"} =>
             sess[c] \in Calls
      /\ \A c \in Calls : sess[c] \in Calls => gwTotal[sess[c]] \in Sizes
      /\ \A s \in Calls : attempt[s] # "none" => gwTotal[s] \in Sizes
  BY DEF TInv, LoopInv, SessionInv, CallsInSession, SessionsSized, InSession
<1> USE ConstantsAssumption DEF TInv, TypeOK, Rest, CallsTyped, GatewayTyped, Running,
     Settled, NoSession, Goto, clientVars, callVars, callerVars, gatewayVars, batchVars
<1>1. ASSUME NEW c \in Calls, StartFresh(c)
      PROVE  Rest'
  BY <1>1, <1>a DEF StartFresh
<1>2. ASSUME NEW c \in Calls, NEW s \in Calls, StartResume(c, s)
      PROVE  Rest'
  BY <1>2, <1>a DEF StartResume
<1>3. ASSUME NEW c \in Calls, SingleShotAnswered(c)
      PROVE  Rest'
  <2>1. declared[c] \in Sizes
    BY <1>3, <1>a DEF SingleShotAnswered
  <2>2. GatewayTyped'
    BY <1>3, <2>1 DEF SingleShotAnswered
  <2>3. declared[c] \in Nat
    BY <2>1, SizeIsNat
  <2>4. sent' = [sent EXCEPT ![c] = declared[c]]
    BY <1>3 DEF SingleShotAnswered
  <2>5. sent' \in [Calls -> Int]
    BY <2>3, <2>4
  <2>6. CASE Goto(c, "ok")
    BY <1>3, <2>2, <2>5, <2>6 DEF SingleShotAnswered
  <2>7. CASE Goto(c, "error")
    BY <1>3, <2>2, <2>5, <2>7 DEF SingleShotAnswered
  <2> QED
    BY <1>3, <2>6, <2>7 DEF SingleShotAnswered
<1>4. ASSUME NEW c \in Calls, SingleShotFails(c)
      PROVE  Rest'
  <2>1. declared[c] \in Sizes
    BY <1>4, <1>a DEF SingleShotFails
  <2>2. GatewayTyped'
    BY <1>4, <2>1 DEF SingleShotFails
  <2> QED
    BY <1>4, <2>2 DEF SingleShotFails
<1>5. ASSUME NEW c \in Calls, CreateDeduplicated(c)
      PROVE  Rest'
  BY <1>5, <1>a DEF CreateDeduplicated
<1>6. ASSUME NEW c \in Calls, CreateAnswered(c)
      PROVE  Rest'
  BY <1>6, <1>a DEF CreateAnswered, OpenSession, Notify
<1>7. ASSUME NEW c \in Calls, CreatedButNotifyThrows(c)
      PROVE  Rest'
  BY <1>7, <1>a DEF CreatedButNotifyThrows, OpenSession
<1>8. ASSUME NEW c \in Calls, CreateFails(c)
      PROVE  Rest'
  <2>1. declared[c] \in Sizes
    BY <1>8, <1>a DEF CreateFails
  <2>2. CASE OpenSession(c)
    BY <1>8, <2>1, <2>2 DEF CreateFails, OpenSession
  <2>3. CASE UNCHANGED gatewayVars
    BY <1>8, <2>3 DEF CreateFails
  <2> QED
    BY <1>8, <2>2, <2>3 DEF CreateFails
<1>9. ASSUME NEW c \in Calls, ResumeAdopts(c)
      PROVE  Rest'
  <2>1. sess[c] \in Calls /\ gwTotal[sess[c]] \in Sizes
    BY <1>9, <1>a DEF ResumeAdopts
  <2>2. pc' \in [Calls -> {"idle"} \cup Running \cup Settled] 
    BY <1>9 DEF ResumeAdopts, SendMissing
  <2> QED
    BY <1>9, <2>1, <2>2 DEF ResumeAdopts, Adopt
<1>10. ASSUME NEW c \in Calls, ResumeFindsCompleted(c)
      PROVE  Rest'
  BY <1>10, <1>a DEF ResumeFindsCompleted
<1>11. ASSUME NEW c \in Calls, ResumeFails(c)
      PROVE  Rest'
  BY <1>11, <1>a DEF ResumeFails
<1>12. ASSUME NEW c \in Calls, BatchDone(c)
      PROVE  Rest'
  BY <1>12, <1>a DEF BatchDone
<1>13. ASSUME NEW c \in Calls, BatchFails(c)
      PROVE  Rest'
  BY <1>13, <1>a DEF BatchFails
<1>14. ASSUME NEW c \in Calls, CompleteAnswered(c)
      PROVE  Rest'
  <2>1. sess[c] \in Calls /\ gwTotal[sess[c]] \in Sizes
    BY <1>14, <1>a DEF CompleteAnswered
  <2>3. GatewayTyped'
    BY <1>14, <2>1 DEF CompleteAnswered, Assembles, Replays
  <2>4. UNCHANGED <<clientVars>>
    BY <1>14 DEF CompleteAnswered
  <2>5. CASE Goto(c, "ok")
    BY <2>3, <2>4, <2>5
  <2>6. CASE Goto(c, "poll")
    BY <2>3, <2>4, <2>6
  <2>7. Goto(c, "ok") \/ Goto(c, "poll")
    BY <1>14, Zenon DEF CompleteAnswered
  <2> QED
    BY <2>5, <2>6, <2>7
<1>15. ASSUME NEW c \in Calls, CompleteIncomplete(c)
      PROVE  Rest'
  BY <1>15, <1>a DEF CompleteIncomplete
<1>16. ASSUME NEW c \in Calls, CompleteFails(c)
      PROVE  Rest'
  <2>1. sess[c] \in Calls /\ gwTotal[sess[c]] \in Sizes
    BY <1>16, <1>a DEF CompleteFails
  <2>2. gwState'[sess[c]] \in {"none", "open", "assembling", "completed", "failed", "gone"}
    BY <1>16, <2>1 DEF CompleteFails, Assembles, Replays
  <2>3. GatewayTyped'
    BY <1>16, <2>1 DEF CompleteFails, Assembles, Replays
  <2> QED
    BY <1>16, <2>2, <2>3 DEF CompleteFails
<1>17. ASSUME NEW c \in Calls, GapRead(c)
      PROVE  Rest'
  BY <1>17, <1>a DEF GapRead, SendMissing
<1>18. ASSUME NEW c \in Calls, GapFails(c)
      PROVE  Rest'
  BY <1>18, <1>a DEF GapFails
<1>19. ASSUME NEW c \in Calls, PollReserved(c)
      PROVE  Rest'
  BY <1>19, <1>a DEF PollReserved
<1>20. ASSUME NEW c \in Calls, PollTerminal(c)
      PROVE  Rest'
  BY <1>20, <1>a DEF PollTerminal
<1>21. ASSUME NEW c \in Calls, PollFails(c)
      PROVE  Rest'
  BY <1>21, <1>a DEF PollFails
<1>22. ASSUME NEW c \in Calls, AbandonAnswered(c)
      PROVE  Rest'
  BY <1>22, <1>a DEF AbandonAnswered
<1>23. ASSUME NEW c \in Calls, AbandonFails(c)
      PROVE  Rest'
  BY <1>23, <1>a DEF AbandonFails
<1>24. ASSUME NEW c \in Calls, NEW l \in Lanes, GatewayStoresChunk(c, l)
      PROVE  Rest'
  <2>1. lane[c][l] \in LaneRecords
    BY DEF BatchesTyped
  <2>2. lane[c][l].chunk \in Nat
    BY <2>1 DEF LaneRecords
  <2> QED
    BY <1>24, <2>2 DEF GatewayStoresChunk
<1>25. ASSUME NEW c \in Calls, NEW l \in Lanes, LaneAcked(c, l)
      PROVE  Rest'
  <2>1. lane[c][l] \in LaneRecords
    BY DEF BatchesTyped
  <2>2. lane[c][l].chunk \in Nat
    BY <2>1 DEF LaneRecords
  <2>3. total[c] \in Nat
    BY SizeIsNat
  <2>4. ChunkLength(lane[c][l].chunk, ChunkBytes, total[c]) \in Int
    BY <2>2, <2>3 DEF ChunkLength, ChunkRange, Minimum
  <2>5. sent' \in [Calls -> Int]
    BY <1>25, <2>4 DEF LaneAcked
  <2> QED
    BY <1>25, <2>5 DEF LaneAcked
<1>26. ASSUME NEW c \in Calls, NEW l \in Lanes, LaneRetries(c, l)
      PROVE  Rest'
  BY <1>26, <1>a DEF LaneRetries
<1>27. ASSUME NEW c \in Calls, NEW l \in Lanes, LaneRefused(c, l)
      PROVE  Rest'
  BY <1>27, <1>a DEF LaneRefused
<1>28. ASSUME NEW c \in Calls, Abort(c)
      PROVE  Rest'
  BY <1>28, <1>a DEF Abort
<1>29. ASSUME NEW c \in Calls, Crash(c)
      PROVE  Rest'
  BY <1>29, <1>a DEF Crash
<1>30. ASSUME NEW s \in Calls, CallerAbandons(s)
      PROVE  Rest'
  BY <1>30, <1>a DEF CallerAbandons
<1>31. ASSUME NEW s \in Calls, ResolveAttempt(s)
      PROVE  Rest'
  <2>1. gwTotal[s] \in Sizes
    BY <1>31, <1>a DEF ResolveAttempt
  <2>2. stored' = stored \cup {gwTotal[s]} \/ stored' = stored
    BY <1>31 DEF ResolveAttempt
  <2>4. stored' \subseteq Sizes
    BY <2>1, <2>2
  <2>3. /\ gwState' \in [Calls -> {"none", "open", "assembling", "completed", "failed", "gone"}]
        /\ attempt' \in [Calls -> {"none", "reserved", "committed", "released"}]
    BY <1>31 DEF ResolveAttempt
  <2> QED
    BY <1>31, <2>3, <2>4 DEF ResolveAttempt
<1>32. ASSUME NEW s \in Calls, LoseChunk(s)
      PROVE  Rest'
  BY <1>32, <1>a DEF LoseChunk
<1>33. ASSUME NEW s \in Calls, Expire(s)
      PROVE  Rest'
  BY <1>33, <1>a DEF Expire
<1>34. ASSUME SourceGrows
      PROVE  Rest'
  BY <1>34, <1>a DEF SourceGrows
<1>35. CASE UNCHANGED vars
  BY <1>35 DEF vars
<1> QED
  BY <1>1, <1>2, <1>3, <1>4, <1>5, <1>6, <1>7, <1>8, <1>9, <1>10, <1>11, <1>12, <1>13, <1>14,
       <1>15, <1>16, <1>17, <1>18, <1>19, <1>20, <1>21, <1>22, <1>23, <1>24, <1>25, <1>26, <1>27,
       <1>28, <1>29, <1>30, <1>31, <1>32, <1>33, <1>34, <1>35 DEF Next, Start, Drive, Lane,
       Environment

(* A driver that moves on without counting, and neither reads the gap nor   *)
(* polls next, keeps the loops within their limits.                         *)
LEMMA LoopKept ==
  ASSUME TInv, NEW c \in Calls, NEW stage, Goto(c, stage),
         stage \notin {"gap", "poll"},
         stage \in BeforePoll => pc[c] \in BeforePoll,
         round' = [round EXCEPT ![c] = round'[c]],
         UNCHANGED polls
  PROVE  LoopInv'
<1> QED
  BY DEF TInv, TypeOK, CallsTyped, LoopInv, BeforePoll, Goto

(* The loops keep their limits.                                             *)
LEMMA LoopStep ==
  ASSUME TInv, [Next]_vars
  PROVE  LoopInv'
<1>1. CASE UNCHANGED <<pc, round, polls>>
  BY <1>1 DEF TInv, LoopInv
<1>2. ASSUME NEW c \in Calls, NEW stage \in {"single", "create", "status", "upload", "complete"},
             Goto(c, stage), pc[c] \in {"idle", "create", "status", "upload"},
             UNCHANGED <<round, polls>>
      PROVE  LoopInv'
  BY <1>2, LoopKept DEF BeforePoll, TInv, TypeOK, CallsTyped
<1>3. ASSUME NEW c \in Calls, NEW stage \in {"abandon", "ok", "error", "leaked", "crashed"},
             Goto(c, stage), UNCHANGED <<round, polls>>
      PROVE  LoopInv'
  BY <1>3, LoopKept DEF BeforePoll, TInv, TypeOK, CallsTyped
<1>4. ASSUME NEW c \in Calls, Start(c)
      PROVE  LoopInv'
  BY <1>2, <1>4 DEF Start, MayStart, StartFresh, StartResume
<1>5. ASSUME NEW c \in Calls, Drive(c)
      PROVE  LoopInv'
  <2>1. CASE CreateAnswered(c) \/ ResumeAdopts(c) \/ BatchDone(c)
    BY <1>2, <2>1 DEF CreateAnswered, ResumeAdopts, SendMissing, BatchDone, clientVars, callVars
  <2>2. CASE CompleteAnswered(c)
    <3>1. Goto(c, "ok") \/ Goto(c, "poll")
      BY <2>2, Zenon DEF CompleteAnswered
    <3>2. CASE Goto(c, "poll")
      BY <2>2, <3>2, ConstantsAssumption
      DEF CompleteAnswered, TInv, TypeOK, CallsTyped, LoopInv, BeforePoll, Goto, clientVars,
           callVars
    <3> QED
      BY <1>3, <2>2, <3>1, <3>2 DEF CompleteAnswered, clientVars, callVars
  <2>3. CASE CompleteIncomplete(c)
    <3>1. CASE round[c] < CompleteRetries
      BY <2>3, <3>1
      DEF CompleteIncomplete, TInv, TypeOK, CallsTyped, LoopInv, BeforePoll, Goto, clientVars,
           callVars
    <3> QED
      BY <1>3, <2>3, <3>1 DEF CompleteIncomplete, clientVars, callVars
  <2>4. CASE GapRead(c)
    <3>1. /\ round' = [round EXCEPT ![c] = round'[c]]
          /\ pc[c] \in BeforePoll
          /\ UNCHANGED polls
      BY <2>4 DEF GapRead, BeforePoll, TInv, TypeOK, CallsTyped
    <3>2. Goto(c, "complete") \/ Goto(c, "upload")
      BY <2>4 DEF GapRead, SendMissing
    <3> QED
      BY <3>1, <3>2, LoopKept
  <2>5. CASE PollReserved(c)
    <3>1. polls[c] + 1 \in 1..PollMax
      BY <2>5, ConstantsAssumption DEF PollReserved, TInv, TypeOK, CallsTyped, LoopInv
    <3>2. CASE polls[c] + 1 = PollMax
      BY <2>5, <3>2 DEF PollReserved, TInv, TypeOK, CallsTyped, LoopInv, BeforePoll, Goto
    <3>3. CASE polls[c] + 1 # PollMax
      BY <2>5, <3>1, <3>3, ConstantsAssumption
      DEF PollReserved, TInv, TypeOK, CallsTyped, LoopInv, BeforePoll, Goto
    <3> QED
      BY <3>2, <3>3
  <2>6. CASE PollTerminal(c)
    BY <1>3, <2>6 DEF PollTerminal, clientVars, callVars
  <2>7. CASE \/ SingleShotAnswered(c) \/ SingleShotFails(c) \/ CreateDeduplicated(c)
             \/ CreatedButNotifyThrows(c) \/ CreateFails(c) \/ ResumeFindsCompleted(c)
             \/ ResumeFails(c) \/ BatchFails(c)
    BY <1>3, <2>7 DEF SingleShotAnswered, SingleShotFails, CreateDeduplicated,
       CreatedButNotifyThrows, CreateFails, ResumeFindsCompleted, ResumeFails, BatchFails,
       clientVars, callVars
  <2>8. CASE \/ CompleteFails(c) \/ GapFails(c) \/ PollFails(c)
             \/ AbandonAnswered(c) \/ AbandonFails(c)
    BY <1>3, <2>8 DEF CompleteFails, GapFails, PollFails, AbandonAnswered, AbandonFails,
       clientVars, callVars
  <2> QED
    BY <1>5, <2>1, <2>2, <2>3, <2>4, <2>5, <2>6, <2>7, <2>8 DEF Drive
<1>6. ASSUME NEW c \in Calls, Crash(c)
      PROVE  LoopInv'
  BY <1>3, <1>6 DEF Crash
<1>7. ASSUME NEW c \in Calls, NEW l \in Lanes, Lane(c, l)
      PROVE  UNCHANGED <<pc, round, polls>>
  BY <1>7 DEF Lane, GatewayStoresChunk, LaneAcked, LaneRetries, LaneRefused, callVars
<1>8. ASSUME Environment, \A c \in Calls : ~Crash(c)
      PROVE  UNCHANGED <<pc, round, polls>>
  BY <1>8 DEF Environment, Abort, CallerAbandons, ResolveAttempt, LoseChunk, Expire, SourceGrows,
     clientVars, callVars
<1>9. CASE UNCHANGED vars
  BY <1>1, <1>9 DEF vars, clientVars, callVars
<1> QED
  BY <1>1, <1>4, <1>5, <1>6, <1>7, <1>8, <1>9 DEF Next

-----------------------------------------------------------------------------
(* The gateway fixes a session's size when it creates the session.          *)
LEMMA SizeKept ==
  ASSUME TInv, [Next]_vars, NEW s \in Calls, gwTotal[s] \in Sizes
  PROVE  gwTotal'[s] \in Sizes
<1>1. CASE UNCHANGED gwTotal
  BY <1>1
<1>2. ASSUME NEW c \in Calls, pc[c] = "create", OpenSession(c)
      PROVE  gwTotal'[s] \in Sizes
  <2>1. declared[c] \in Sizes
    BY <1>2 DEF TInv, SessionInv, CallsInSession
  <2> QED
    BY <1>2, <2>1 DEF OpenSession, TInv, TypeOK, GatewayTyped
<1>3. ASSUME NEW c \in Calls, Start(c) \/ Drive(c)
      PROVE  \/ UNCHANGED gwTotal
             \/ pc[c] = "create" /\ OpenSession(c)
  BY <1>3 DEF Start, Drive, StartFresh, StartResume, SingleShotAnswered, SingleShotFails,
     CreateDeduplicated, CreateAnswered, CreatedButNotifyThrows, CreateFails, ResumeAdopts,
     ResumeFindsCompleted, ResumeFails, BatchDone, BatchFails, CompleteAnswered,
     CompleteIncomplete, CompleteFails, Assembles, Replays, GapRead, GapFails, PollReserved,
     PollTerminal, PollFails, AbandonAnswered, AbandonFails, gatewayVars
<1>4. ASSUME NEW c \in Calls, NEW l \in Lanes, Lane(c, l)
      PROVE  UNCHANGED gwTotal
  BY <1>4 DEF Lane, GatewayStoresChunk, LaneAcked, LaneRetries, LaneRefused, gatewayVars
<1>5. ASSUME Environment
      PROVE  UNCHANGED gwTotal
  BY <1>5 DEF Environment, Abort, Crash, CallerAbandons, ResolveAttempt, LoseChunk, Expire,
     SourceGrows, gatewayVars
<1>6. CASE UNCHANGED vars
  BY <1>1, <1>6 DEF vars, gatewayVars
<1> QED
  BY <1>1, <1>2, <1>3, <1>4, <1>5, <1>6 DEF Next

(* A step that keeps sessions and caller, and gives no state or attempt to  *)
(* a session that was never created.                                        *)
LEMMA SizedKept ==
  ASSUME TInv, [Next]_vars, UNCHANGED <<sess, persisted>>,
         \A s \in Calls : gwState'[s] # "none" => gwTotal[s] \in Sizes,
         \A s \in Calls : attempt'[s] # "none" => gwTotal[s] \in Sizes
  PROVE  SessionsSized'
BY SizeKept DEF TInv, TypeOK, SessionInv, SessionsSized

LEMMA SizedStep ==
  ASSUME TInv, [Next]_vars
  PROVE  SessionsSized'
<1>t. /\ \A c \in Calls : sess[c] \in Calls => gwTotal[sess[c]] \in Sizes
      /\ \A s \in persisted : s \in Calls /\ gwTotal[s] \in Sizes
      /\ \A s \in Calls : gwState[s] # "none" => gwTotal[s] \in Sizes
      /\ \A s \in Calls : attempt[s] # "none" => gwTotal[s] \in Sizes
      /\ \A c \in Calls : pc[c] \in InSession => sess[c] \in Calls
  BY DEF TInv, TypeOK, SessionInv, SessionsSized, CallsInSession
<1>u. /\ DOMAIN gwState = Calls
      /\ DOMAIN attempt = Calls
      /\ sess \in [Calls -> Calls \cup {NoSession}]
      /\ gwTotal \in [Calls -> Sizes \cup {0}]
  BY DEF TInv, TypeOK, GatewayTyped, CallsTyped
<1>1. CASE UNCHANGED <<sess, persisted, gwState, attempt>>
  BY <1>1, <1>t, SizedKept
<1>2. ASSUME NEW c \in Calls, pc[c] = "create", OpenSession(c),
             sess' = [sess EXCEPT ![c] = c] \/ UNCHANGED sess,
             persisted' = persisted \cup {c} \/ UNCHANGED persisted
      PROVE  SessionsSized'
  <2>1. declared[c] \in Sizes
    BY <1>2 DEF TInv, SessionInv, CallsInSession
  <2>2. gwTotal' = [gwTotal EXCEPT ![c] = declared[c]]
    BY <1>2 DEF OpenSession
  <2>3. gwTotal'[c] \in Sizes
    BY <2>1, <2>2, <1>u
  <2>4. \A s \in Calls : gwTotal[s] \in Sizes => gwTotal'[s] \in Sizes
    BY SizeKept
  <2>5. \A d \in Calls : sess'[d] \in Calls => gwTotal'[sess'[d]] \in Sizes
    BY <1>2, <1>t, <1>u, <2>3, <2>4
  <2>6. \A s \in persisted' : gwTotal'[s] \in Sizes
    BY <1>2, <1>t, <2>3, <2>4
  <2>7. \A s \in Calls : (gwState'[s] # "none" => gwTotal'[s] \in Sizes)
                         /\ (attempt'[s] # "none" => gwTotal'[s] \in Sizes)
    BY <1>2, <1>t, <1>u, <2>3, <2>4 DEF OpenSession
  <2> QED
    BY <2>5, <2>6, <2>7 DEF SessionsSized
<1>3. ASSUME NEW c \in Calls, NEW s \in Calls, StartResume(c, s)
      PROVE  SessionsSized'
  <2>1. gwTotal[s] \in Sizes
    BY <1>3, <1>t DEF StartResume
  <2>2. /\ sess' = [sess EXCEPT ![c] = s]
        /\ UNCHANGED <<persisted, gwState, gwTotal, attempt>>
    BY <1>3 DEF StartResume, callerVars, gatewayVars
  <2> QED
    BY <1>t, <1>u, <2>1, <2>2 DEF SessionsSized
<1>4. ASSUME NEW c \in Calls, ResumeFails(c)
      PROVE  SessionsSized'
  <2>1. /\ sess' = [sess EXCEPT ![c] = NoSession]
        /\ UNCHANGED <<persisted, gwState, gwTotal, attempt>>
    BY <1>4 DEF ResumeFails, callerVars, gatewayVars
  <2> QED
    BY <1>t, <1>u, <2>1 DEF SessionsSized, Calls, NoSession
<1>5. ASSUME NEW s \in Calls, Assembles(s), UNCHANGED <<sess, persisted>>
      PROVE  SessionsSized'
  BY <1>5, <1>t, <1>u, SizedKept DEF Assembles
<1>6. ASSUME NEW s \in Calls, gwTotal[s] \in Sizes, UNCHANGED <<sess, attempt>>,
             persisted' = persisted \cup {s} \/ UNCHANGED persisted,
             gwState' = [gwState EXCEPT ![s] = "gone"] \/ UNCHANGED gwState
      PROVE  SessionsSized'
  <2>1. gwTotal'[s] \in Sizes
    BY <1>6, SizeKept
  <2>2. \A r \in Calls : gwTotal[r] \in Sizes => gwTotal'[r] \in Sizes
    BY SizeKept
  <2> QED
    BY <1>6, <1>t, <1>u, <2>1, <2>2 DEF SessionsSized
<1>7. ASSUME NEW c \in Calls, Drive(c)
      PROVE  SessionsSized'
  <2>1. CASE CreateAnswered(c) \/ CreatedButNotifyThrows(c)
    BY <1>2, <2>1 DEF CreateAnswered, CreatedButNotifyThrows, Notify, callerVars
  <2>2. CASE CreateFails(c)
    BY <1>1, <1>2, <2>2 DEF CreateFails, clientVars, callVars, callerVars, gatewayVars
  <2>3. CASE CompleteAnswered(c) \/ CompleteFails(c)
    <3>1. sess[c] \in Calls
      BY <2>3, <1>t DEF CompleteAnswered, CompleteFails, InSession
    <3>2. UNCHANGED <<sess, persisted>>
      BY <2>3 DEF CompleteAnswered, CompleteFails, clientVars, callVars, callerVars
    <3>3. \/ Assembles(sess[c])
          \/ UNCHANGED <<gwState, attempt>>
      BY <2>3 DEF CompleteAnswered, CompleteFails, Replays, gatewayVars
    <3> QED
      BY <1>1, <1>5, <3>1, <3>2, <3>3
  <2>4. CASE AbandonAnswered(c) \/ AbandonFails(c)
    <3>1. sess[c] \in Calls /\ gwTotal[sess[c]] \in Sizes
      BY <2>4, <1>t DEF AbandonAnswered, AbandonFails, InSession
    <3> QED
      BY <1>6, <2>4, <3>1 DEF AbandonAnswered, AbandonFails, clientVars, callVars, callerVars
  <2>5. CASE \/ SingleShotAnswered(c) \/ SingleShotFails(c) \/ CreateDeduplicated(c)
             \/ ResumeAdopts(c) \/ ResumeFindsCompleted(c) \/ BatchDone(c) \/ BatchFails(c)
    BY <1>1, <2>5 DEF SingleShotAnswered, SingleShotFails, CreateDeduplicated, ResumeAdopts,
       ResumeFindsCompleted, BatchDone, BatchFails, clientVars, callVars, callerVars, gatewayVars
  <2>6. CASE \/ CompleteIncomplete(c) \/ GapRead(c) \/ GapFails(c) \/ PollReserved(c)
             \/ PollTerminal(c) \/ PollFails(c)
    BY <1>1, <2>6 DEF CompleteIncomplete, GapRead, GapFails, PollReserved, PollTerminal,
       PollFails, clientVars, callVars, callerVars, gatewayVars
  <2> QED
    BY <1>4, <1>7, <2>1, <2>2, <2>3, <2>4, <2>5, <2>6 DEF Drive
<1>8. ASSUME NEW c \in Calls, StartFresh(c)
      PROVE  SessionsSized'
  BY <1>1, <1>8 DEF StartFresh, callerVars, gatewayVars
<1>9. ASSUME NEW c \in Calls, NEW l \in Lanes, Lane(c, l)
      PROVE  SessionsSized'
  BY <1>1, <1>9 DEF Lane, GatewayStoresChunk, LaneAcked, LaneRetries, LaneRefused, callVars,
     callerVars, gatewayVars
<1>10. ASSUME NEW s \in Calls, CallerAbandons(s)
       PROVE  SessionsSized'
  BY <1>6, <1>10, <1>t DEF CallerAbandons, clientVars, callVars, callerVars
<1>11. ASSUME NEW s \in Calls, ResolveAttempt(s)
       PROVE  SessionsSized'
  <2>1. \A r \in Calls \ {s} : gwState'[r] = gwState[r] /\ attempt'[r] = attempt[r]
    BY <1>11, <1>u DEF ResolveAttempt
  <2>2. gwTotal[s] \in Sizes
    BY <1>11, <1>t DEF ResolveAttempt
  <2> QED
    BY <1>11, <1>t, <2>1, <2>2, SizedKept DEF ResolveAttempt, clientVars, callVars, callerVars
<1>12. ASSUME NEW s \in Calls, Expire(s)
       PROVE  SessionsSized'
  BY <1>12, <1>t, <1>u, SizedKept DEF Expire, clientVars, callVars, callerVars
<1>13. ASSUME SourceGrows \/ (\E s \in Calls : LoseChunk(s)) \/ (\E c \in Calls : Abort(c) \/ Crash(c))
       PROVE  SessionsSized'
  BY <1>1, <1>13 DEF SourceGrows, LoseChunk, Abort, Crash, clientVars, callVars, callerVars,
       gatewayVars
<1>14. CASE UNCHANGED vars
  BY <1>1, <1>14 DEF vars, clientVars, callVars, callerVars, gatewayVars
<1> QED
  BY <1>3, <1>7, <1>8, <1>9, <1>10, <1>11, <1>12, <1>13, <1>14 DEF Next, Start, Environment

-----------------------------------------------------------------------------
(* A lane that is not in flight stays so until its call starts a batch.     *)
LEMMA LaneStep ==
  ASSUME TInv, NEW c \in Calls, NEW l \in Lanes, Lane(c, l), NEW d \in Calls, NEW m \in Lanes,
         lane'[d][m].st \in InFlight
  PROVE  lane[d][m].st \in InFlight
<1>1. lane \in [Calls -> [Lanes -> LaneRecords]]
  BY DEF TInv, TypeOK, BatchesTyped
<1>2. lane[c][l].st \in InFlight
  <2>1. CASE GatewayStoresChunk(c, l) \/ LaneAcked(c, l)
    BY <2>1 DEF GatewayStoresChunk, LaneAcked, InFlight
  <2>2. CASE LaneRetries(c, l) \/ LaneRefused(c, l)
    BY <2>2 DEF LaneRetries, LaneRefused, InFlight
  <2> QED
    BY <2>1, <2>2 DEF Lane
<1>3. d # c \/ m # l => lane'[d][m] = lane[d][m]
  <2>1. CASE GatewayStoresChunk(c, l)
    BY <1>1, <2>1 DEF GatewayStoresChunk
  <2>2. CASE LaneAcked(c, l)
    BY <1>1, <2>2 DEF LaneAcked, ClaimNext
  <2>3. CASE LaneRetries(c, l)
    BY <1>1, <2>3 DEF LaneRetries
  <2>4. CASE LaneRefused(c, l)
    BY <1>1, <2>4 DEF LaneRefused
  <2> QED
    BY <2>1, <2>2, <2>3, <2>4 DEF Lane
<1> QED
  BY <1>2, <1>3

(* What a driver's step must do for its call to keep CallsInSession.        *)
LEMMA DriverKept ==
  ASSUME TInv, NEW c \in Calls, NEW stage, Goto(c, stage),
         \A d \in Calls \ {c} : /\ declared'[d] = declared[d]
                                /\ sess'[d] = sess[d]
                                /\ lane'[d] = lane[d],
         stage \in {"single", "create"} => declared'[c] \in Sizes,
         stage \in InSession => sess'[c] \in Calls,
         \A l \in Lanes : lane'[c][l].st \in InFlight =>
           sess'[c] \in Calls /\ stage \notin BeforeBatch
  PROVE  CallsInSession'
<1>1. pc'[c] = stage /\ \A d \in Calls \ {c} : pc'[d] = pc[d]
  BY DEF TInv, TypeOK, CallsTyped, Goto
<1> QED
  BY <1>1 DEF TInv, SessionInv, CallsInSession

LEMMA CallsStep ==
  ASSUME TInv, [Next]_vars
  PROVE  CallsInSession'
<1>t. /\ pc \in [Calls -> {"idle"} \cup Running \cup Settled]
      /\ sess \in [Calls -> Calls \cup {NoSession}]
      /\ declared \in [Calls -> Sizes \cup {0}]
      /\ lane \in [Calls -> [Lanes -> LaneRecords]]
      /\ sourceSize \in Sizes
      /\ persisted \subseteq Calls
  BY DEF TInv, TypeOK, CallsTyped, BatchesTyped
<1>i. \A c \in Calls :
        /\ pc[c] \in {"single", "create"} => declared[c] \in Sizes
        /\ pc[c] \in InSession => sess[c] \in Calls
        /\ \A l \in Lanes : lane[c][l].st \in InFlight =>
             sess[c] \in Calls /\ pc[c] \notin BeforeBatch
  BY DEF TInv, SessionInv, CallsInSession
<1>1. CASE UNCHANGED <<pc, sess, declared, lane>>
  BY <1>1, <1>i DEF CallsInSession
<1>2. ASSUME NEW c \in Calls, NEW stage \in {"ok", "error", "leaked", "crashed"}, Goto(c, stage),
             UNCHANGED <<sess, declared, lane>>
      PROVE  CallsInSession'
  BY <1>2, <1>i, DriverKept DEF InSession, BeforeBatch
<1>3. ASSUME NEW c \in Calls, NEW stage \in InSession \ BeforeBatch, Goto(c, stage),
             pc[c] \in InSession,
             UNCHANGED <<sess, declared, lane>>
      PROVE  CallsInSession'
  BY <1>3, <1>i, DriverKept DEF InSession, BeforeBatch
<1>4. ASSUME NEW c \in Calls, StartFresh(c)
      PROVE  CallsInSession'
  <2>1. Goto(c, "single") \/ Goto(c, "create")
    BY <1>4 DEF StartFresh
  <2>2. declared' = [declared EXCEPT ![c] = sourceSize] /\ UNCHANGED <<sess, lane>>
    BY <1>4 DEF StartFresh, batchVars
  <2>3. \A l \in Lanes : lane[c][l].st \notin InFlight
    BY <1>4, <1>i DEF StartFresh, MayStart, BeforeBatch
  <2> QED
    BY <1>t, <2>1, <2>2, <2>3, DriverKept DEF InSession
<1>5. ASSUME NEW c \in Calls, NEW s \in Calls, StartResume(c, s)
      PROVE  CallsInSession'
  <2>1. Goto(c, "status") /\ sess' = [sess EXCEPT ![c] = s] /\ UNCHANGED <<declared, lane>>
    BY <1>5 DEF StartResume, batchVars
  <2>2. \A l \in Lanes : lane[c][l].st \notin InFlight
    BY <1>5, <1>i DEF StartResume, MayStart, BeforeBatch
  <2> QED
    BY <1>t, <2>1, <2>2, DriverKept
<1>6. ASSUME NEW c \in Calls, Drive(c)
      PROVE  CallsInSession'
  <2>1. CASE CreateAnswered(c)
    <3>1. Goto(c, "upload") /\ sess' = [sess EXCEPT ![c] = c] /\ UNCHANGED declared
      BY <2>1 DEF CreateAnswered
    <3>2. \A d \in Calls \ {c} : lane'[d] = lane[d]
      BY <2>1, <1>t DEF CreateAnswered, StartBatch
    <3> QED
      BY <1>t, <3>1, <3>2, DriverKept DEF BeforeBatch
  <2>2. CASE CreatedButNotifyThrows(c)
    <3>1. Goto(c, "abandon") /\ sess' = [sess EXCEPT ![c] = c] /\ UNCHANGED <<declared, lane>>
      BY <2>2 DEF CreatedButNotifyThrows, batchVars
    <3> QED
      BY <1>t, <3>1, DriverKept DEF BeforeBatch
  <2>3. CASE ResumeAdopts(c)
    <3>1. /\ Goto(c, "complete") \/ Goto(c, "upload")
          /\ declared' = [declared EXCEPT ![c] = gwTotal[sess[c]]]
          /\ UNCHANGED sess
      BY <2>3 DEF ResumeAdopts, SendMissing, Adopt
    <3>2. \A d \in Calls \ {c} : lane'[d] = lane[d]
      BY <2>3, <1>t DEF ResumeAdopts, SendMissing, StartBatch, batchVars
    <3>3. sess[c] \in Calls
      BY <2>3, <1>i DEF ResumeAdopts, InSession
    <3>4. PICK stage \in {"complete", "upload"} : Goto(c, stage)
      BY <3>1
    <3>5. stage \notin BeforeBatch \cup {"single", "create"}
      BY DEF BeforeBatch
    <3>6. \A d \in Calls \ {c} : declared'[d] = declared[d] /\ sess'[d] = sess[d]
      BY <1>t, <3>1
    <3> QED
      BY <3>1, <3>2, <3>3, <3>4, <3>5, <3>6, DriverKept
  <2>4. CASE ResumeFindsCompleted(c)
    <3>1. /\ Goto(c, "ok")
          /\ declared' = [declared EXCEPT ![c] = gwTotal[sess[c]]]
          /\ UNCHANGED <<sess, lane>>
      BY <2>4 DEF ResumeFindsCompleted, batchVars
    <3>2. sess[c] \in Calls
      BY <2>4, <1>i DEF ResumeFindsCompleted, InSession
    <3> QED
      BY <1>t, <3>1, <3>2, DriverKept DEF BeforeBatch
  <2>5. CASE ResumeFails(c)
    <3>1. Goto(c, "error") /\ sess' = [sess EXCEPT ![c] = NoSession] /\ UNCHANGED <<declared, lane>>
      BY <2>5 DEF ResumeFails, batchVars
    <3>2. \A l \in Lanes : lane[c][l].st \notin InFlight
      BY <2>5, <1>i DEF ResumeFails, BeforeBatch
    <3> QED
      BY <1>t, <3>1, <3>2, DriverKept DEF InSession
  <2>6. CASE GapRead(c)
    <3>1. /\ Goto(c, "complete") \/ Goto(c, "upload")
          /\ UNCHANGED <<sess, declared>>
      BY <2>6 DEF GapRead, SendMissing
    <3>2. \A d \in Calls \ {c} : lane'[d] = lane[d]
      BY <2>6, <1>t DEF GapRead, SendMissing, StartBatch, batchVars
    <3>3. sess[c] \in Calls
      BY <2>6, <1>i DEF GapRead, InSession
    <3>4. PICK stage \in {"complete", "upload"} : Goto(c, stage)
      BY <3>1
    <3>5. stage \notin BeforeBatch \cup {"single", "create"}
      BY DEF BeforeBatch
    <3>6. \A d \in Calls \ {c} : declared'[d] = declared[d] /\ sess'[d] = sess[d]
      BY <1>t, <3>1
    <3> QED
      BY <3>1, <3>2, <3>3, <3>4, <3>5, <3>6, DriverKept
  <2>7. CASE BatchDone(c) \/ BatchFails(c) \/ CompleteFails(c) \/ GapFails(c) \/ PollFails(c)
    BY <1>3, <2>7 DEF BatchDone, BatchFails, CompleteFails, GapFails, PollFails, InSession,
       BeforeBatch, clientVars, callVars, batchVars
  <2>8. CASE CompleteAnswered(c)
    <3>1. Goto(c, "ok") \/ Goto(c, "poll")
      BY <2>8, Zenon DEF CompleteAnswered
    <3>2. pc[c] \in InSession /\ UNCHANGED <<sess, declared, lane>>
      BY <2>8 DEF CompleteAnswered, InSession, clientVars, callVars, batchVars
    <3> QED
      BY <1>2, <1>3, <3>1, <3>2 DEF InSession, BeforeBatch
  <2>9. CASE CompleteIncomplete(c)
    <3>1. Goto(c, "gap") \/ Goto(c, "abandon")
      BY <2>9 DEF CompleteIncomplete
    <3> QED
      BY <1>3, <2>9, <3>1 DEF CompleteIncomplete, InSession, BeforeBatch, clientVars, callVars,
           batchVars
  <2>10. CASE PollReserved(c)
    <3>1. Goto(c, "poll") \/ Goto(c, "abandon")
      BY <2>10 DEF PollReserved
    <3> QED
      BY <1>3, <2>10, <3>1 DEF PollReserved, InSession, BeforeBatch, batchVars
  <2>11. CASE PollTerminal(c)
    <3>1. Goto(c, "ok") \/ Goto(c, "abandon")
      BY <2>11 DEF PollTerminal
    <3> QED
      BY <1>2, <1>3, <2>11, <3>1 DEF PollTerminal, InSession, BeforeBatch, clientVars, callVars,
           batchVars
  <2>12. CASE \/ SingleShotAnswered(c) \/ SingleShotFails(c) \/ CreateDeduplicated(c)
              \/ CreateFails(c) \/ AbandonAnswered(c) \/ AbandonFails(c)
    BY <1>2, <2>12 DEF SingleShotAnswered, SingleShotFails, CreateDeduplicated, CreateFails,
       AbandonAnswered, AbandonFails, clientVars, callVars, batchVars
  <2> QED
    BY <1>6, <2>1, <2>2, <2>3, <2>4, <2>5, <2>6, <2>7, <2>8, <2>9, <2>10, <2>11, <2>12 DEF Drive
<1>7. ASSUME NEW c \in Calls, NEW l \in Lanes, Lane(c, l)
      PROVE  CallsInSession'
  <2>1. UNCHANGED <<pc, sess, declared>>
    BY <1>7 DEF Lane, GatewayStoresChunk, LaneAcked, LaneRetries, LaneRefused, callVars
  <2> QED
    BY <1>7, <1>i, <2>1, LaneStep DEF CallsInSession
<1>8. ASSUME NEW c \in Calls, Crash(c)
      PROVE  CallsInSession'
  <2>1. \A d \in Calls : \A l \in Lanes : lane'[d][l].st \notin InFlight
    BY <1>8 DEF Crash, LaneOff, InFlight
  <2>2. Goto(c, "crashed") /\ UNCHANGED <<sess, declared>>
    BY <1>8 DEF Crash
  <2> QED
    BY <1>t, <1>i, <2>1, <2>2 DEF CallsInSession, Goto, InSession
<1>9. ASSUME Environment, \A c \in Calls : ~Crash(c)
      PROVE  UNCHANGED <<pc, sess, declared, lane>>
  BY <1>9 DEF Environment, Abort, CallerAbandons, ResolveAttempt, LoseChunk, Expire, SourceGrows,
     clientVars, callVars, batchVars
<1>10. CASE UNCHANGED vars
  BY <1>1, <1>10 DEF vars, clientVars, callVars, batchVars
<1> QED
  BY <1>1, <1>4, <1>5, <1>6, <1>7, <1>8, <1>9, <1>10 DEF Next, Start

LEMMA TInvStep ==
  TInv /\ [Next]_vars => TInv'
BY BatchesStep, RestStep, LoopStep, SizedStep, CallsStep DEF TInv, TypeOK, Rest, SessionInv

(* TInv holds of every reachable state, whatever the constants.             *)
THEOREM TInvAlways == Spec => []TInv
<1>1. Init => TInv
  BY TInvInit
<1>2. TInv /\ [Next]_vars => TInv'
  BY TInvStep
<1> QED
  BY <1>1, <1>2, PTL DEF Spec

(* Every variable keeps its type, and the three bounded loops (retries of a *)
(* chunk, completion attempts, polls) never pass their limits.              *)
THEOREM TypeCorrect == Spec => []TypeOK
<1>1. TInv => TypeOK
  BY DEF TInv
<1> QED
  BY <1>1, TInvAlways, PTL

-----------------------------------------------------------------------------

(* The caller makes its calls one after the other. *)
OneAtATime ==
  \A c, d \in Calls : c < d /\ pc[d] # "idle" => pc[c] \in Settled

(* The cursor runs over a list without duplicates; the lanes in flight hold *)
(* chunks it has passed, and a lane is done only when it is at the end.     *)
CursorInv ==
  \A c \in Calls :
    /\ \A j, k \in 1..Len(todo[c]) : todo[c][j] = todo[c][k] => j = k
    /\ cursor[c] <= Len(todo[c])
    /\ pc[c] \in BeforeBatch => todo[c] = <<>>
    /\ \A l \in Lanes : lane[c][l].st \in InFlight =>
         \E k \in 1..cursor[c] : lane[c][l].chunk = todo[c][k]
    /\ \A l \in Lanes : lane[c][l].st = "done" => cursor[c] = Len(todo[c])

(* While a call sends, every chunk passed by the cursor is acknowledged or  *)
(* held by a lane that has not given it up; afterwards all are acknowledged. *)
AckedInv ==
  \A c \in Calls :
    /\ pc[c] = "upload" =>
         /\ \A k \in 1..cursor[c] :
              \/ todo[c][k] \in acked[c]
              \/ \E l \in Lanes : lane[c][l].st \in {"put", "acked", "failed"}
                                 /\ lane[c][l].chunk = todo[c][k]
         /\ (\A l \in Lanes : lane[c][l].st = "off") => cursor[c] = Len(todo[c])
    /\ pc[c] \in {"complete", "gap"} =>
         \A k \in 1..Len(todo[c]) : todo[c][k] \in acked[c]

BatchInv == OneAtATime /\ CursorInv /\ AckedInv /\ ClaimedOnce /\ NoLaneBehind

-----------------------------------------------------------------------------
(* A listing names each chunk once.                                         *)
LEMMA ListingsAreInjective ==
  ASSUME NEW S, S \subseteq Nat, Cardinality(S) \in Nat, NEW q \in Listings(S)
  PROVE  \A j, k \in 1..Cardinality(S) : q[j] = q[k] => j = k
<1> SUFFICES ASSUME NEW j \in 1..Cardinality(S), NEW k \in 1..Cardinality(S), q[j] = q[k]
             PROVE  j = k
  OBVIOUS
<1>1. /\ q[j] \in Nat /\ q[k] \in Nat
      /\ j < k => q[j] < q[k]
      /\ k < j => q[k] < q[j]
  BY DEF Listings
<1> QED
  BY <1>1

(* The batch a call starts: a lane for each of the first chunks, none       *)
(* shared, and no lane at all only if the cursor is at the end.             *)
LEMMA StartBatchFacts ==
  ASSUME TInv, NEW c \in Calls, NEW n \in Int, NEW S, S \subseteq 0..n, StartBatch(c, S)
  PROVE  /\ \A j, k \in 1..Len(todo'[c]) : todo'[c][j] = todo'[c][k] => j = k
         /\ cursor'[c] \in Nat /\ cursor'[c] <= Len(todo'[c])
         /\ \A l \in Lanes :
              \/ lane'[c][l].st = "off"
              \/ /\ lane'[c][l].st \in {"put", "failed"}
                 /\ l \in 1..cursor'[c]
                 /\ lane'[c][l].chunk = todo'[c][l]
         /\ \A k \in 1..cursor'[c] : k \in Lanes /\ lane'[c][k].st \in {"put", "failed"}
                                                /\ lane'[c][k].chunk = todo'[c][k]
         /\ (\A l \in Lanes : lane'[c][l].st = "off") => cursor'[c] = Len(todo'[c])
         /\ \A d \in Calls \ {c} : /\ todo'[d] = todo[d] /\ cursor'[d] = cursor[d]
                                   /\ lane'[d] = lane[d] /\ acked'[d] = acked[d]
<1> DEFINE m == Minimum(Parallelism, Cardinality(S))
           r(q, l) == IF l > m THEN LaneOff
                      ELSE [st |-> IF aborted[c] THEN "failed" ELSE "put",
                            chunk |-> q[l], tries |-> 0]
<1>t. /\ DOMAIN todo = Calls /\ DOMAIN cursor = Calls /\ DOMAIN lane = Calls /\ DOMAIN acked = Calls
  BY DEF TInv, TypeOK, BatchesTyped
<1>s. \A q, l : /\ l > m => r(q, l).st = "off"
                /\ ~(l > m) => r(q, l).st \in {"put", "failed"} /\ r(q, l).chunk = q[l]
  BY DEF LaneOff
<1>1. PICK q \in Listings(S) :
        /\ todo' = [todo EXCEPT ![c] = q]
        /\ cursor' = [cursor EXCEPT ![c] = m]
        /\ lane' = [lane EXCEPT ![c] = [l \in Lanes |-> r(q, l)]]
        /\ acked' = [acked EXCEPT ![c] = {}]
  BY DEF StartBatch
<1>2. q \in Seq(Nat) /\ Len(q) = Cardinality(S) /\ Cardinality(S) \in Nat
  BY ListingsAreSequences
<1>3. /\ m \in Nat /\ m <= Len(q) /\ m <= Parallelism
      /\ m = 0 => m = Len(q)
  BY <1>2, ConstantsAssumption DEF Minimum
<1>4. todo'[c] = q /\ cursor'[c] = m /\ \A l \in Lanes : lane'[c][l] = r(q, l)
  BY <1>1, <1>t
<1> HIDE DEF r
<1>5. \A j, k \in 1..Len(q) : q[j] = q[k] => j = k
  <2>1. S \subseteq Nat
    OBVIOUS
  <2>2. \A j, k \in 1..Cardinality(S) : q[j] = q[k] => j = k
    BY <1>2, <2>1, ListingsAreInjective
  <2> QED
    BY <1>2, <2>2
<1>6. \A l \in Lanes : l \in Nat \ {0} /\ (l > m \/ l \in 1..m)
  BY <1>3, ConstantsAssumption DEF Lanes
<1>7. \A k \in 1..m : k \in Lanes /\ ~(k > m)
  BY <1>3, ConstantsAssumption DEF Lanes
<1>8. ASSUME NEW l \in Lanes
      PROVE  \/ lane'[c][l].st = "off"
             \/ /\ lane'[c][l].st \in {"put", "failed"}
                /\ l \in 1..m
                /\ lane'[c][l].chunk = q[l]
  <2>1. CASE l > m
    BY <1>s, <1>4, <2>1
  <2>2. CASE ~(l > m)
    <3>1. lane'[c][l].st \in {"put", "failed"} /\ lane'[c][l].chunk = q[l]
      BY <1>s, <1>4, <2>2
    <3> QED
      BY <1>6, <2>2, <3>1
  <2> QED
    BY <2>1, <2>2
<1>9. ASSUME NEW k \in 1..m
      PROVE  k \in Lanes /\ lane'[c][k].st \in {"put", "failed"} /\ lane'[c][k].chunk = q[k]
  BY <1>s, <1>4, <1>7
<1>10. ASSUME \A l \in Lanes : lane'[c][l].st = "off"
       PROVE  m = Len(q)
  <2>1. CASE m = 0
    BY <1>3, <2>1
  <2>2. CASE m # 0
    <3>1. 1 \in 1..m
      BY <1>3, <2>2
    <3> QED
      BY <1>9, <1>10, <3>1
  <2> QED
    BY <2>1, <2>2
<1>11. \A d \in Calls \ {c} : /\ todo'[d] = todo[d] /\ cursor'[d] = cursor[d]
                             /\ lane'[d] = lane[d] /\ acked'[d] = acked[d]
  BY <1>1, <1>t
<1> HIDE DEF m
<1> QED
  BY <1>3, <1>4, <1>5, <1>8, <1>9, <1>10, <1>11

-----------------------------------------------------------------------------
LEMMA BatchInvInit == Init => BatchInv
BY ConstantsAssumption
DEF Init, BatchInv, OneAtATime, CursorInv, AckedInv, ClaimedOnce, NoLaneBehind, LaneOff, InFlight

(* What is said of the lanes and the chunks. *)
Sending == CursorInv /\ AckedInv /\ ClaimedOnce /\ NoLaneBehind

(* A driver moves on without touching its batch.                            *)
LEMMA MovedOn ==
  ASSUME TInv, Sending, NEW c \in Calls, NEW stage, Goto(c, stage), UNCHANGED batchVars,
         stage \in BeforeBatch => pc[c] \in BeforeBatch,
         stage # "upload",
         stage \in {"complete", "gap"} => \A k \in 1..Len(todo[c]) : todo[c][k] \in acked[c],
         stage \in {"complete", "gap", "poll", "ok"} =>
           \A l \in Lanes : lane[c][l].st \notin InFlight
  PROVE  Sending'
<1>1. pc'[c] = stage /\ \A d \in Calls \ {c} : pc'[d] = pc[d]
  BY DEF TInv, TypeOK, CallsTyped, Goto
<1>2. UNCHANGED <<todo, cursor, lane, acked>>
  BY DEF batchVars
<1>3. CursorInv'
  BY <1>1, <1>2 DEF Sending, CursorInv
<1>4. AckedInv'
  BY <1>1, <1>2 DEF Sending, AckedInv
<1>5. ClaimedOnce'
  BY <1>2 DEF Sending, ClaimedOnce
<1>6. NoLaneBehind'
  BY <1>1, <1>2 DEF Sending, NoLaneBehind
<1> QED
  BY <1>3, <1>4, <1>5, <1>6 DEF Sending

(* A driver starts a batch.                                                 *)
LEMMA BatchStarted ==
  ASSUME TInv, Sending, NEW c \in Calls, Goto(c, "upload"),
         NEW n \in Int, NEW S, S \subseteq 0..n, StartBatch(c, S)
  PROVE  Sending'
<1>1. pc'[c] = "upload" /\ \A d \in Calls \ {c} : pc'[d] = pc[d]
  BY DEF TInv, TypeOK, CallsTyped, Goto
<1>2. /\ \A j, k \in 1..Len(todo'[c]) : todo'[c][j] = todo'[c][k] => j = k
      /\ cursor'[c] \in Nat /\ cursor'[c] <= Len(todo'[c])
      /\ \A l \in Lanes :
           \/ lane'[c][l].st = "off"
           \/ /\ lane'[c][l].st \in {"put", "failed"}
              /\ l \in 1..cursor'[c]
              /\ lane'[c][l].chunk = todo'[c][l]
      /\ \A k \in 1..cursor'[c] : k \in Lanes /\ lane'[c][k].st \in {"put", "failed"}
                                             /\ lane'[c][k].chunk = todo'[c][k]
      /\ (\A l \in Lanes : lane'[c][l].st = "off") => cursor'[c] = Len(todo'[c])
      /\ \A d \in Calls \ {c} : /\ todo'[d] = todo[d] /\ cursor'[d] = cursor[d]
                                /\ lane'[d] = lane[d] /\ acked'[d] = acked[d]
  BY StartBatchFacts
<1>l. todo'[c] \in Seq(Nat)
  BY StartBatchType DEF TInv, TypeOK, BatchesTyped
<1>3. CursorInv'
  <2>1. \A l \in Lanes : /\ lane'[c][l].st # "done"
                       /\ lane'[c][l].st \in InFlight =>
                            \E k \in 1..cursor'[c] : lane'[c][l].chunk = todo'[c][k]
    BY <1>2 DEF InFlight
  <2>2. pc'[c] \notin BeforeBatch
    BY <1>1 DEF BeforeBatch
  <2>3. ASSUME NEW d \in Calls, d # c
        PROVE  CursorInv!(d)'
    BY <1>1, <1>2, <2>3 DEF Sending, CursorInv
  <2>4. CursorInv!(c)'
    BY <1>2, <2>1, <2>2
  <2> QED
    BY <2>3, <2>4 DEF CursorInv
<1>4. AckedInv'
  <2>1. ASSUME NEW d \in Calls, d # c
        PROVE  AckedInv!(d)'
    BY <1>1, <1>2, <2>1 DEF Sending, AckedInv
  <2>2. AckedInv!(c)'
    <3>1. pc'[c] \notin {"complete", "gap"}
      BY <1>1
    <3>2. \A k \in 1..cursor'[c] : \E l \in Lanes :
            lane'[c][l].st \in {"put", "acked", "failed"} /\ lane'[c][l].chunk = todo'[c][k]
      BY <1>2
    <3> QED
      BY <1>2, <3>1, <3>2
  <2> QED
    BY <2>1, <2>2 DEF AckedInv
<1>5. ClaimedOnce'
  <2>1. ASSUME NEW l \in Lanes, NEW m \in Lanes, l # m,
               lane'[c][l].st \in InFlight, lane'[c][m].st \in InFlight
        PROVE  lane'[c][l].chunk # lane'[c][m].chunk
    <3>1. /\ l \in 1..Len(todo'[c]) /\ lane'[c][l].chunk = todo'[c][l]
          /\ m \in 1..Len(todo'[c]) /\ lane'[c][m].chunk = todo'[c][m]
      BY <1>2, <1>l, <2>1 DEF InFlight
    <3> QED
      BY <1>2, <2>1, <3>1
  <2> QED
    BY <1>2, <2>1 DEF Sending, ClaimedOnce
<1>6. NoLaneBehind'
  BY <1>1, <1>2 DEF Sending, NoLaneBehind
<1> QED
  BY <1>3, <1>4, <1>5, <1>6 DEF Sending

(* A lane keeps its chunk, whether it goes on with it or gives it up.       *)
LEMMA LaneKeepsChunk ==
  ASSUME TInv, Sending, NEW c \in Calls, NEW l \in Lanes,
         lane[c][l].st \in InFlight,
         lane'[c][l].chunk = lane[c][l].chunk,
         lane'[c][l].st \in {"put", "acked", "failed"},
         \A d \in Calls, m \in Lanes : d # c \/ m # l => lane'[d][m] = lane[d][m],
         \A d \in Calls : acked[d] \subseteq acked'[d],
         UNCHANGED <<pc, todo, cursor>>
  PROVE  Sending'
<1>1. CursorInv'
  BY DEF Sending, CursorInv, InFlight
<1>2. AckedInv'
  <2> SUFFICES ASSUME NEW d \in Calls
               PROVE  AckedInv!(d)'
    BY DEF AckedInv
  <2> QED
    BY DEF Sending, AckedInv, InFlight
<1>3. ClaimedOnce'
  BY DEF Sending, ClaimedOnce
<1>4. NoLaneBehind'
  BY DEF Sending, NoLaneBehind
<1> QED
  BY <1>1, <1>2, <1>3, <1>4 DEF Sending

(* A lane's chunk is acknowledged, and the lane claims the next.            *)
LEMMA LaneClaims ==
  ASSUME TInv, Sending, NEW c \in Calls, NEW l \in Lanes,
         lane[c][l].st \in InFlight,
         lane[c][l].chunk \in acked'[c],
         cursor[c] < Len(todo[c]),
         cursor'[c] = cursor[c] + 1,
         \A d \in Calls \ {c} : cursor'[d] = cursor[d],
         lane'[c][l].st = "put",
         lane'[c][l].chunk = todo[c][cursor[c] + 1],
         \A d \in Calls, m \in Lanes : d # c \/ m # l => lane'[d][m] = lane[d][m],
         \A d \in Calls : acked[d] \subseteq acked'[d],
         UNCHANGED <<pc, todo>>
  PROVE  Sending'
<1>t. cursor[c] \in Nat /\ Len(todo[c]) \in Nat
  BY DEF TInv, TypeOK, BatchesTyped
<1>1. CursorInv'
  <2>1. \A k \in 1..cursor[c] : k \in 1..cursor'[c]
    BY <1>t
  <2>2. cursor[c] + 1 \in 1..cursor'[c]
    BY <1>t
  <2>3. \A m \in Lanes : lane[c][m].st # "done"
    BY <1>t DEF Sending, CursorInv
  <2>4. \A m \in Lanes : lane'[c][m].st \in InFlight =>
          \E k \in 1..cursor'[c] : lane'[c][m].chunk = todo[c][k]
    BY <2>1, <2>2 DEF Sending, CursorInv
  <2>5. \A m \in Lanes : lane'[c][m].st # "done"
    BY <2>3
  <2>6. CursorInv!(c)'
    BY <1>t, <2>4, <2>5 DEF Sending, CursorInv
  <2>7. ASSUME NEW d \in Calls, d # c
        PROVE  CursorInv!(d)'
    BY <2>7 DEF Sending, CursorInv
  <2> QED
    BY <2>6, <2>7 DEF CursorInv
<1>2. AckedInv'
  <2>1. ASSUME pc[c] = "upload", NEW k \in 1..cursor'[c]
        PROVE  \/ todo[c][k] \in acked'[c]
               \/ \E m \in Lanes : lane'[c][m].st \in {"put", "acked", "failed"}
                                  /\ lane'[c][m].chunk = todo[c][k]
    <3>1. CASE k = cursor[c] + 1
      BY <3>1
    <3>2. CASE k # cursor[c] + 1
      <4>1. k \in 1..cursor[c]
        BY <1>t, <3>2
      <4> QED
        BY <2>1, <4>1 DEF Sending, AckedInv
    <3> QED
      BY <3>1, <3>2
  <2>2. lane'[c][l].st # "off"
    OBVIOUS
  <2>3. ASSUME NEW d \in Calls, d # c
        PROVE  /\ todo'[d] = todo[d] /\ cursor'[d] = cursor[d] /\ acked[d] \subseteq acked'[d]
               /\ \A m \in Lanes : lane'[d][m] = lane[d][m]
    BY <2>3
  <2> QED
    BY <2>1, <2>2, <2>3 DEF Sending, AckedInv
<1>3. ClaimedOnce'
  <2>1. ASSUME NEW m \in Lanes, m # l, lane[c][m].st \in InFlight
        PROVE  lane[c][m].chunk # todo[c][cursor[c] + 1]
    <3>1. PICK k \in 1..cursor[c] : lane[c][m].chunk = todo[c][k]
      BY <2>1 DEF Sending, CursorInv
    <3>2. k \in 1..Len(todo[c]) /\ cursor[c] + 1 \in 1..Len(todo[c]) /\ k # cursor[c] + 1
      BY <1>t
    <3> QED
      BY <3>1, <3>2 DEF Sending, CursorInv
  <2> QED
    BY <2>1 DEF Sending, ClaimedOnce
<1>4. NoLaneBehind'
  BY DEF Sending, NoLaneBehind
<1> QED
  BY <1>1, <1>2, <1>3, <1>4 DEF Sending

(* A lane's chunk is acknowledged, and there is no other to claim.          *)
LEMMA LaneFinishes ==
  ASSUME TInv, Sending, NEW c \in Calls, NEW l \in Lanes,
         lane[c][l].st \in InFlight,
         lane[c][l].chunk \in acked'[c],
         cursor[c] >= Len(todo[c]),
         lane'[c][l].st = "done",
         \A d \in Calls, m \in Lanes : d # c \/ m # l => lane'[d][m] = lane[d][m],
         \A d \in Calls : acked[d] \subseteq acked'[d],
         UNCHANGED <<pc, todo, cursor>>
  PROVE  Sending'
<1>t. cursor[c] \in Nat /\ Len(todo[c]) \in Nat
  BY DEF TInv, TypeOK, BatchesTyped
<1>1. CursorInv'
  <2>1. cursor[c] = Len(todo[c])
    BY <1>t DEF Sending, CursorInv
  <2> QED
    BY <2>1 DEF Sending, CursorInv, InFlight
<1>2. AckedInv'
  <2> SUFFICES ASSUME NEW d \in Calls
               PROVE  AckedInv!(d)'
    BY DEF AckedInv
  <2> QED
    BY DEF Sending, AckedInv, InFlight
<1>3. ClaimedOnce'
  BY DEF Sending, ClaimedOnce, InFlight
<1>4. NoLaneBehind'
  BY DEF Sending, NoLaneBehind, InFlight
<1> QED
  BY <1>1, <1>2, <1>3, <1>4 DEF Sending

-----------------------------------------------------------------------------
LEMMA LaneSending ==
  ASSUME TInv, Sending, NEW c \in Calls, NEW l \in Lanes, Lane(c, l)
  PROVE  Sending'
<1>t. /\ lane \in [Calls -> [Lanes -> LaneRecords]] /\ lane[c][l] \in LaneRecords
      /\ DOMAIN cursor = Calls /\ DOMAIN acked = Calls
  BY DEF TInv, TypeOK, BatchesTyped
<1>1. CASE GatewayStoresChunk(c, l)
  <2>1. /\ lane[c][l].st \in InFlight
        /\ lane' = [lane EXCEPT ![c][l].st = "acked"]
        /\ UNCHANGED <<pc, todo, cursor, acked>>
    BY <1>1 DEF GatewayStoresChunk, InFlight
  <2>2. /\ lane'[c][l].chunk = lane[c][l].chunk /\ lane'[c][l].st = "acked"
        /\ \A d \in Calls, m \in Lanes : d # c \/ m # l => lane'[d][m] = lane[d][m]
    BY <1>t, <2>1 DEF LaneRecords
  <2> QED
    BY <2>1, <2>2, LaneKeepsChunk
<1>2. ASSUME lane[c][l].st \in InFlight,
             lane' = [lane EXCEPT ![c][l].st = "failed"],
             \A d \in Calls : acked[d] \subseteq acked'[d],
             UNCHANGED <<pc, todo, cursor>>
      PROVE  Sending'
  <2>1. /\ lane'[c][l].chunk = lane[c][l].chunk /\ lane'[c][l].st = "failed"
        /\ \A d \in Calls, m \in Lanes : d # c \/ m # l => lane'[d][m] = lane[d][m]
    BY <1>t, <1>2 DEF LaneRecords
  <2> QED
    BY <1>2, <2>1, LaneKeepsChunk
<1>3. CASE LaneRetries(c, l)
  <2>1. lane[c][l].st \in InFlight /\ UNCHANGED <<pc, todo, cursor, acked>>
    BY <1>3 DEF LaneRetries
  <2>2. CASE lane' = [lane EXCEPT ![c][l].st = "put", ![c][l].tries = @ + 1]
    <3>1. /\ lane'[c][l].chunk = lane[c][l].chunk /\ lane'[c][l].st = "put"
          /\ \A d \in Calls, m \in Lanes : d # c \/ m # l => lane'[d][m] = lane[d][m]
      BY <1>t, <2>2 DEF LaneRecords
    <3> QED
      BY <2>1, <3>1, LaneKeepsChunk
  <2> QED
    BY <1>2, <1>3, <2>1, <2>2 DEF LaneRetries
<1>4. CASE LaneRefused(c, l)
  BY <1>2, <1>4 DEF LaneRefused, InFlight
<1>5. CASE LaneAcked(c, l)
  <2>1. /\ lane[c][l].st \in InFlight
        /\ acked' = [acked EXCEPT ![c] = @ \cup {lane[c][l].chunk}]
        /\ UNCHANGED <<pc, todo>>
    BY <1>5 DEF LaneAcked, InFlight
  <2>2. lane[c][l].chunk \in acked'[c] /\ \A d \in Calls : acked[d] \subseteq acked'[d]
    BY <1>t, <2>1
  <2>3. CASE lane' = [lane EXCEPT ![c][l].st = "failed"] /\ UNCHANGED cursor
    BY <1>2, <2>1, <2>2, <2>3
  <2>4. ASSUME cursor[c] < Len(todo[c]),
               lane' = [lane EXCEPT ![c][l] =
                          [st |-> "put", chunk |-> todo[c][cursor[c] + 1], tries |-> 0]],
               cursor' = [cursor EXCEPT ![c] = @ + 1]
        PROVE  Sending'
    <3>1. /\ lane'[c][l].st = "put" /\ lane'[c][l].chunk = todo[c][cursor[c] + 1]
          /\ \A d \in Calls, m \in Lanes : d # c \/ m # l => lane'[d][m] = lane[d][m]
      BY <1>t, <2>4
    <3>2. cursor'[c] = cursor[c] + 1 /\ \A d \in Calls \ {c} : cursor'[d] = cursor[d]
      BY <1>t, <2>4
    <3> QED
      BY <2>1, <2>2, <2>4, <3>1, <3>2, LaneClaims
  <2>5. ASSUME cursor[c] >= Len(todo[c]), lane' = [lane EXCEPT ![c][l].st = "done"],
               UNCHANGED cursor
        PROVE  Sending'
    <3>1. /\ lane'[c][l].st = "done"
          /\ \A d \in Calls, m \in Lanes : d # c \/ m # l => lane'[d][m] = lane[d][m]
      BY <1>t, <2>5 DEF LaneRecords
    <3> QED
      BY <2>1, <2>2, <2>5, <3>1, LaneFinishes
  <2> QED
    BY <1>5, <2>3, <2>4, <2>5 DEF LaneAcked, ClaimNext
<1> QED
  BY <1>1, <1>3, <1>4, <1>5 DEF Lane

(* When every lane of a batch is done, every chunk of it is acknowledged.   *)
LEMMA AllDone ==
  ASSUME TInv, Sending, NEW c \in Calls, pc[c] = "upload",
         \A l \in Lanes : lane[c][l].st \in {"off", "done"}
  PROVE  \A k \in 1..Len(todo[c]) : todo[c][k] \in acked[c]
<1>1. cursor[c] = Len(todo[c])
  <2>1. CASE \A l \in Lanes : lane[c][l].st = "off"
    BY <2>1 DEF Sending, AckedInv
  <2>2. CASE \E l \in Lanes : lane[c][l].st = "done"
    BY <2>2 DEF Sending, CursorInv
  <2> QED
    BY <2>1, <2>2
<1>2. \A l \in Lanes : lane[c][l].st \notin {"put", "acked", "failed"}
  OBVIOUS
<1> QED
  BY <1>1, <1>2 DEF Sending, AckedInv

LEMMA SendMissingSending ==
  ASSUME TInv, Sending, NEW c \in Calls, NEW s \in Calls, SendMissing(c, ServerMissing(s)),
         pc[c] \in {"status", "gap"}
  PROVE  Sending'
<1>1. /\ ChunkCount(ChunkBytes, gwTotal[s]) - 1 \in Int
      /\ ServerMissing(s) \subseteq 0..(ChunkCount(ChunkBytes, gwTotal[s]) - 1)
  BY MissingType DEF TInv, TypeOK
<1>2. CASE Goto(c, "upload") /\ StartBatch(c, ServerMissing(s))
  BY <1>1, <1>2, BatchStarted
<1>3. CASE Goto(c, "complete") /\ UNCHANGED batchVars
  <2>1. \A k \in 1..Len(todo[c]) : todo[c][k] \in acked[c]
    <3>1. CASE pc[c] = "status"
      <4>1. todo[c] = <<>>
        BY <3>1 DEF Sending, CursorInv, BeforeBatch
      <4> QED
        BY <4>1
    <3>2. CASE pc[c] = "gap"
      BY <3>2 DEF Sending, AckedInv
    <3> QED
      BY <3>1, <3>2
  <2>2. \A l \in Lanes : lane[c][l].st \notin InFlight
    BY DEF Sending, NoLaneBehind, TInv, SessionInv, CallsInSession, BeforeBatch
  <2> QED
    BY <1>3, <2>1, <2>2, MovedOn DEF BeforeBatch
<1> QED
  BY <1>2, <1>3 DEF SendMissing

LEMMA DriveSending ==
  ASSUME TInv, Sending, NEW c \in Calls, Drive(c)
  PROVE  Sending'
<1>i. pc[c] \in BeforeBatch \cup {"complete", "gap", "poll"} =>
        \A l \in Lanes : lane[c][l].st \notin InFlight
  BY DEF Sending, NoLaneBehind, TInv, SessionInv, CallsInSession
<1>1. ASSUME NEW stage \in {"error", "leaked", "abandon"}, Goto(c, stage), UNCHANGED batchVars
      PROVE  Sending'
  BY <1>1, MovedOn DEF BeforeBatch
<1>2. ASSUME NEW stage \in {"poll", "ok"}, Goto(c, stage), UNCHANGED batchVars,
             pc[c] \in BeforeBatch \cup {"complete", "gap", "poll"}
      PROVE  Sending'
  BY <1>2, <1>i, MovedOn DEF BeforeBatch
<1>3. CASE CreateAnswered(c)
  <2>1. declared[c] \in Nat
    BY SizeIsNat DEF TInv, TypeOK, CallsTyped
  <2>2. ChunkCount(ChunkBytes, declared[c]) - 1 \in Int
    BY <2>1, ConstantsAssumption, ChunkCountType
  <2> QED
    BY <1>3, <2>2, BatchStarted DEF CreateAnswered
<1>4. CASE ResumeAdopts(c) \/ GapRead(c)
  <2>1. sess[c] \in Calls /\ pc[c] \in {"status", "gap"} /\ SendMissing(c, ServerMissing(sess[c]))
    BY <1>4 DEF ResumeAdopts, GapRead, TInv, SessionInv, CallsInSession, InSession
  <2> QED
    BY <2>1, SendMissingSending
<1>5. CASE BatchDone(c)
  <2>1. /\ pc[c] = "upload" /\ Goto(c, "complete") /\ UNCHANGED batchVars
        /\ \A l \in Lanes : lane[c][l].st \in {"off", "done"}
    BY <1>5 DEF BatchDone, clientVars
  <2>2. \A k \in 1..Len(todo[c]) : todo[c][k] \in acked[c]
    BY <2>1, AllDone
  <2>3. \A l \in Lanes : lane[c][l].st \notin InFlight
    BY <2>1 DEF InFlight
  <2> QED
    BY <2>1, <2>2, <2>3, MovedOn DEF BeforeBatch
<1>6. CASE CompleteIncomplete(c)
  <2>1. /\ Goto(c, "gap") \/ Goto(c, "abandon")
        /\ pc[c] = "complete"
        /\ UNCHANGED batchVars
    BY <1>6 DEF CompleteIncomplete, clientVars
  <2>2. \A k \in 1..Len(todo[c]) : todo[c][k] \in acked[c]
    BY <2>1 DEF Sending, AckedInv
  <2> QED
    BY <1>1, <1>i, <2>1, <2>2, MovedOn DEF BeforeBatch
<1>7. CASE CompleteAnswered(c)
  <2>1. Goto(c, "ok") \/ Goto(c, "poll")
    BY <1>7, Zenon DEF CompleteAnswered
  <2> QED
    BY <1>2, <1>7, <2>1 DEF CompleteAnswered, clientVars
<1>8. CASE PollReserved(c)
  <2>1. Goto(c, "poll") \/ Goto(c, "abandon")
    BY <1>8 DEF PollReserved
  <2> QED
    BY <1>1, <1>2, <1>8, <2>1 DEF PollReserved
<1>9. CASE PollTerminal(c)
  <2>1. Goto(c, "ok") \/ Goto(c, "abandon")
    BY <1>9 DEF PollTerminal
  <2> QED
    BY <1>1, <1>2, <1>9, <2>1 DEF PollTerminal, clientVars
<1>10. CASE SingleShotAnswered(c)
  BY <1>1, <1>2, <1>10 DEF SingleShotAnswered, BeforeBatch
<1>11. CASE CreateDeduplicated(c) \/ ResumeFindsCompleted(c)
  BY <1>2, <1>11 DEF CreateDeduplicated, ResumeFindsCompleted, BeforeBatch, clientVars
<1>12. CASE \/ SingleShotFails(c) \/ CreatedButNotifyThrows(c) \/ CreateFails(c)
            \/ ResumeFails(c) \/ BatchFails(c) \/ CompleteFails(c) \/ GapFails(c)
            \/ PollFails(c) \/ AbandonAnswered(c) \/ AbandonFails(c)
  BY <1>1, <1>12 DEF SingleShotFails, CreatedButNotifyThrows, CreateFails, ResumeFails,
     BatchFails, CompleteFails, GapFails, PollFails, AbandonAnswered, AbandonFails, clientVars
<1> QED
  BY <1>3, <1>4, <1>5, <1>6, <1>7, <1>8, <1>9, <1>10, <1>11, <1>12 DEF Drive

LEMMA CrashSending ==
  ASSUME TInv, BatchInv, NEW c \in Calls, Crash(c)
  PROVE  Sending'
<1>1. /\ pc[c] \in Running
      /\ pc'[c] = "crashed"
      /\ \A d \in Calls \ {c} : pc'[d] = pc[d]
  BY DEF Crash, Goto, TInv, TypeOK, CallsTyped
<1>2. /\ \A d \in Calls, l \in Lanes : lane'[d][l].st = "off"
      /\ UNCHANGED <<todo, cursor, acked>>
  BY DEF Crash, LaneOff
<1>3. \A d \in Calls : pc'[d] # "upload"
  <2>1. ASSUME NEW d \in Calls, d # c, pc[d] = "upload"
        PROVE  FALSE
    <3>1. c < d \/ d < c
      BY <2>1, ConstantsAssumption DEF Calls
    <3> QED
      BY <1>1, <2>1, <3>1 DEF BatchInv, OneAtATime, Running, Settled
  <2> QED
    BY <1>1, <2>1
<1>4. CursorInv'
  BY <1>1, <1>2 DEF BatchInv, CursorInv, BeforeBatch, InFlight
<1>5. AckedInv'
  BY <1>1, <1>2, <1>3 DEF BatchInv, AckedInv
<1>6. ClaimedOnce' /\ NoLaneBehind'
  BY <1>2 DEF ClaimedOnce, NoLaneBehind, InFlight
<1> QED
  BY <1>4, <1>5, <1>6 DEF Sending

LEMMA SendingStep ==
  ASSUME TInv, BatchInv, [Next]_vars
  PROVE  Sending'
<1>0. Sending
  BY DEF BatchInv, Sending
<1>1. CASE UNCHANGED <<pc, batchVars>>
  BY <1>0, <1>1 DEF Sending, CursorInv, AckedInv, ClaimedOnce, NoLaneBehind, batchVars
<1>2. ASSUME NEW c \in Calls, Start(c)
      PROVE  Sending'
  <2>1. PICK stage \in {"single", "create", "status"} : Goto(c, stage)
    BY <1>2 DEF Start, StartFresh, StartResume
  <2>2. pc[c] \in BeforeBatch /\ UNCHANGED batchVars
    BY <1>2 DEF Start, StartFresh, StartResume, MayStart, BeforeBatch
  <2> QED
    BY <1>0, <2>1, <2>2, MovedOn
<1>3. ASSUME Environment, \A c \in Calls : ~Crash(c)
      PROVE  UNCHANGED <<pc, batchVars>>
  BY <1>3 DEF Environment, Abort, CallerAbandons, ResolveAttempt, LoseChunk, Expire, SourceGrows,
     clientVars
<1>4. CASE UNCHANGED vars
  BY <1>1, <1>4 DEF vars, clientVars
<1> QED
  BY <1>0, <1>1, <1>2, <1>3, <1>4, DriveSending, LaneSending, CrashSending DEF Next

(* The calls keep their order: only the call that may run changes stage.    *)
LEMMA OrderStep ==
  ASSUME TInv, OneAtATime, [Next]_vars
  PROVE  OneAtATime'
<1>t. pc \in [Calls -> {"idle"} \cup Running \cup Settled]
  BY DEF TInv, TypeOK, CallsTyped
<1>1. ASSUME NEW c \in Calls, NEW stage, Goto(c, stage),
             \/ MayStart(c)
             \/ pc[c] \in Running
      PROVE  OneAtATime'
  <2>1. pc'[c] = stage /\ \A d \in Calls \ {c} : pc'[d] = pc[d]
    BY <1>1, <1>t DEF Goto
  <2>2. \A d \in Calls : d < c => pc[d] \in Settled
    BY <1>1 DEF MayStart, OneAtATime, Running
  <2>3. \A d \in Calls : c < d => pc[d] = "idle"
    BY <1>1 DEF MayStart, OneAtATime, Running, Settled
  <2>4. \A d, e \in Calls : d < e => d # e
    BY ConstantsAssumption DEF Calls
  <2> QED
    BY <2>1, <2>2, <2>3, <2>4 DEF OneAtATime
<1>2. ASSUME NEW c \in Calls, Start(c)
      PROVE  OneAtATime'
  BY <1>1, <1>2 DEF Start, StartFresh, StartResume
<1>3. ASSUME NEW c \in Calls, Drive(c)
      PROVE  OneAtATime'
  <2>1. pc[c] \in Running
    BY <1>3 DEF Drive, SingleShotAnswered, SingleShotFails, CreateDeduplicated, CreateAnswered,
       CreatedButNotifyThrows, CreateFails, ResumeAdopts, ResumeFindsCompleted, ResumeFails,
       BatchDone, BatchFails, CompleteAnswered, CompleteIncomplete, CompleteFails, GapRead,
       GapFails, PollReserved, PollTerminal, PollFails, AbandonAnswered, AbandonFails, Running
  <2>2. \E stage : Goto(c, stage)
    <3>1. CASE CompleteAnswered(c) \/ CompleteIncomplete(c) \/ PollReserved(c) \/ PollTerminal(c)
      BY <3>1, Zenon DEF CompleteAnswered, CompleteIncomplete, PollReserved, PollTerminal
    <3>2. CASE ResumeAdopts(c) \/ GapRead(c)
      BY <3>2, Zenon DEF ResumeAdopts, GapRead, SendMissing
    <3> QED
      BY <1>3, <3>1, <3>2, Zenon DEF Drive, SingleShotAnswered, SingleShotFails,
         CreateDeduplicated, CreateAnswered, CreatedButNotifyThrows, CreateFails,
         ResumeFindsCompleted, ResumeFails, BatchDone, BatchFails, CompleteFails, GapFails,
         PollFails, AbandonAnswered, AbandonFails
  <2> QED
    BY <1>1, <2>1, <2>2
<1>4. ASSUME NEW c \in Calls, Crash(c)
      PROVE  OneAtATime'
  BY <1>1, <1>4 DEF Crash
<1>5. CASE UNCHANGED pc
  BY <1>5 DEF OneAtATime
<1>6. ASSUME NEW c \in Calls, NEW l \in Lanes, Lane(c, l)
      PROVE  UNCHANGED pc
  BY <1>6 DEF Lane, GatewayStoresChunk, LaneAcked, LaneRetries, LaneRefused
<1>7. ASSUME Environment, \A c \in Calls : ~Crash(c)
      PROVE  UNCHANGED pc
  BY <1>7 DEF Environment, Abort, CallerAbandons, ResolveAttempt, LoseChunk, Expire, SourceGrows
<1>8. CASE UNCHANGED vars
  BY <1>5, <1>8 DEF vars
<1> QED
  BY <1>2, <1>3, <1>4, <1>5, <1>6, <1>7, <1>8 DEF Next

-----------------------------------------------------------------------------
(* BatchInv holds of every reachable state, whatever the constants.         *)
THEOREM BatchInvAlways == Spec => []BatchInv
<1>1. Init => BatchInv
  BY BatchInvInit
<1>2. TInv /\ BatchInv /\ [Next]_vars => BatchInv'
  BY SendingStep, OrderStep DEF BatchInv, Sending
<1> QED
  BY <1>1, <1>2, TInvAlways, PTL DEF Spec

(* With any number of lanes, in any order of replies, retries and failures, *)
(* /complete is sent only when the gateway has acknowledged every chunk of  *)
(* the latest gap it reported.                                              *)
THEOREM CompleteCorrect == Spec => []CompleteOnlyWhenAcked
<1>1. BatchInv => CompleteOnlyWhenAcked
  BY DEF BatchInv, AckedInv, CompleteOnlyWhenAcked
<1> QED
  BY <1>1, BatchInvAlways, PTL

(* Promise.all leaves no lane in flight behind a call that goes on to       *)
(* complete, to read the gap, to poll or to return.                         *)
THEOREM LanesCorrect == Spec => []NoLaneBehind
<1>1. BatchInv => NoLaneBehind
  BY DEF BatchInv
<1> QED
  BY <1>1, BatchInvAlways, PTL

(* The shared cursor never hands one missing chunk to two lanes.            *)
THEOREM CursorCorrect == Spec => []ClaimedOnce
<1>1. BatchInv => ClaimedOnce
  BY DEF BatchInv
<1> QED
  BY <1>1, BatchInvAlways, PTL

-----------------------------------------------------------------------------

(* The stages of a call whose session was created or adopted.              *)
Transferring == {"upload", "complete", "gap", "poll"}

(* A session is created once, by the call it is named after, with the      *)
(* length that call declared; a call that resumes another never has one.   *)
Opened(c) ==
  /\ pc[c] \in BeforeBatch => gwState[c] = "none"
  /\ gwState[c] = "none" => gwTotal[c] = 0
  /\ gwState[c] # "none" => declared[c] = gwTotal[c] /\ sess[c] \in {c, NoSession}
  /\ pc[c] \in {"idle", "single", "create"} => sess[c] = NoSession
  /\ pc[c] \in {"idle", "status"} => declared[c] = 0

(* Whoever sends to a session cuts the length it was created with, and     *)
(* the caller holds its id.                                                *)
Adopted(c) ==
  /\ pc[c] = "status" => sess[c] \in persisted
  /\ pc[c] \in Transferring =>
       /\ sess[c] \in persisted
       /\ total[c] = gwTotal[sess[c]]
       /\ declared[c] = gwTotal[sess[c]]
  /\ \A l \in Lanes : lane[c][l].st \in InFlight =>
       sess[c] \in persisted /\ total[c] = gwTotal[sess[c]]

(* What the caller must be able to find again, or to rely on, when a call  *)
(* is over.                                                                *)
Answerable(c) ==
  /\ gwHeld[c] # {} => c \in persisted
  /\ gwState[c] = "open" /\ sess[c] = c => c \in persisted \/ pc[c] \in {"abandon", "crashed"}
  /\ pc[c] = "error" /\ sess[c] # NoSession => gwState[sess[c]] = "gone"
  /\ gwState[c] = "completed" \/ attempt[c] = "committed" => gwTotal[c] \in stored

Kept(c) == Opened(c) /\ Adopted(c) /\ Answerable(c)

KeptInv == \A c \in Calls : Kept(c)

-----------------------------------------------------------------------------
LEMMA KeptInit == Init => KeptInv
BY ConstantsAssumption
DEF Init, KeptInv, Kept, Opened, Adopted, Answerable, BeforeBatch, Transferring, LaneOff, InFlight,
    NoSession, Calls

(* What a step leaves alone of a session it does not create.               *)
SessionKept(s) ==
  /\ gwTotal'[s] = gwTotal[s]
  /\ gwState'[s] = "none" <=> gwState[s] = "none"
  /\ gwState[s] = "gone" => gwState'[s] = "gone"
  /\ gwState'[s] = "open" => gwState[s] = "open"
  /\ gwState'[s] = "completed" \/ attempt'[s] = "committed" => gwTotal[s] \in stored'
  /\ gwHeld'[s] # {} => s \in persisted'

CallKept(d) ==
  /\ pc'[d] = pc[d]
  /\ sess'[d] = sess[d]
  /\ declared'[d] = declared[d]
  /\ total'[d] = total[d]
  /\ \A l \in Lanes : lane'[d][l].st \in InFlight => lane[d][l].st \in InFlight

(* A session that someone works on or holds the id of exists.              *)
LEMMA NamedExists ==
  ASSUME TInv, KeptInv, NEW s \in Calls
  PROVE  /\ s \in persisted => gwState[s] # "none"
         /\ \A c \in Calls : sess[c] = s => gwState[s] # "none"
         /\ attempt[s] # "none" => gwState[s] # "none"
<1>1. gwState[s] = "none" => gwTotal[s] = 0
  BY DEF KeptInv, Kept, Opened
<1>2. 0 \notin Sizes
  BY ConstantsAssumption
<1> QED
  BY <1>1, <1>2 DEF TInv, SessionInv, SessionsSized

(* A call that takes no part in a step keeps its invariant, also when the  *)
(* call that does creates a session: no one else can name it yet.          *)
LEMMA OthersKept ==
  ASSUME TInv, KeptInv, NEW d \in Calls, CallKept(d),
         NEW K, d \notin K,
         \A s \in Calls : (s \in K /\ gwState[s] = "none") \/ SessionKept(s),
         persisted \subseteq persisted'
  PROVE  Kept(d)'
<1>1. Kept(d)
  BY DEF KeptInv
<1>2. SessionKept(d)
  OBVIOUS
<1>3. ASSUME sess[d] \in Calls
      PROVE  SessionKept(sess[d])
  BY <1>3, NamedExists
<1>4. sess[d] \in Calls \cup {NoSession}
  BY DEF TInv, TypeOK, CallsTyped
<1>5. pc[d] \in Transferring => sess[d] \in Calls
  BY DEF TInv, SessionInv, CallsInSession, InSession, Transferring
<1>6. \A l \in Lanes : lane[d][l].st \in InFlight => sess[d] \in Calls
  BY DEF TInv, SessionInv, CallsInSession
<1>7. Opened(d)'
  BY <1>1, <1>2 DEF Kept, Opened, SessionKept, CallKept
<1>8. Adopted(d)'
  BY <1>1, <1>3, <1>5, <1>6 DEF Kept, Adopted, SessionKept, CallKept
<1>9. Answerable(d)'
  BY <1>1, <1>2, <1>3, <1>4 DEF Kept, Answerable, SessionKept, CallKept
<1> QED
  BY <1>7, <1>8, <1>9 DEF Kept

(* A driver that has sent, or will not send, moves to a stage that asks no *)
(* more than it already has.                                               *)
LEMMA MoverKept ==
  ASSUME TInv, KeptInv, NEW c \in Calls, NEW stage, pc'[c] = stage,
         \A s \in Calls : SessionKept(s),
         sess'[c] = sess[c], declared'[c] = declared[c], total'[c] = total[c],
         \A l \in Lanes : lane'[c][l].st \in InFlight => lane[c][l].st \in InFlight,
         persisted \subseteq persisted',
         stage \notin BeforeBatch,
         stage \in Transferring => pc[c] \in Transferring,
         stage = "error" => sess[c] = NoSession \/ gwState'[sess[c]] = "gone",
         \/ stage = "crashed"
         \/ pc[c] \notin {"abandon", "crashed"}
         \/ pc[c] = "abandon" /\ (sess[c] \in persisted' \/ gwState'[sess[c]] = "gone")
  PROVE  Kept(c)'
<1>1. Kept(c)
  BY DEF KeptInv
<1>2. SessionKept(c)
  OBVIOUS
<1>3. sess[c] \in Calls => SessionKept(sess[c])
  OBVIOUS
<1>4. sess[c] \in Calls \cup {NoSession}
  BY DEF TInv, TypeOK, CallsTyped
<1>5. pc[c] \in Transferring => sess[c] \in Calls
  BY DEF TInv, SessionInv, CallsInSession, InSession, Transferring
<1>6. \A l \in Lanes : lane[c][l].st \in InFlight => sess[c] \in Calls
  BY DEF TInv, SessionInv, CallsInSession
<1>7. Opened(c)'
  BY <1>1, <1>2 DEF Kept, Opened, SessionKept, BeforeBatch
<1>8. Adopted(c)'
  BY <1>1, <1>3, <1>5, <1>6 DEF Kept, Adopted, SessionKept, BeforeBatch
<1>9. Answerable(c)'
  BY <1>1, <1>2, <1>3, <1>4 DEF Kept, Answerable, SessionKept
<1> QED
  BY <1>7, <1>8, <1>9 DEF Kept

(* The gateway does nothing, but the caller may note an id.                *)
LEMMA GatewayIdle ==
  ASSUME KeptInv, UNCHANGED gatewayVars, persisted \subseteq persisted'
  PROVE  \A s \in Calls : SessionKept(s)
BY DEF KeptInv, Kept, Answerable, SessionKept, gatewayVars

(* The gateway assembles a session, or accepts it for later.               *)
LEMMA AssemblyKept ==
  ASSUME TInv, KeptInv, NEW r \in Calls, Assembles(r), UNCHANGED persisted
  PROVE  \A s \in Calls : SessionKept(s)
<1>t. /\ gwState \in [Calls -> {"none", "open", "assembling", "completed", "failed", "gone"}]
      /\ attempt \in [Calls -> {"none", "reserved", "committed", "released"}]
  BY DEF TInv, TypeOK, GatewayTyped
<1>k. \A s \in Calls :
        /\ gwHeld[s] # {} => s \in persisted
        /\ gwState[s] = "completed" \/ attempt[s] = "committed" => gwTotal[s] \in stored
  BY DEF KeptInv, Kept, Answerable
<1>1. gwState[r] = "open" /\ UNCHANGED <<gwTotal, gwHeld>>
  BY DEF Assembles
<1>2. CASE /\ gwState' = [gwState EXCEPT ![r] = "completed"]
           /\ stored' = stored \cup {gwTotal[r]}
           /\ UNCHANGED attempt
  BY <1>t, <1>k, <1>1, <1>2 DEF SessionKept
<1>3. CASE /\ gwState' = [gwState EXCEPT ![r] = "assembling"]
           /\ attempt' = [attempt EXCEPT ![r] = "reserved"]
           /\ UNCHANGED stored
  BY <1>t, <1>k, <1>1, <1>3 DEF SessionKept
<1> QED
  BY <1>2, <1>3 DEF Assembles

(* A driver moves on, whatever becomes of the gateway and of storage.      *)
LEMMA MoveKept ==
  ASSUME TInv, KeptInv, NEW c \in Calls, NEW stage, Goto(c, stage),
         \A s \in Calls : SessionKept(s),
         UNCHANGED <<sess, declared, total, lane>>,
         persisted \subseteq persisted',
         stage \notin BeforeBatch,
         stage \in Transferring => pc[c] \in Transferring,
         stage = "error" => sess[c] = NoSession \/ gwState'[sess[c]] = "gone",
         \/ stage = "crashed"
         \/ pc[c] \notin {"abandon", "crashed"}
         \/ pc[c] = "abandon" /\ (sess[c] \in persisted' \/ gwState'[sess[c]] = "gone")
  PROVE  KeptInv'
<1>1. pc'[c] = stage /\ \A d \in Calls \ {c} : pc'[d] = pc[d]
  BY DEF TInv, TypeOK, CallsTyped, Goto
<1>2. Kept(c)'
  BY <1>1, MoverKept
<1>3. ASSUME NEW d \in Calls, d # c
      PROVE  Kept(d)'
  <2>1. CallKept(d)
    BY <1>1, <1>3 DEF CallKept
  <2>2. d \notin {c}
    BY <1>3
  <2> QED
    BY <2>1, <2>2, OthersKept
<1> QED
  BY <1>2, <1>3 DEF KeptInv

(* A driver changes what its call works on: only its own call is in doubt.  *)
LEMMA AdopterKept ==
  ASSUME TInv, KeptInv, NEW c \in Calls, NEW stage, Goto(c, stage),
         \A s \in Calls : (s = c /\ gwState[s] = "none") \/ SessionKept(s),
         \A d \in Calls \ {c} : /\ sess'[d] = sess[d]
                                /\ declared'[d] = declared[d]
                                /\ total'[d] = total[d]
                                /\ lane'[d] = lane[d],
         persisted \subseteq persisted',
         pc'[c] = stage => Kept(c)'
  PROVE  KeptInv'
<1>1. pc'[c] = stage /\ \A d \in Calls \ {c} : pc'[d] = pc[d]
  BY DEF TInv, TypeOK, CallsTyped, Goto
<1>2. ASSUME NEW d \in Calls, d # c
      PROVE  Kept(d)'
  <2>1. CallKept(d)
    BY <1>1, <1>2 DEF CallKept
  <2>2. d \notin {c} /\ \A s \in Calls : (s \in {c} /\ gwState[s] = "none") \/ SessionKept(s)
    BY <1>2
  <2> QED
    BY <2>1, <2>2, OthersKept
<1> QED
  BY <1>1, <1>2 DEF KeptInv

-----------------------------------------------------------------------------
(* Starting a call, and the answers that set what it works on.             *)
LEMMA StartKept ==
  ASSUME TInv, KeptInv, NEW c \in Calls, Start(c)
  PROVE  KeptInv'
<1>t. /\ sess \in [Calls -> Calls \cup {NoSession}]
      /\ declared \in [Calls -> Sizes \cup {0}]
  BY DEF TInv, TypeOK, CallsTyped
<1>k. Kept(c) /\ \A l \in Lanes : pc[c] \in BeforeBatch => lane[c][l].st \notin InFlight
  BY DEF KeptInv, TInv, SessionInv, CallsInSession
<1>1. CASE StartFresh(c)
  <2>1. /\ Goto(c, "single") \/ Goto(c, "create")
        /\ declared' = [declared EXCEPT ![c] = sourceSize]
        /\ pc[c] = "idle"
        /\ UNCHANGED <<sess, total, lane, acked, persisted>>
        /\ UNCHANGED gatewayVars
    BY <1>1 DEF StartFresh, MayStart, batchVars, callerVars
  <2>2. \A s \in Calls : SessionKept(s)
    BY <2>1, GatewayIdle
  <2>3. PICK stage \in {"single", "create"} : Goto(c, stage)
    BY <2>1
  <2>4. ASSUME pc'[c] = stage
        PROVE  Kept(c)'
    BY <1>k, <2>1, <2>4
    DEF Kept, Opened, Adopted, Answerable, BeforeBatch, Transferring, gatewayVars
  <2> QED
    BY <1>t, <2>1, <2>2, <2>3, <2>4, AdopterKept
<1>2. ASSUME NEW s \in Calls, StartResume(c, s)
      PROVE  KeptInv'
  <2>1. /\ Goto(c, "status")
        /\ sess' = [sess EXCEPT ![c] = s]
        /\ pc[c] = "idle" /\ s \in persisted
        /\ UNCHANGED <<declared, total, lane, acked, persisted>>
        /\ UNCHANGED gatewayVars
    BY <1>2 DEF StartResume, MayStart, batchVars, callerVars
  <2>2. \A r \in Calls : SessionKept(r)
    BY <2>1, GatewayIdle
  <2>3. sess'[c] = s
    BY <1>t, <2>1
  <2>4. ASSUME pc'[c] = "status"
        PROVE  Kept(c)'
    BY <1>k, <2>1, <2>3, <2>4
    DEF Kept, Opened, Adopted, Answerable, BeforeBatch, Transferring, gatewayVars
  <2> QED
    BY <1>t, <2>1, <2>2, <2>4, AdopterKept
<1> QED
  BY <1>1, <1>2 DEF Start

(* Adopting a session's length, to send what it misses or to complete it.  *)
LEMMA AdoptKept ==
  ASSUME TInv, KeptInv, NEW c \in Calls, ResumeAdopts(c) \/ GapRead(c)
  PROVE  KeptInv'
<1>t. /\ declared \in [Calls -> Sizes \cup {0}]
      /\ total \in [Calls -> Sizes \cup {0}]
      /\ lane \in [Calls -> [Lanes -> LaneRecords]]
  BY DEF TInv, TypeOK, CallsTyped, BatchesTyped
<1>k. Kept(c)
  BY DEF KeptInv
<1>1. /\ pc[c] \in {"status", "gap"} /\ sess[c] \in Calls
      /\ total' = [total EXCEPT ![c] = gwTotal[sess[c]]]
      /\ \/ declared' = [declared EXCEPT ![c] = gwTotal[sess[c]]]
         \/ pc[c] = "gap" /\ UNCHANGED declared
      /\ SendMissing(c, ServerMissing(sess[c]))
      /\ UNCHANGED <<sess, persisted>>
      /\ UNCHANGED gatewayVars
  BY DEF ResumeAdopts, GapRead, Adopt, TInv, SessionInv, CallsInSession, InSession, callerVars
<1>2. PICK stage \in {"complete", "upload"} : Goto(c, stage)
  BY <1>1 DEF SendMissing
<1>3. /\ \A s \in Calls : SessionKept(s)
      /\ UNCHANGED <<gwState, gwTotal, gwHeld, attempt, stored>>
  BY <1>1, GatewayIdle DEF gatewayVars
<1>4. \A d \in Calls \ {c} : lane'[d] = lane[d]
  BY <1>t, <1>1 DEF SendMissing, StartBatch, batchVars
<1>5. sess[c] \in persisted
  BY <1>k, <1>1 DEF Kept, Adopted, Transferring
<1>6. gwState[c] # "none" => pc[c] = "gap"
  BY <1>k, <1>1 DEF Kept, Opened, BeforeBatch
<1>7. declared'[c] = gwTotal[sess[c]] /\ total'[c] = gwTotal[sess[c]]
  BY <1>t, <1>k, <1>1 DEF Kept, Adopted, Transferring
<1>8. pc[c] = "gap" => declared'[c] = declared[c]
  BY <1>k, <1>7 DEF Kept, Adopted, Transferring
<1>9. ASSUME pc'[c] = stage
      PROVE  Kept(c)'
  <2>1. Opened(c)'
    BY <1>k, <1>1, <1>2, <1>3, <1>6, <1>8, <1>9 DEF Kept, Opened, BeforeBatch
  <2>2. Adopted(c)'
    BY <1>1, <1>2, <1>3, <1>5, <1>7, <1>9 DEF Adopted, Transferring
  <2>3. Answerable(c)'
    BY <1>k, <1>1, <1>2, <1>3, <1>9 DEF Kept, Answerable
  <2> QED
    BY <2>1, <2>2, <2>3 DEF Kept
<1> QED
  BY <1>t, <1>1, <1>2, <1>3, <1>4, <1>9, AdopterKept

(* The gateway opens a session, whether or not its creator hears of it.    *)
LEMMA OpenKept ==
  ASSUME TInv, KeptInv, NEW c \in Calls, pc[c] = "create", OpenSession(c), UNCHANGED declared,
         NEW stage \in {"upload", "abandon", "error"}, Goto(c, stage),
         \/ stage = "upload" /\ sess' = [sess EXCEPT ![c] = c] /\ persisted' = persisted \cup {c}
            /\ total' = [total EXCEPT ![c] = declared[c]]
         \/ stage = "abandon" /\ sess' = [sess EXCEPT ![c] = c] /\ UNCHANGED <<persisted, total>>
         \/ stage = "error" /\ UNCHANGED <<sess, persisted, total>>,
         \A d \in Calls \ {c} : lane'[d] = lane[d],
         stage # "upload" => UNCHANGED lane
  PROVE  KeptInv'
<1>t. /\ sess \in [Calls -> Calls \cup {NoSession}]
      /\ total \in [Calls -> Sizes \cup {0}]
      /\ gwState \in [Calls -> {"none", "open", "assembling", "completed", "failed", "gone"}]
      /\ gwTotal \in [Calls -> Sizes \cup {0}]
      /\ NoSession \notin Calls
  BY DEF TInv, TypeOK, CallsTyped, GatewayTyped, Calls, NoSession
<1>k. /\ Kept(c)
      /\ \A l \in Lanes : lane[c][l].st \notin InFlight
      /\ gwState[c] = "none" /\ sess[c] = NoSession
  BY DEF KeptInv, Kept, Opened, TInv, SessionInv, CallsInSession, BeforeBatch
<1>1. /\ gwState' = [gwState EXCEPT ![c] = "open"]
      /\ gwTotal' = [gwTotal EXCEPT ![c] = declared[c]]
      /\ UNCHANGED <<gwHeld, attempt, stored>>
  BY DEF OpenSession
<1>2. \A s \in Calls : (s = c /\ gwState[s] = "none") \/ SessionKept(s)
  BY <1>t, <1>k, <1>1 DEF KeptInv, Kept, Answerable, SessionKept
<1>3. gwState[c] = "none" => gwHeld[c] = {} /\ attempt[c] = "none"
  <2>1. c \in persisted => gwState[c] # "none"
    BY NamedExists
  <2>2. attempt[c] # "none" => gwState[c] # "none"
    BY NamedExists
  <2> QED
    BY <1>k, <2>1, <2>2 DEF Kept, Answerable
<1>4. gwState'[c] = "open" /\ gwTotal'[c] = declared[c] /\ gwHeld'[c] = {} /\ attempt'[c] = "none"
  BY <1>t, <1>k, <1>1, <1>3
<1>5. \/ stage = "upload" /\ sess'[c] = c /\ c \in persisted' /\ total'[c] = declared[c]
      \/ stage = "abandon" /\ sess'[c] = c
      \/ stage = "error" /\ sess'[c] = NoSession
  BY <1>t, <1>k
<1>6. ASSUME pc'[c] = stage
      PROVE  Kept(c)'
  <2>1. Opened(c)'
    BY <1>4, <1>5, <1>6 DEF Opened, BeforeBatch
  <2>2. Adopted(c)'
    BY <1>k, <1>4, <1>5, <1>6 DEF Adopted, Transferring
  <2>3. Answerable(c)'
    BY <1>t, <1>4, <1>5, <1>6 DEF Answerable
  <2> QED
    BY <2>1, <2>2, <2>3 DEF Kept
<1>7. \A d \in Calls \ {c} : /\ sess'[d] = sess[d]
                              /\ declared'[d] = declared[d]
                              /\ total'[d] = total[d]
                              /\ lane'[d] = lane[d]
  BY <1>t
<1>8. persisted \subseteq persisted'
  OBVIOUS
<1> QED
  BY <1>2, <1>6, <1>7, <1>8, AdopterKept

LEMMA DriveKept ==
  ASSUME TInv, KeptInv, NEW c \in Calls, Drive(c)
  PROVE  KeptInv'
<1>t. /\ sess \in [Calls -> Calls \cup {NoSession}]
      /\ declared \in [Calls -> Sizes \cup {0}]
      /\ lane \in [Calls -> [Lanes -> LaneRecords]]
      /\ gwState \in [Calls -> {"none", "open", "assembling", "completed", "failed", "gone"}]
  BY DEF TInv, TypeOK, CallsTyped, BatchesTyped, GatewayTyped
<1>k. /\ Kept(c)
      /\ pc[c] \in InSession => sess[c] \in Calls
      /\ \A l \in Lanes : pc[c] \in BeforeBatch => lane[c][l].st \notin InFlight
  BY DEF KeptInv, TInv, SessionInv, CallsInSession
<1>1. ASSUME NEW stage \in {"complete", "gap", "poll", "ok", "abandon"}, Goto(c, stage),
             pc[c] \in Transferring, UNCHANGED <<sess, declared, total, lane, persisted>>,
             \A s \in Calls : SessionKept(s)
      PROVE  KeptInv'
  BY <1>1, MoveKept DEF Transferring, BeforeBatch
<1>2. CASE CreateAnswered(c)
  <2>1. /\ pc[c] = "create" /\ OpenSession(c) /\ Goto(c, "upload") /\ UNCHANGED declared
        /\ sess' = [sess EXCEPT ![c] = c] /\ total' = [total EXCEPT ![c] = declared[c]]
        /\ persisted' = persisted \cup {c}
    BY <1>2 DEF CreateAnswered, Notify
  <2>2. \A d \in Calls \ {c} : lane'[d] = lane[d]
    BY <1>2, <1>t DEF CreateAnswered, StartBatch
  <2> QED
    BY <2>1, <2>2, OpenKept
<1>3. CASE CreatedButNotifyThrows(c)
  <2>1. /\ pc[c] = "create" /\ OpenSession(c) /\ Goto(c, "abandon")
        /\ sess' = [sess EXCEPT ![c] = c]
        /\ UNCHANGED <<declared, total, persisted, lane>>
    BY <1>3 DEF CreatedButNotifyThrows, batchVars, callerVars
  <2> QED
    BY <2>1, OpenKept
<1>4. CASE CreateFails(c)
  <2>1. /\ pc[c] = "create" /\ Goto(c, "error")
        /\ UNCHANGED <<sess, declared, total, persisted, lane>>
        /\ OpenSession(c) \/ UNCHANGED gatewayVars
    BY <1>4 DEF CreateFails, clientVars, callVars, batchVars, callerVars
  <2>2. CASE OpenSession(c)
    BY <2>1, <2>2, OpenKept
  <2>3. CASE UNCHANGED gatewayVars
    <3>1. sess[c] = NoSession
      BY <1>k, <2>1 DEF Kept, Opened
    <3>2. \A s \in Calls : SessionKept(s)
      BY <2>1, <2>3, GatewayIdle
    <3> QED
      BY <2>1, <3>1, <3>2, MoveKept DEF BeforeBatch, Transferring
  <2> QED
    BY <2>1, <2>2, <2>3
<1>5. CASE SingleShotAnswered(c) \/ SingleShotFails(c)
  <2>1. /\ pc[c] = "single" /\ (Goto(c, "ok") \/ Goto(c, "error"))
        /\ UNCHANGED <<sess, declared, total, persisted, lane, gwState, gwTotal, gwHeld, attempt>>
        /\ stored \subseteq stored'
    BY <1>5 DEF SingleShotAnswered, SingleShotFails, clientVars, callVars, batchVars, callerVars
  <2>2. \A s \in Calls : SessionKept(s)
    BY <2>1 DEF KeptInv, Kept, Answerable, SessionKept
  <2>3. sess[c] = NoSession
    BY <1>k, <2>1 DEF Kept, Opened
  <2>4. PICK stage \in {"ok", "error"} : Goto(c, stage)
    BY <2>1
  <2>5. /\ stage \notin BeforeBatch \cup Transferring
        /\ pc[c] \notin {"abandon", "crashed"}
    BY <2>1 DEF BeforeBatch, Transferring
  <2> QED
    BY <2>1, <2>2, <2>3, <2>4, <2>5, MoveKept
<1>6. CASE CreateDeduplicated(c)
  <2>1. /\ pc[c] = "create" /\ Goto(c, "ok")
        /\ UNCHANGED <<sess, declared, total, persisted, lane>>
        /\ UNCHANGED gatewayVars
    BY <1>6 DEF CreateDeduplicated, clientVars, callVars, batchVars, callerVars
  <2>2. \A s \in Calls : SessionKept(s)
    BY <2>1, GatewayIdle
  <2> QED
    BY <2>1, <2>2, MoveKept DEF BeforeBatch, Transferring
<1>7. CASE ResumeFindsCompleted(c)
  <2>1. /\ pc[c] = "status" /\ Goto(c, "ok")
        /\ declared' = [declared EXCEPT ![c] = gwTotal[sess[c]]]
        /\ UNCHANGED <<sess, total, persisted, lane>>
        /\ UNCHANGED gatewayVars
    BY <1>7 DEF ResumeFindsCompleted, batchVars, callerVars
  <2>2. \A s \in Calls : SessionKept(s)
    BY <2>1, GatewayIdle
  <2>3. ASSUME pc'[c] = "ok"
        PROVE  Kept(c)'
    BY <1>k, <2>1, <2>3
    DEF Kept, Opened, Adopted, Answerable, BeforeBatch, Transferring, gatewayVars
  <2> QED
    BY <1>t, <2>1, <2>2, <2>3, AdopterKept
<1>8. CASE ResumeFails(c)
  <2>1. /\ pc[c] = "status" /\ Goto(c, "error")
        /\ sess' = [sess EXCEPT ![c] = NoSession]
        /\ UNCHANGED <<declared, total, persisted, lane>>
        /\ UNCHANGED gatewayVars
    BY <1>8 DEF ResumeFails, batchVars, callerVars
  <2>2. \A s \in Calls : SessionKept(s)
    BY <2>1, GatewayIdle
  <2>3. sess'[c] = NoSession /\ NoSession \notin Calls
    BY <1>t, <2>1 DEF Calls, NoSession
  <2>4. ASSUME pc'[c] = "error"
        PROVE  Kept(c)'
    BY <1>k, <2>1, <2>3, <2>4
    DEF Kept, Opened, Adopted, Answerable, BeforeBatch, Transferring, gatewayVars
  <2> QED
    BY <1>t, <2>1, <2>2, <2>4, AdopterKept
<1>9. CASE BatchDone(c) \/ BatchFails(c) \/ CompleteIncomplete(c) \/ GapFails(c) \/ PollFails(c)
  <2>1. /\ \E stage \in {"complete", "gap", "abandon"} : Goto(c, stage)
        /\ pc[c] \in Transferring
        /\ UNCHANGED <<sess, declared, total, persisted, lane>>
        /\ UNCHANGED gatewayVars
    BY <1>9 DEF BatchDone, BatchFails, CompleteIncomplete, GapFails, PollFails, Transferring,
       clientVars, callVars, batchVars, callerVars
  <2>2. \A s \in Calls : SessionKept(s)
    BY <2>1, GatewayIdle
  <2> QED
    BY <1>1, <2>1, <2>2
<1>10. CASE PollReserved(c) \/ PollTerminal(c)
  <2>1. /\ Goto(c, "ok") \/ Goto(c, "poll") \/ Goto(c, "abandon")
        /\ pc[c] \in Transferring
        /\ UNCHANGED <<sess, declared, total, persisted, lane>>
        /\ UNCHANGED gatewayVars
    BY <1>10 DEF PollReserved, PollTerminal, Transferring, clientVars, callVars, batchVars, callerVars
  <2>2. \A s \in Calls : SessionKept(s)
    BY <2>1, GatewayIdle
  <2> QED
    BY <1>1, <2>1, <2>2
<1>11. CASE CompleteAnswered(c) \/ CompleteFails(c)
  <2>1. /\ Goto(c, "ok") \/ Goto(c, "poll") \/ Goto(c, "abandon")
        /\ pc[c] = "complete"
        /\ UNCHANGED <<sess, declared, total, persisted, lane>>
        /\ Assembles(sess[c]) \/ UNCHANGED gatewayVars
    BY <1>11, Zenon DEF CompleteAnswered, CompleteFails, Replays, clientVars, callVars, batchVars,
       callerVars
  <2>2. \A s \in Calls : SessionKept(s)
    BY <1>k, <2>1, GatewayIdle, AssemblyKept DEF InSession
  <2> QED
    BY <1>1, <2>1, <2>2 DEF Transferring
<1>12. CASE ResumeAdopts(c) \/ GapRead(c)
  BY <1>12, AdoptKept
<1>13. CASE AbandonAnswered(c) \/ AbandonFails(c)
  <2>1. /\ pc[c] = "abandon" /\ sess[c] \in Calls
        /\ UNCHANGED <<sess, declared, total, lane, gwTotal, gwHeld, attempt, stored>>
        /\ persisted \subseteq persisted'
    BY <1>13, <1>k DEF AbandonAnswered, AbandonFails, InSession, clientVars, callVars, batchVars,
       callerVars
  <2>2. \/ /\ Goto(c, "error")
           /\ gwState' = [gwState EXCEPT ![sess[c]] = "gone"]
        \/ /\ Goto(c, "leaked")
           /\ sess[c] \in persisted'
           /\ gwState' = [gwState EXCEPT ![sess[c]] = "gone"] \/ UNCHANGED gwState
    BY <1>13 DEF AbandonAnswered, AbandonFails
  <2>3. \A s \in Calls : SessionKept(s)
    <3>1. gwState[sess[c]] # "none"
      BY <2>1, NamedExists
    <3> QED
      BY <1>t, <2>1, <2>2, <3>1 DEF KeptInv, Kept, Answerable, SessionKept
  <2>4. CASE Goto(c, "error") /\ gwState'[sess[c]] = "gone"
    BY <2>1, <2>3, <2>4, MoveKept DEF BeforeBatch, Transferring
  <2>5. CASE Goto(c, "leaked") /\ sess[c] \in persisted'
    BY <2>1, <2>3, <2>5, MoveKept DEF BeforeBatch, Transferring
  <2> QED
    BY <1>t, <2>1, <2>2, <2>4, <2>5
<1> QED
  BY <1>2, <1>3, <1>4, <1>5, <1>6, <1>7, <1>8, <1>9, <1>10, <1>11, <1>12, <1>13 DEF Drive

-----------------------------------------------------------------------------
(* A step of no driver: every call stays where it is.                      *)
LEMMA StillKept ==
  ASSUME TInv, KeptInv, UNCHANGED <<pc, sess, declared, total>>,
         \A s \in Calls : SessionKept(s),
         \A d \in Calls, l \in Lanes : lane'[d][l].st \in InFlight => lane[d][l].st \in InFlight,
         persisted \subseteq persisted'
  PROVE  KeptInv'
<1> SUFFICES ASSUME NEW d \in Calls
             PROVE  Kept(d)'
  BY DEF KeptInv
<1>1. CallKept(d)
  BY DEF CallKept
<1>2. d \notin {}
  OBVIOUS
<1> QED
  BY <1>1, <1>2, OthersKept

LEMMA LaneKept ==
  ASSUME TInv, KeptInv, NEW c \in Calls, NEW l \in Lanes, Lane(c, l)
  PROVE  KeptInv'
<1>1. UNCHANGED <<pc, sess, declared, total, persisted>>
  BY DEF Lane, GatewayStoresChunk, LaneAcked, LaneRetries, LaneRefused, callVars, callerVars
<1>2. \A s \in Calls : SessionKept(s)
  <2>1. CASE UNCHANGED gatewayVars
    BY <1>1, <2>1, GatewayIdle
  <2>2. CASE GatewayStoresChunk(c, l)
    <3>1. /\ UNCHANGED <<gwState, gwTotal, attempt, stored>>
          /\ gwHeld' = [gwHeld EXCEPT ![sess[c]] = @ \cup {lane[c][l].chunk}]
          /\ lane[c][l].st \in InFlight
      BY <2>2 DEF GatewayStoresChunk, InFlight
    <3>2. sess[c] \in persisted
      BY <3>1 DEF KeptInv, Kept, Adopted
    <3>3. gwHeld \in [Calls -> SUBSET Nat]
      BY DEF TInv, TypeOK, GatewayTyped
    <3>4. \A s \in Calls : gwHeld'[s] # {} => gwHeld[s] # {} \/ s = sess[c]
      BY <3>1, <3>3
    <3> QED
      BY <1>1, <3>1, <3>2, <3>4 DEF KeptInv, Kept, Answerable, SessionKept
  <2> QED
    BY <2>1, <2>2 DEF Lane, LaneAcked, LaneRetries, LaneRefused
<1>3. \A d \in Calls, m \in Lanes : lane'[d][m].st \in InFlight => lane[d][m].st \in InFlight
  BY LaneStep
<1> QED
  BY <1>1, <1>2, <1>3, StillKept

LEMMA CrashKept ==
  ASSUME TInv, KeptInv, NEW c \in Calls, Crash(c)
  PROVE  KeptInv'
<1>1. /\ Goto(c, "crashed")
      /\ UNCHANGED <<sess, declared, total, persisted>>
      /\ UNCHANGED gatewayVars
      /\ \A d \in Calls, l \in Lanes : lane'[d][l].st \notin InFlight
  BY DEF Crash, LaneOff, InFlight, callerVars
<1>2. pc'[c] = "crashed" /\ \A d \in Calls \ {c} : pc'[d] = pc[d]
  BY <1>1 DEF TInv, TypeOK, CallsTyped, Goto
<1>3. \A s \in Calls : SessionKept(s)
  BY <1>1, GatewayIdle
<1>4. Kept(c)'
  BY <1>1, <1>2, <1>3, MoverKept DEF BeforeBatch, Transferring
<1>5. ASSUME NEW d \in Calls, d # c
      PROVE  Kept(d)'
  <2>1. CallKept(d) /\ d \notin {c}
    BY <1>1, <1>2, <1>5 DEF CallKept
  <2> QED
    BY <1>1, <1>3, <2>1, OthersKept
<1> QED
  BY <1>4, <1>5 DEF KeptInv

LEMMA EnvironmentKept ==
  ASSUME TInv, KeptInv, Environment
  PROVE  KeptInv'
<1>t. /\ gwState \in [Calls -> {"none", "open", "assembling", "completed", "failed", "gone"}]
      /\ gwTotal \in [Calls -> Sizes \cup {0}]
      /\ gwHeld \in [Calls -> SUBSET Nat]
      /\ attempt \in [Calls -> {"none", "reserved", "committed", "released"}]
  BY DEF TInv, TypeOK, GatewayTyped
<1>k. \A s \in Calls :
        /\ gwHeld[s] # {} => s \in persisted
        /\ gwState[s] = "completed" \/ attempt[s] = "committed" => gwTotal[s] \in stored
  BY DEF KeptInv, Kept, Answerable
<1>1. ASSUME \A s \in Calls : SessionKept(s), UNCHANGED <<pc, sess, declared, total, lane, persisted>>
      PROVE  KeptInv'
  BY <1>1, StillKept
<1>2. CASE SourceGrows \/ \E c \in Calls : Abort(c)
  <2>1. UNCHANGED <<pc, sess, declared, total, lane, persisted>> /\ UNCHANGED gatewayVars
    BY <1>2 DEF SourceGrows, Abort, callVars, batchVars, callerVars
  <2> QED
    BY <1>1, <2>1, GatewayIdle
<1>3. ASSUME NEW s \in Calls, CallerAbandons(s)
      PROVE  KeptInv'
  <2>1. /\ s \in persisted
        /\ gwState' = [gwState EXCEPT ![s] = "gone"]
        /\ UNCHANGED <<gwTotal, gwHeld, attempt, stored>>
        /\ UNCHANGED <<pc, sess, declared, total, lane, persisted>>
    BY <1>3 DEF CallerAbandons, clientVars, callVars, batchVars, callerVars
  <2>2. gwState[s] # "none"
    BY <2>1, NamedExists
  <2> QED
    BY <1>t, <1>k, <1>1, <2>1, <2>2 DEF SessionKept
<1>4. ASSUME NEW s \in Calls, ResolveAttempt(s)
      PROVE  KeptInv'
  <2>1. /\ attempt[s] = "reserved"
        /\ \/ /\ attempt' = [attempt EXCEPT ![s] = "committed"]
              /\ stored' = stored \cup {gwTotal[s]}
              /\ gwState' = [gwState EXCEPT ![s] = IF @ = "assembling" THEN "completed" ELSE @]
           \/ /\ attempt' = [attempt EXCEPT ![s] = "released"]
              /\ gwState' = [gwState EXCEPT ![s] = IF @ = "assembling" THEN "failed" ELSE @]
              /\ UNCHANGED stored
        /\ UNCHANGED <<gwTotal, gwHeld>>
        /\ UNCHANGED <<pc, sess, declared, total, lane, persisted>>
    BY <1>4 DEF ResolveAttempt, clientVars, callVars, batchVars, callerVars
  <2>2. \A r \in Calls : SessionKept(r)
    BY <1>t, <1>k, <2>1 DEF SessionKept
  <2> QED
    BY <1>1, <2>1, <2>2
<1>5. ASSUME NEW s \in Calls, LoseChunk(s)
      PROVE  KeptInv'
  <2>1. /\ \E i \in gwHeld[s] : gwHeld' = [gwHeld EXCEPT ![s] = @ \ {i}]
        /\ UNCHANGED <<gwState, gwTotal, attempt, stored>>
        /\ UNCHANGED <<pc, sess, declared, total, lane, persisted>>
    BY <1>5 DEF LoseChunk, clientVars, callVars, batchVars, callerVars
  <2>2. \A r \in Calls : gwHeld'[r] # {} => gwHeld[r] # {}
    BY <1>t, <2>1
  <2> QED
    BY <1>k, <1>1, <2>1, <2>2 DEF SessionKept
<1>6. ASSUME NEW s \in Calls, Expire(s)
      PROVE  KeptInv'
  <2>1. /\ gwState[s] = "open" /\ gwState' = [gwState EXCEPT ![s] = "failed"]
        /\ UNCHANGED <<gwTotal, gwHeld, attempt, stored>>
        /\ UNCHANGED <<pc, sess, declared, total, lane, persisted>>
    BY <1>6 DEF Expire, clientVars, callVars, batchVars, callerVars
  <2> QED
    BY <1>t, <1>k, <1>1, <2>1 DEF SessionKept
<1> QED
  BY <1>2, <1>3, <1>4, <1>5, <1>6, CrashKept DEF Environment

LEMMA KeptStep ==
  TInv /\ KeptInv /\ [Next]_vars => KeptInv'
<1> SUFFICES ASSUME TInv, KeptInv, [Next]_vars PROVE KeptInv'
  OBVIOUS
<1>1. CASE UNCHANGED vars
  BY <1>1 DEF vars, clientVars, callVars, batchVars, callerVars, gatewayVars, KeptInv, Kept, Opened,
     Adopted, Answerable
<1>2. CASE Next
  BY <1>2, StartKept, DriveKept, LaneKept, EnvironmentKept DEF Next
<1> QED
  BY <1>1, <1>2

-----------------------------------------------------------------------------
(* KeptInv holds of every reachable state, whatever the constants.         *)
THEOREM KeptInvAlways == Spec => []KeptInv
<1>1. Init => KeptInv
  BY KeptInit
<1>2. TInv /\ KeptInv /\ [Next]_vars => KeptInv'
  BY KeptStep
<1> QED
  BY <1>1, <1>2, TInvAlways, PTL DEF Spec

(* Every chunk a lane sends is cut to the length its session was created   *)
(* with, however the source has grown and whoever resumed the session.     *)
THEOREM PutsFit == Spec => []EveryPutFits
<1>1. KeptInv => EveryPutFits
  BY DEF KeptInv, Kept, Adopted, EveryPutFits, Fits
<1> QED
  BY <1>1, KeptInvAlways, PTL

(* The caller holds the id of every session that holds a chunk: a crash    *)
(* never costs bytes already uploaded.                                     *)
THEOREM PersistCorrect == Spec => []PersistBeforePut
<1>1. KeptInv => PersistBeforePut
  BY DEF KeptInv, Kept, Answerable, PersistBeforePut
<1> QED
  BY <1>1, KeptInvAlways, PTL

(* A call that rethrows its own error after it opened or resumed a session *)
(* has deleted the session, and nothing brings it back.                    *)
THEOREM ErrorCorrect == Spec => []ErrorMeansAbandoned
<1>1. KeptInv => ErrorMeansAbandoned
  BY DEF KeptInv, Kept, Answerable, ErrorMeansAbandoned
<1> QED
  BY <1>1, KeptInvAlways, PTL

(* A session still open after its creator returned or threw is one whose   *)
(* id the caller holds, or one whose create reply never arrived.           *)
THEOREM NoLeakCorrect == Spec => []NoSilentLeak
<1>1. KeptInv => NoSilentLeak
  BY DEF KeptInv, Kept, Opened, Answerable, NoSilentLeak, NoSession
<1> QED
  BY <1>1, KeptInvAlways, PTL

-----------------------------------------------------------------------------
(* A lane whose PUT is outstanding claims nothing in its next step, unless  *)
(* the driver starts a new batch over it; no driver does, for NoLaneBehind. *)
LEMMA OrphanStep ==
  ASSUME TInv, BatchInv, [Next]_vars, NEW c \in Calls, NEW l \in Lanes,
         lane[c][l].st = "put", gwState[sess[c]] = "gone"
  PROVE  \/ lane'[c][l].st \in {"put", "failed"} /\ lane'[c][l].chunk = lane[c][l].chunk
         \/ lane'[c][l].st = "off"
<1>t. lane \in [Calls -> [Lanes -> LaneRecords]] /\ lane[c][l] \in LaneRecords
  BY DEF TInv, TypeOK, BatchesTyped
<1>1. CASE lane'[c][l] = lane[c][l]
  BY <1>1
<1>2. ASSUME NEW d \in Calls, NEW m \in Lanes, Lane(d, m)
      PROVE  \/ lane'[c][l].st \in {"put", "failed"} /\ lane'[c][l].chunk = lane[c][l].chunk
  <2>1. CASE d # c \/ m # l
    <3>1. CASE GatewayStoresChunk(d, m)
      BY <1>t, <2>1, <3>1 DEF GatewayStoresChunk
    <3>2. CASE LaneAcked(d, m)
      BY <1>t, <2>1, <3>2 DEF LaneAcked, ClaimNext
    <3>3. CASE LaneRetries(d, m)
      BY <1>t, <2>1, <3>3 DEF LaneRetries
    <3>4. CASE LaneRefused(d, m)
      BY <1>t, <2>1, <3>4 DEF LaneRefused
    <3> QED
      BY <1>2, <3>1, <3>2, <3>3, <3>4 DEF Lane
  <2>2. CASE d = c /\ m = l
    <3>1. ~GatewayStoresChunk(d, m) /\ ~LaneAcked(d, m)
      BY <2>2 DEF GatewayStoresChunk, LaneAcked
    <3>2. CASE LaneRetries(d, m)
      BY <1>t, <2>2, <3>2 DEF LaneRetries, LaneRecords
    <3>3. CASE LaneRefused(d, m)
      BY <1>t, <2>2, <3>3 DEF LaneRefused, LaneRecords
    <3> QED
      BY <1>2, <3>1, <3>2, <3>3 DEF Lane
  <2> QED
    BY <2>1, <2>2
<1>3. ASSUME NEW d \in Calls, Start(d) \/ Drive(d)
      PROVE  lane'[c][l] = lane[c][l]
  <2>1. CASE UNCHANGED batchVars
    BY <2>1 DEF batchVars
  <2>2. CASE CreateAnswered(d) \/ ResumeAdopts(d) \/ GapRead(d)
    <3>1. pc[d] \in {"create", "status", "gap"}
      BY <2>2 DEF CreateAnswered, ResumeAdopts, GapRead
    <3>2. d # c
      BY <3>1 DEF BatchInv, NoLaneBehind, TInv, SessionInv, CallsInSession, InFlight, BeforeBatch
    <3>3. lane' = lane \/ \E r : lane' = [lane EXCEPT ![d] = r]
      BY <2>2 DEF CreateAnswered, ResumeAdopts, GapRead, SendMissing, StartBatch, batchVars
    <3> QED
      BY <1>t, <3>2, <3>3
  <2>3. UNCHANGED batchVars \/ CreateAnswered(d) \/ ResumeAdopts(d) \/ GapRead(d)
    BY <1>3 DEF Start, Drive, StartFresh, StartResume, SingleShotAnswered, SingleShotFails,
       CreateDeduplicated, CreatedButNotifyThrows, CreateFails, ResumeFindsCompleted, ResumeFails,
       BatchDone, BatchFails, CompleteAnswered, CompleteIncomplete, CompleteFails, GapFails,
       PollReserved, PollTerminal, PollFails, AbandonAnswered, AbandonFails, clientVars
  <2> QED
    BY <2>1, <2>2, <2>3
<1>4. ASSUME NEW d \in Calls, Crash(d)
      PROVE  lane'[c][l].st = "off"
  BY <1>4 DEF Crash, LaneOff
<1>5. ASSUME Environment, \A d \in Calls : ~Crash(d)
      PROVE  lane'[c][l] = lane[c][l]
  BY <1>5 DEF Environment, Abort, CallerAbandons, ResolveAttempt, LoseChunk, Expire, SourceGrows,
     clientVars, batchVars
<1>6. CASE UNCHANGED vars
  BY <1>1, <1>6 DEF vars, clientVars, batchVars
<1> QED
  BY <1>1, <1>2, <1>3, <1>4, <1>5, <1>6 DEF Next

(* An orphan lane whose session is deleted under its PUT dies with it: it   *)
(* is never acknowledged and never claims another chunk.                    *)
THEOREM OrphansDieOut == Spec => OrphansStop
<1>1. TInv /\ BatchInv /\ [Next]_vars =>
        (\A c \in Calls, l \in Lanes :
           lane[c][l].st = "put" /\ gwState[sess[c]] = "gone" =>
             \/ lane'[c][l].st \in {"put", "failed"} /\ lane'[c][l].chunk = lane[c][l].chunk
             \/ lane'[c][l].st = "off")
  BY OrphanStep
<1> QED
  BY <1>1, TInvAlways, BatchInvAlways, PTL DEF Spec, OrphansStop

-----------------------------------------------------------------------------
(* The refinement of UploadContract.  What its variables are here:         *)
StageOutcome(stage) ==
  CASE stage = "idle" -> "idle"
    [] stage \in Running -> "running"
    [] stage = "ok" -> "ok"
    [] OTHER -> "failed"

Outcome == [c \in Calls |-> StageOutcome(pc[c])]
Result  == [c \in Calls |-> IF pc[c] = "ok" THEN declared[c] ELSE 0]
Wanted  == {declared[c] : c \in Calls} \ {0}

LEMMA ContractInit == Init => Contract!Init
<1> SUFFICES ASSUME Init PROVE Contract!Init
  OBVIOUS
<1>1. \A c \in Calls : pc[c] = "idle" /\ declared[c] = 0
  BY DEF Init
<1>2. Outcome = [c \in Calls |-> "idle"]
  <2>1. StageOutcome("idle") = "idle"
    BY DEF StageOutcome, Running
  <2> QED
    BY <1>1, <2>1 DEF Outcome
<1>3. Result = [c \in Calls |-> 0]
  BY <1>1 DEF Result
<1>4. Wanted = {}
  BY <1>1 DEF Wanted
<1>5. stored = {}
  BY DEF Init
<1> QED
  BY <1>2, <1>3, <1>4, <1>5 DEF Contract!Init, Outcome, Result, Wanted, StageOutcome

LEMMA Stutters ==
  ASSUME UNCHANGED <<Outcome, Result, Wanted, stored>>
  PROVE  UNCHANGED Contract!vars
BY DEF Contract!vars, Outcome, Result, Wanted, StageOutcome

LEMMA Begins ==
  ASSUME NEW c \in Calls, Outcome[c] = "idle", Outcome' = [Outcome EXCEPT ![c] = "running"],
         (\E x \in Sizes : Wanted' = Wanted \cup {x}) \/ UNCHANGED Wanted,
         UNCHANGED <<Result, stored>>
  PROVE  Contract!Next
BY DEF Contract!Next, Contract!Begin, Outcome, Result, Wanted, StageOutcome

LEMMA Stores ==
  ASSUME NEW x \in Sizes, x \in Wanted, stored' = stored \cup {x},
         UNCHANGED <<Outcome, Result, Wanted>>
  PROVE  Contract!Next
BY DEF Contract!Next, Contract!Store, Outcome, Result, Wanted, StageOutcome

LEMMA Ends ==
  ASSUME NEW c \in Calls, Outcome[c] = "running",
         NEW x \in Sizes,
         (x \in Wanted /\ stored' = stored \cup {x}) \/ UNCHANGED stored,
         \/ /\ Outcome' = [Outcome EXCEPT ![c] = "ok"]
            /\ x \in stored' /\ Result' = [Result EXCEPT ![c] = x]
         \/ Outcome' = [Outcome EXCEPT ![c] = "failed"] /\ UNCHANGED Result,
         UNCHANGED Wanted
  PROVE  Contract!Next
BY DEF Contract!Next, Contract!Store, Contract!Return, Contract!Fail, Outcome, Result, Wanted, StageOutcome

(* What a driver's move means to the contract.                              *)
LEMMA MoveMeans ==
  ASSUME TInv, NEW c \in Calls, NEW stage, Goto(c, stage), pc[c] # "ok",
         \A d \in Calls \ {c} : declared'[d] = declared[d]
  PROVE  /\ Outcome[c] = StageOutcome(pc[c])
         /\ Outcome' = [Outcome EXCEPT ![c] = StageOutcome(stage)]
         /\ Result' = IF stage = "ok" THEN [Result EXCEPT ![c] = declared'[c]] ELSE Result
<1>1. pc'[c] = stage /\ \A d \in Calls \ {c} : pc'[d] = pc[d]
  BY DEF TInv, TypeOK, CallsTyped, Goto
<1>2. Outcome[c] = StageOutcome(pc[c])
  BY DEF Outcome
<1>3. Outcome' = [d \in Calls |-> StageOutcome(pc'[d])]
  BY DEF Outcome, StageOutcome
<1>4. Outcome' = [Outcome EXCEPT ![c] = StageOutcome(stage)]
  <2>1. \A d \in Calls : StageOutcome(pc'[d]) = IF d = c THEN StageOutcome(stage) ELSE Outcome[d]
    BY <1>1 DEF Outcome
  <2>2. DOMAIN Outcome = Calls
    BY DEF Outcome
  <2> HIDE DEF StageOutcome
  <2> QED
    BY <1>3, <2>1, <2>2 DEF Outcome
<1>5. CASE stage = "ok"
  BY <1>1, <1>2, <1>4, <1>5 DEF Result
<1>6. CASE stage # "ok"
  BY <1>1, <1>2, <1>4, <1>6 DEF Result
<1> QED
  BY <1>5, <1>6

(* A running call that moves on stutters, stores, returns or fails.         *)
LEMMA MoveImplements ==
  ASSUME TInv, NEW c \in Calls, NEW stage, Goto(c, stage),
         pc[c] \in Running,
         stage \in Running \cup Settled,
         \A d \in Calls \ {c} : declared'[d] = declared[d],
         UNCHANGED Wanted,
         NEW x \in Sizes,
         (x \in Wanted /\ stored' = stored \cup {x}) \/ UNCHANGED stored,
         stage = "ok" => x = declared'[c] /\ x \in stored'
  PROVE  Contract!Next \/ UNCHANGED Contract!vars
<1>1. /\ Outcome[c] = "running"
      /\ Outcome' = [Outcome EXCEPT ![c] = StageOutcome(stage)]
      /\ Result' = IF stage = "ok" THEN [Result EXCEPT ![c] = declared'[c]] ELSE Result
  BY MoveMeans DEF StageOutcome, Running, Settled
<1>2. CASE stage \in Running
  <2>1. Outcome' = Outcome
    <3>1. StageOutcome(stage) = "running"
      BY <1>2 DEF StageOutcome, Running
    <3> QED
      BY <1>1, <3>1 DEF Outcome
  <2>2. Result' = Result
    BY <1>1, <1>2 DEF Running
  <2> QED
    BY <2>1, <2>2, Stores, Stutters
<1>3. CASE stage = "ok"
  <2>1. StageOutcome(stage) = "ok"
    BY <1>3 DEF StageOutcome, Running
  <2> QED
    BY <1>1, <1>3, <2>1, Ends
<1>4. CASE stage \in Settled \ {"ok"}
  <2>1. StageOutcome(stage) = "failed"
    BY <1>4 DEF StageOutcome, Running, Settled
  <2>2. Result' = Result
    BY <1>1, <1>4
  <2> QED
    BY <1>1, <2>1, <2>2, Ends
<1> QED
  BY <1>2, <1>3, <1>4

(* The content of an existing session is wanted: its creator declared it.   *)
LEMMA SessionWanted ==
  ASSUME TInv, KeptInv, NEW s \in Calls, gwState[s] # "none"
  PROVE  gwTotal[s] \in Sizes /\ gwTotal[s] \in Wanted /\ gwTotal[s] = declared[s]
<1>1. gwTotal[s] \in Sizes /\ gwTotal[s] = declared[s]
  BY DEF TInv, SessionInv, SessionsSized, KeptInv, Kept, Opened
<1>2. 0 \notin Sizes
  BY ConstantsAssumption
<1> QED
  BY <1>1, <1>2 DEF Wanted

LEMMA StartImplements ==
  ASSUME TInv, KeptInv, NEW c \in Calls, Start(c)
  PROVE  Contract!Next
<1>t. /\ declared \in [Calls -> Sizes \cup {0}]
      /\ sourceSize \in Sizes /\ 0 \notin Sizes
  BY ConstantsAssumption DEF TInv, TypeOK, CallsTyped
<1>1. pc[c] = "idle" /\ declared[c] = 0 /\ UNCHANGED stored
  BY DEF Start, StartFresh, StartResume, MayStart, KeptInv, Kept, Opened, gatewayVars
<1>2. PICK stage \in {"single", "create", "status"} : Goto(c, stage)
  BY DEF Start, StartFresh, StartResume
<1>3. \/ declared' = [declared EXCEPT ![c] = sourceSize]
      \/ UNCHANGED declared
  BY DEF Start, StartFresh, StartResume
<1>4. (\E x \in Sizes : Wanted' = Wanted \cup {x}) \/ UNCHANGED Wanted
  <2>1. CASE UNCHANGED declared
    BY <2>1 DEF Wanted
  <2>2. CASE declared' = [declared EXCEPT ![c] = sourceSize]
    <3>1. declared'[c] = sourceSize /\ \A d \in Calls \ {c} : declared'[d] = declared[d]
      BY <1>t, <2>2
    <3>2. Wanted' = Wanted \cup {sourceSize}
      BY <1>t, <1>1, <3>1 DEF Wanted
    <3> QED
      BY <1>t, <3>2
  <2> QED
    BY <1>3, <2>1, <2>2
<1>5. \A d \in Calls \ {c} : declared'[d] = declared[d]
  BY <1>t, <1>3
<1>6. /\ Outcome[c] = "idle" /\ Outcome' = [Outcome EXCEPT ![c] = "running"]
      /\ Result' = Result
  BY <1>1, <1>2, <1>5, MoveMeans DEF StageOutcome, Running
<1> QED
  BY <1>1, <1>4, <1>6, Begins

LEMMA DriveImplements ==
  ASSUME TInv, KeptInv, NEW c \in Calls, Drive(c)
  PROVE  Contract!Next \/ UNCHANGED Contract!vars
<1>t. /\ declared \in [Calls -> Sizes \cup {0}]
      /\ sourceSize \in Sizes /\ 0 \notin Sizes
      /\ gwState \in [Calls -> {"none", "open", "assembling", "completed", "failed", "gone"}]
  BY ConstantsAssumption DEF TInv, TypeOK, CallsTyped, GatewayTyped
<1>k. /\ Kept(c)
      /\ pc[c] \in InSession => sess[c] \in Calls
      /\ pc[c] \in {"single", "create"} => declared[c] \in Sizes
  BY DEF KeptInv, TInv, SessionInv, CallsInSession
<1>s. sess[c] \in Calls => /\ gwTotal[sess[c]] \in Sizes /\ gwTotal[sess[c]] \in Wanted
                          /\ gwTotal[sess[c]] = declared[sess[c]]
  BY NamedExists, SessionWanted
<1>a. \A s \in Calls : gwState[s] = "completed" \/ attempt[s] = "committed" => gwTotal[s] \in stored
  BY DEF KeptInv, Kept, Answerable
<1>1. ASSUME NEW stage \in (Running \cup Settled) \ {"ok"}, Goto(c, stage), pc[c] \in Running,
             UNCHANGED <<declared, stored>>
      PROVE  Contract!Next \/ UNCHANGED Contract!vars
  <2>1. UNCHANGED Wanted
    BY <1>1 DEF Wanted
  <2> QED
    BY <1>t, <1>1, <2>1, MoveImplements
<1>2. CASE SingleShotAnswered(c) \/ SingleShotFails(c)
  <2>1. /\ pc[c] = "single" /\ UNCHANGED declared
        /\ \/ Goto(c, "ok") /\ stored' = stored \cup {declared[c]}
           \/ Goto(c, "error")
        /\ stored' = stored \cup {declared[c]} \/ UNCHANGED stored
    BY <1>2 DEF SingleShotAnswered, SingleShotFails, clientVars, callVars
  <2>2. declared[c] \in Sizes /\ declared[c] \in Wanted /\ UNCHANGED Wanted
    BY <1>t, <1>k, <2>1 DEF Wanted
  <2>3. PICK stage \in {"ok", "error"} : /\ Goto(c, stage)
                                        /\ stage = "ok" => declared[c] \in stored'
    BY <2>1
  <2> QED
    BY <2>1, <2>2, <2>3, MoveImplements DEF Running, Settled
<1>3. CASE CreateDeduplicated(c)
  <2>1. /\ pc[c] = "create" /\ Goto(c, "ok") /\ declared[c] \in stored
        /\ UNCHANGED <<declared, stored>>
    BY <1>3 DEF CreateDeduplicated, clientVars, callVars, gatewayVars
  <2>2. UNCHANGED Wanted /\ declared[c] \in Sizes
    BY <1>k, <2>1 DEF Wanted
  <2> QED
    BY <2>1, <2>2, MoveImplements DEF Running, Settled
<1>4. CASE ResumeAdopts(c) \/ ResumeFindsCompleted(c)
  <2>1. /\ pc[c] = "status" /\ UNCHANGED stored
        /\ declared' = [declared EXCEPT ![c] = gwTotal[sess[c]]]
        /\ \/ Goto(c, "ok") /\ gwState[sess[c]] = "completed"
           \/ Goto(c, "complete")
           \/ Goto(c, "upload")
    BY <1>4 DEF ResumeAdopts, ResumeFindsCompleted, Adopt, SendMissing, gatewayVars
  <2>2. sess[c] \in Calls /\ declared[c] = 0
    BY <1>k, <2>1 DEF InSession, Kept, Opened
  <2>3. sess[c] # c /\ declared'[c] = gwTotal[sess[c]]
        /\ \A d \in Calls \ {c} : declared'[d] = declared[d]
    BY <1>t, <1>s, <2>1, <2>2
  <2>4. UNCHANGED Wanted
    BY <1>t, <1>s, <2>2, <2>3 DEF Wanted
  <2>5. gwState[sess[c]] = "completed" => gwTotal[sess[c]] \in stored
    BY <1>a, <2>2
  <2>6. PICK stage \in {"ok", "complete", "upload"} :
          Goto(c, stage) /\ (stage = "ok" => gwTotal[sess[c]] \in stored')
    BY <2>1, <2>5
  <2>7. stage \in Running \cup Settled /\ pc[c] \in Running
    BY <2>1 DEF Running, Settled
  <2> QED
    BY <1>s, <2>1, <2>2, <2>3, <2>4, <2>6, <2>7, MoveImplements
<1>5. CASE CompleteAnswered(c) \/ CompleteFails(c)
  <2>1. /\ pc[c] = "complete" /\ UNCHANGED declared
        /\ Assembles(sess[c]) \/ UNCHANGED gatewayVars
        /\ \/ Goto(c, "ok") /\ gwState'[sess[c]] = "completed"
           \/ Goto(c, "poll")
           \/ Goto(c, "abandon")
    BY <1>5, Zenon DEF CompleteAnswered, CompleteFails, Replays, clientVars, callVars
  <2>2. sess[c] \in Calls /\ declared[c] = gwTotal[sess[c]]
    BY <1>k, <2>1 DEF InSession, Kept, Adopted, Transferring
  <2>3. \/ stored' = stored \cup {gwTotal[sess[c]]}
        \/ UNCHANGED stored /\ (gwState'[sess[c]] = "completed" => gwTotal[sess[c]] \in stored)
    BY <1>t, <1>a, <2>1, <2>2 DEF Assembles, gatewayVars
  <2>4. UNCHANGED Wanted
    BY <2>1 DEF Wanted
  <2>5. PICK stage \in {"ok", "poll", "abandon"} :
          Goto(c, stage) /\ (stage = "ok" => gwTotal[sess[c]] \in stored')
    BY <2>1, <2>3
  <2>6. stage \in Running \cup Settled /\ pc[c] \in Running
    BY <2>1 DEF Running, Settled
  <2> QED
    BY <1>s, <2>1, <2>2, <2>3, <2>4, <2>5, <2>6, MoveImplements
<1>6. CASE PollTerminal(c)
  <2>1. /\ pc[c] = "poll" /\ UNCHANGED <<declared, stored>>
        /\ \/ Goto(c, "ok") /\ attempt[sess[c]] = "committed"
           \/ Goto(c, "abandon")
    BY <1>6 DEF PollTerminal, clientVars, callVars, gatewayVars
  <2>2. sess[c] \in Calls /\ declared[c] = gwTotal[sess[c]]
    BY <1>k, <2>1 DEF InSession, Kept, Adopted, Transferring
  <2>3. UNCHANGED Wanted
    BY <2>1 DEF Wanted
  <2>4. PICK stage \in {"ok", "abandon"} :
          Goto(c, stage) /\ (stage = "ok" => gwTotal[sess[c]] \in stored')
    BY <1>a, <2>1, <2>2
  <2>5. stage \in Running \cup Settled /\ pc[c] \in Running
    BY <2>1 DEF Running, Settled
  <2> QED
    BY <1>s, <2>1, <2>2, <2>3, <2>4, <2>5, MoveImplements
<1>7. CASE \/ CreateAnswered(c) \/ CreatedButNotifyThrows(c) \/ CreateFails(c)
           \/ ResumeFails(c) \/ BatchDone(c) \/ BatchFails(c)
  <2>1. /\ \E stage \in {"upload", "abandon", "error", "complete"} : Goto(c, stage)
        /\ pc[c] \in {"create", "status", "upload"}
        /\ UNCHANGED <<declared, stored>>
    BY <1>7 DEF CreateAnswered, CreatedButNotifyThrows, CreateFails, ResumeFails, BatchDone,
       BatchFails, OpenSession, clientVars, callVars, gatewayVars
  <2> QED
    BY <1>1, <2>1 DEF Running, Settled
<1>8. CASE \/ CompleteIncomplete(c) \/ GapRead(c) \/ GapFails(c) \/ PollReserved(c)
           \/ PollFails(c) \/ AbandonAnswered(c) \/ AbandonFails(c)
  <2>1. /\ \E stage \in {"gap", "abandon", "complete", "upload", "poll", "error", "leaked"} :
             Goto(c, stage)
        /\ pc[c] \in {"complete", "gap", "poll", "abandon"}
        /\ UNCHANGED <<declared, stored>>
    BY <1>8 DEF CompleteIncomplete, GapRead, SendMissing, GapFails, PollReserved, PollFails,
       AbandonAnswered, AbandonFails, clientVars, callVars, gatewayVars
  <2> QED
    BY <1>1, <2>1 DEF Running, Settled
<1> QED
  BY <1>2, <1>3, <1>4, <1>5, <1>6, <1>7, <1>8 DEF Drive

(* Every step is a step of the contract, or leaves its variables alone.     *)
LEMMA ContractStep ==
  ASSUME TInv, KeptInv, [Next]_vars
  PROVE  Contract!Next \/ UNCHANGED Contract!vars
<1>1. ASSUME UNCHANGED <<pc, declared, stored>>
      PROVE  UNCHANGED Contract!vars
  BY <1>1, Stutters DEF Outcome, Result, Wanted, StageOutcome
<1>2. ASSUME NEW c \in Calls, NEW l \in Lanes, Lane(c, l)
      PROVE  UNCHANGED <<pc, declared, stored>>
  BY <1>2 DEF Lane, GatewayStoresChunk, LaneAcked, LaneRetries, LaneRefused, callVars, gatewayVars
<1>3. ASSUME NEW c \in Calls, Crash(c)
      PROVE  Contract!Next \/ UNCHANGED Contract!vars
  <2>1. pc[c] \in Running /\ Goto(c, "crashed") /\ UNCHANGED <<declared, stored>>
    BY <1>3 DEF Crash, gatewayVars
  <2>2. UNCHANGED Wanted /\ sourceSize \in Sizes
    BY <2>1 DEF Wanted, TInv, TypeOK
  <2> QED
    BY <2>1, <2>2, MoveImplements DEF Settled
<1>4. ASSUME NEW s \in Calls, ResolveAttempt(s)
      PROVE  Contract!Next \/ UNCHANGED Contract!vars
  <2>1. /\ attempt[s] = "reserved" /\ UNCHANGED <<pc, declared>>
        /\ stored' = stored \cup {gwTotal[s]} \/ UNCHANGED stored
    BY <1>4 DEF ResolveAttempt, clientVars, callVars
  <2>2. gwTotal[s] \in Sizes /\ gwTotal[s] \in Wanted
    BY <2>1, NamedExists, SessionWanted
  <2>3. UNCHANGED <<Outcome, Result, Wanted>>
    BY <2>1 DEF Outcome, Result, Wanted, StageOutcome
  <2> QED
    BY <1>1, <2>1, <2>2, <2>3, Stores
<1>5. ASSUME Environment, \A c \in Calls : ~Crash(c), \A s \in Calls : ~ResolveAttempt(s)
      PROVE  UNCHANGED <<pc, declared, stored>>
  BY <1>5 DEF Environment, Abort, CallerAbandons, LoseChunk, Expire, SourceGrows, clientVars,
     callVars, gatewayVars
<1>6. CASE UNCHANGED vars
  BY <1>1, <1>6 DEF vars, clientVars, callVars, gatewayVars
<1> QED
  BY <1>1, <1>2, <1>3, <1>4, <1>5, <1>6, StartImplements, DriveImplements DEF Next

(* uploadResumable() keeps its contract: a call that returns names content  *)
(* that is stored, storage is never undone, and it holds nothing that no    *)
(* call asked for.                                                          *)
THEOREM KeepsContract == Spec => ImplementsContract
<1>1. Init => Contract!Init
  BY ContractInit
<1>2. TInv /\ KeptInv /\ [Next]_vars => [Contract!Next]_(Contract!vars)
  BY ContractStep
<1> QED
  BY <1>1, <1>2, TInvAlways, KeptInvAlways, PTL DEF Spec, ImplementsContract, Contract!Spec

=============================================================================
