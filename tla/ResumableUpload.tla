-------------------------- MODULE ResumableUpload --------------------------
(***************************************************************************)
(* uploadResumable() of the TypeScript SDK                                 *)
(* (packages/sdk-ts/src/client/resumable-upload.ts): one caller makes      *)
(* successive calls, each of which uploads one file in a single shot or    *)
(* through a chunked gateway session.                                      *)
(*                                                                         *)
(* A call is a driver (`pc') that, while it sends chunks, waits on a pool  *)
(* of lanes: asynchronous loops that share one cursor into the list of     *)
(* missing chunks.  Promise.all rejects as soon as one lane fails, and     *)
(* nothing stops the others: they run on as orphans while the driver       *)
(* abandons the session, and during the calls that follow.                 *)
(*                                                                         *)
(* Simplifications.  A file's content is identified with its size, which   *)
(* only grows (appending is the change of a source the code defends        *)
(* against).  Every request of the driver is answered, or lost with or     *)
(* without its effect, in one step; a chunk PUT takes two, the gateway's   *)
(* and the reply's.  Back-off pauses are part of the wait for the next     *)
(* attempt.  A session is named by the call that created it.               *)
(***************************************************************************)
EXTENDS Integers, Sequences, FiniteSets

CONSTANTS
  NCalls,        \* calls of uploadResumable the caller may make
  Parallelism,   \* input.parallelism: lanes of a batch
  MaxRetries,    \* input.maxChunkRetries
  CompleteRetries, \* COMPLETE_RETRIES, 2 in the code
  PollMax,       \* ATTEMPT_POLL_MAX_ATTEMPTS, 600 in the code
  WithSignal,    \* the calls given an AbortSignal
  Sizes,         \* sizes the source may have
  Threshold,     \* input.threshold: at or below it, single shot
  ChunkBytes     \* chunk_bytes, the gateway's choice

ASSUME ConstantsAssumption ==
  /\ NCalls \in Nat
  /\ Parallelism \in Nat \ {0}
  /\ MaxRetries \in Nat
  /\ CompleteRetries \in Nat
  /\ PollMax \in Nat \ {0}
  /\ WithSignal \subseteq 1..NCalls
  /\ Sizes \subseteq Nat \ {0}
  /\ Threshold \in Nat
  /\ ChunkBytes \in Nat \ {0}

Calls     == 1..NCalls
Lanes     == 1..Parallelism
NoSession == 0

VARIABLES
  (* the calls *)
  pc,          \* where the driver of a call is
  sess,        \* the session a call works on
  declared,    \* the content a call uploads: what its digest declares
  total,       \* gridTotalBytes: the length the chunk grid is cut from
  todo,        \* the missing indices of the current batch, in order
  cursor,      \* how many of them the lanes have claimed
  lane,        \* the lanes of the current batch
  round,       \* completion attempts made
  polls,       \* attempt polls answered `reserved'
  sent,        \* bytesSent, what onProgress reports
  aborted,     \* the caller's AbortSignal
  (* the caller *)
  sourceSize,  \* the size of the source now
  persisted,   \* the session ids the caller holds
  (* the gateway *)
  gwState, gwTotal, gwHeld, attempt, stored,
  (* history *)
  acked        \* chunks of the current batch whose PUT was acknowledged

callVars    == <<sess, declared, total, round, polls>>
batchVars   == <<todo, cursor, lane, acked>>
callerVars  == <<sourceSize, persisted>>
gatewayVars == <<gwState, gwTotal, gwHeld, attempt, stored>>
(* What a driver that only moves on to its next stage leaves alone. *)
clientVars  == <<callVars, batchVars, sent, aborted, callerVars>>
vars == <<pc, clientVars, gatewayVars>>

Settled == {"ok", "error", "leaked", "crashed"}
Running == {"single", "create", "status", "upload", "complete", "gap", "poll", "abandon"}

LaneStates == {"off", "put", "acked", "done", "failed"}
LaneOff    == [st |-> "off", chunk |-> 0, tries |-> 0]
InFlight   == {"put", "acked"}

-----------------------------------------------------------------------------
(* The chunk grid.                                                         *)

Minimum(a, b) == IF a < b THEN a ELSE b

ChunkCount(bytes, size)    == (size + bytes - 1) \div bytes
ChunkRange(i, bytes, size) == <<i * bytes, Minimum(i * bytes + bytes, size)>>
ChunkLength(i, bytes, size) ==
  ChunkRange(i, bytes, size)[2] - ChunkRange(i, bytes, size)[1]

Grid(s)          == 0..(ChunkCount(ChunkBytes, gwTotal[s]) - 1)
ServerMissing(s) == Grid(s) \ gwHeld[s]

(* The gateway lists missing chunks in ascending order. *)
Listings(S) ==
  {q \in [1..Cardinality(S) -> S] :
     /\ S = {q[k] : k \in 1..Cardinality(S)}
     /\ \A j, k \in 1..Cardinality(S) : j < k => q[j] < q[k]}

(* The gateway takes a chunk of an open session if its length is right. *)
Fits(c, i) ==
  ChunkLength(i, ChunkBytes, total[c]) = ChunkLength(i, ChunkBytes, gwTotal[sess[c]])

-----------------------------------------------------------------------------
Init ==
  /\ pc = [c \in Calls |-> "idle"]
  /\ sess = [c \in Calls |-> NoSession]
  /\ declared = [c \in Calls |-> 0]
  /\ total = [c \in Calls |-> 0]
  /\ todo = [c \in Calls |-> <<>>]
  /\ cursor = [c \in Calls |-> 0]
  /\ lane = [c \in Calls |-> [l \in Lanes |-> LaneOff]]
  /\ round = [c \in Calls |-> 0]
  /\ polls = [c \in Calls |-> 0]
  /\ sent = [c \in Calls |-> 0]
  /\ aborted = [c \in Calls |-> FALSE]
  /\ sourceSize \in Sizes
  /\ persisted = {}
  /\ gwState = [s \in Calls |-> "none"]
  /\ gwTotal = [s \in Calls |-> 0]
  /\ gwHeld = [s \in Calls |-> {}]
  /\ attempt = [s \in Calls |-> "none"]
  /\ stored = {}
  /\ acked = [c \in Calls |-> {}]

-----------------------------------------------------------------------------
(* Starting a call.  The caller makes one at a time.                       *)

MayStart(c) ==
  /\ pc[c] = "idle"
  /\ \A d \in Calls : d < c => pc[d] \in Settled

Goto(c, stage) == pc' = [pc EXCEPT ![c] = stage]

(* No session to resume: measure the source and choose the path. *)
StartFresh(c) ==
  /\ MayStart(c)
  /\ Goto(c, IF sourceSize <= Threshold THEN "single" ELSE "create")
  /\ declared' = [declared EXCEPT ![c] = sourceSize]
  /\ UNCHANGED <<sess, total, round, polls, batchVars, sent, aborted, callerVars, gatewayVars>>

StartResume(c, s) ==
  /\ MayStart(c)
  /\ s \in persisted
  /\ Goto(c, "status")
  /\ sess' = [sess EXCEPT ![c] = s]
  /\ UNCHANGED <<declared, total, round, polls, batchVars, sent, aborted, callerVars, gatewayVars>>

(* The single-shot POST: answered, or failed with or without its effect.   *)
(* onProgress runs after the answer and may throw.                         *)
SingleShotAnswered(c) ==
  /\ pc[c] = "single"
  /\ stored' = stored \cup {declared[c]}
  /\ sent' = [sent EXCEPT ![c] = declared[c]]
  /\ \/ Goto(c, "ok")
     \/ Goto(c, "error")
  /\ UNCHANGED <<sess, declared, total, round, polls, batchVars, aborted, callerVars,
                 gwState, gwTotal, gwHeld, attempt>>

SingleShotFails(c) ==
  /\ pc[c] = "single"
  /\ Goto(c, "error")
  /\ \/ stored' = stored \cup {declared[c]}
     \/ UNCHANGED stored
  /\ UNCHANGED <<clientVars, gwState, gwTotal, gwHeld, attempt>>

-----------------------------------------------------------------------------
(* A batch: uploadChunks() starts min(parallelism, missing.length) lanes,  *)
(* each of which claims its first chunk, or sees the abort, at once.       *)

StartBatch(c, missing) ==
  LET n == Minimum(Parallelism, Cardinality(missing)) IN
  \E q \in Listings(missing) :
    /\ todo' = [todo EXCEPT ![c] = q]
    /\ cursor' = [cursor EXCEPT ![c] = n]
    /\ lane' = [lane EXCEPT ![c] =
                  [l \in Lanes |->
                     IF l > n THEN LaneOff
                     ELSE [st |-> IF aborted[c] THEN "failed" ELSE "put",
                           chunk |-> q[l], tries |-> 0]]]
    /\ acked' = [acked EXCEPT ![c] = {}]

(* With nothing missing the driver goes straight to /complete. *)
SendMissing(c, missing) ==
  \/ /\ missing = {}
     /\ Goto(c, "complete")
     /\ UNCHANGED batchVars
  \/ /\ missing # {}
     /\ Goto(c, "upload")
     /\ StartBatch(c, missing)

(* POST /sessions: a committed upload of the same digest short-circuits it. *)
CreateDeduplicated(c) ==
  /\ pc[c] = "create"
  /\ declared[c] \in stored
  /\ Goto(c, "ok")
  /\ UNCHANGED <<clientVars, gatewayVars>>

OpenSession(c) ==
  /\ declared[c] \notin stored
  /\ gwState' = [gwState EXCEPT ![c] = "open"]
  /\ gwTotal' = [gwTotal EXCEPT ![c] = declared[c]]
  /\ UNCHANGED <<gwHeld, attempt, stored>>

(* The caller learns the id before any PUT, inside the protected scope. *)
NotifyNever(s) == UNCHANGED persisted

Notify(s) == persisted' = persisted \cup {s}

CreateAnswered(c) ==
  /\ pc[c] = "create"
  /\ OpenSession(c)
  /\ sess' = [sess EXCEPT ![c] = c]
  /\ total' = [total EXCEPT ![c] = declared[c]]
  /\ Notify(c)
  /\ Goto(c, "upload")
  /\ StartBatch(c, 0..(ChunkCount(ChunkBytes, declared[c]) - 1))
  /\ UNCHANGED <<declared, round, polls, sent, aborted, sourceSize>>

(* onSessionCreated throws. *)
CreatedButNotifyThrowsUnprotected(c) ==
  /\ pc[c] = "create"
  /\ OpenSession(c)
  /\ sess' = [sess EXCEPT ![c] = c]
  /\ Goto(c, "error")
  /\ UNCHANGED <<declared, total, round, polls, batchVars, sent, aborted, callerVars>>

CreatedButNotifyThrows(c) ==
  /\ pc[c] = "create"
  /\ OpenSession(c)
  /\ sess' = [sess EXCEPT ![c] = c]
  /\ Goto(c, "abandon")
  /\ UNCHANGED <<declared, total, round, polls, batchVars, sent, aborted, callerVars>>

(* Hashing the source fails, or the request does, with or without effect: *)
(* no session is known, so none is abandoned.                             *)
CreateFails(c) ==
  /\ pc[c] = "create"
  /\ Goto(c, "error")
  /\ \/ OpenSession(c)
     \/ UNCHANGED gatewayVars
  /\ UNCHANGED clientVars

(* GET of the session to resume: its digest, total and gap are adopted.    *)
AdoptLocalTotal(c, s) ==
  /\ declared' = [declared EXCEPT ![c] = gwTotal[s]]
  /\ total' = [total EXCEPT ![c] = sourceSize]

Adopt(c, s) ==
  /\ declared' = [declared EXCEPT ![c] = gwTotal[s]]
  /\ total' = [total EXCEPT ![c] = gwTotal[s]]

(* A completed session whose URI the gateway has not to hand is adopted    *)
(* like one still under way, with no gap, and completed once more.         *)
ResumeAdopts(c) ==
  /\ pc[c] = "status"
  /\ gwState[sess[c]] \in {"open", "assembling", "completed"}
  /\ Adopt(c, sess[c])
  /\ SendMissing(c, ServerMissing(sess[c]))
  /\ UNCHANGED <<sess, round, polls, sent, aborted, callerVars, gatewayVars>>

ResumeFindsCompleted(c) ==
  /\ pc[c] = "status"
  /\ gwState[sess[c]] = "completed"
  /\ declared' = [declared EXCEPT ![c] = gwTotal[sess[c]]]
  /\ Goto(c, "ok")
  /\ UNCHANGED <<sess, total, round, polls, batchVars, sent, aborted, callerVars, gatewayVars>>

(* The session is gone, failed or expired, or the request failed: thrown   *)
(* before the protected scope, so nothing is abandoned.                    *)
ResumeFails(c) ==
  /\ pc[c] = "status"
  /\ Goto(c, "error")
  /\ sess' = [sess EXCEPT ![c] = NoSession]
  /\ UNCHANGED <<declared, total, round, polls, batchVars, sent, aborted, callerVars, gatewayVars>>

-----------------------------------------------------------------------------
(* The lanes.                                                              *)

(* The gateway stores a chunk; a repeated PUT of the same chunk is a no-op. *)
GatewayStoresChunk(c, l) ==
  /\ lane[c][l].st = "put"
  /\ gwState[sess[c]] = "open"
  /\ Fits(c, lane[c][l].chunk)
  /\ gwHeld' = [gwHeld EXCEPT ![sess[c]] = @ \cup {lane[c][l].chunk}]
  /\ lane' = [lane EXCEPT ![c][l].st = "acked"]
  /\ UNCHANGED <<pc, callVars, todo, cursor, acked, sent, aborted, callerVars,
                 gwState, gwTotal, attempt, stored>>

(* The lane's next turn, with no await between the test and the increment. *)
ClaimNextAgain(c, l) ==
  \/ /\ cursor[c] < Len(todo[c])
     /\ lane' = [lane EXCEPT ![c][l] = [st |-> "put", chunk |-> todo[c][cursor[c] + 1], tries |-> 0]]
     /\ UNCHANGED cursor
  \/ /\ cursor[c] >= Len(todo[c])
     /\ lane' = [lane EXCEPT ![c][l].st = "done"]
     /\ UNCHANGED cursor

ClaimNext(c, l) ==
  \/ /\ aborted[c]
     /\ lane' = [lane EXCEPT ![c][l].st = "failed"]
     /\ UNCHANGED cursor
  \/ /\ ~aborted[c]
     /\ cursor[c] < Len(todo[c])
     /\ lane' = [lane EXCEPT ![c][l] = [st |-> "put", chunk |-> todo[c][cursor[c] + 1], tries |-> 0]]
     /\ cursor' = [cursor EXCEPT ![c] = @ + 1]
  \/ /\ ~aborted[c]
     /\ cursor[c] >= Len(todo[c])
     /\ lane' = [lane EXCEPT ![c][l].st = "done"]
     /\ UNCHANGED cursor

(* The reply arrives: the chunk is reported, and onProgress may throw.     *)
LaneAcked(c, l) ==
  /\ lane[c][l].st = "acked"
  /\ acked' = [acked EXCEPT ![c] = @ \cup {lane[c][l].chunk}]
  /\ sent' = [sent EXCEPT ![c] = @ + ChunkLength(lane[c][l].chunk, ChunkBytes, total[c])]
  /\ \/ ClaimNext(c, l)
     \/ /\ lane' = [lane EXCEPT ![c][l].st = "failed"]
        /\ UNCHANGED cursor
  /\ UNCHANGED <<pc, callVars, todo, aborted, callerVars, gatewayVars>>

(* A network error, 5xx, 408 or 429, before or after the gateway stored    *)
(* the chunk.                                                              *)
LaneRetriesForever(c, l) ==
  /\ lane[c][l].st \in InFlight
  /\ lane' = [lane EXCEPT ![c][l].st = IF aborted[c] THEN "failed" ELSE "put"]
  /\ UNCHANGED <<pc, callVars, todo, cursor, acked, sent, aborted, callerVars, gatewayVars>>

LaneRetries(c, l) ==
  /\ lane[c][l].st \in InFlight
  /\ \/ /\ aborted[c] \/ lane[c][l].tries = MaxRetries
        /\ lane' = [lane EXCEPT ![c][l].st = "failed"]
     \/ /\ ~aborted[c]
        /\ lane[c][l].tries < MaxRetries
        /\ lane' = [lane EXCEPT ![c][l].st = "put", ![c][l].tries = @ + 1]
  /\ UNCHANGED <<pc, callVars, todo, cursor, acked, sent, aborted, callerVars, gatewayVars>>

(* The source cannot be read, the gateway answers any other 4xx (among     *)
(* them 404 and 409, the session being gone or no longer open), or the     *)
(* signal aborts the request.                                              *)
LaneSkipsRefused(c, l) ==
  /\ lane[c][l].st = "put"
  /\ ClaimNext(c, l)
  /\ UNCHANGED <<pc, callVars, todo, acked, sent, aborted, callerVars, gatewayVars>>

LaneRefused(c, l) ==
  /\ \/ lane[c][l].st = "put"
     \/ lane[c][l].st = "acked" /\ aborted[c]
  /\ lane' = [lane EXCEPT ![c][l].st = "failed"]
  /\ UNCHANGED <<pc, callVars, todo, cursor, acked, sent, aborted, callerVars, gatewayVars>>

(* Promise.all.  *)
BatchRaced(c) ==
  /\ pc[c] = "upload"
  /\ \E l \in Lanes : lane[c][l].st = "done"
  /\ Goto(c, "complete")
  /\ UNCHANGED <<clientVars, gatewayVars>>

BatchAllSettled(c) ==
  /\ pc[c] = "upload"
  /\ \A l \in Lanes : lane[c][l].st \in {"off", "done", "failed"}
  /\ Goto(c, "complete")
  /\ UNCHANGED <<clientVars, gatewayVars>>

BatchDone(c) ==
  /\ pc[c] = "upload"
  /\ \A l \in Lanes : lane[c][l].st \in {"off", "done"}
  /\ Goto(c, "complete")
  /\ UNCHANGED <<clientVars, gatewayVars>>

BatchFails(c) ==
  /\ pc[c] = "upload"
  /\ \E l \in Lanes : lane[c][l].st = "failed"
  /\ Goto(c, "abandon")
  /\ UNCHANGED <<clientVars, gatewayVars>>

-----------------------------------------------------------------------------
(* finishSession().                                                        *)

(* The gateway assembles a whole session now, or accepts it for later.     *)
Assembles(s) ==
  /\ gwState[s] = "open"
  /\ ServerMissing(s) = {}
  /\ \/ /\ gwState' = [gwState EXCEPT ![s] = "completed"]
        /\ stored' = stored \cup {gwTotal[s]}
        /\ UNCHANGED attempt
     \/ /\ gwState' = [gwState EXCEPT ![s] = "assembling"]
        /\ attempt' = [attempt EXCEPT ![s] = "reserved"]
        /\ UNCHANGED stored
  /\ UNCHANGED <<gwTotal, gwHeld>>

(* The completion key is the digest: a repeated completion is replayed.    *)
Replays(s) ==
  /\ gwState[s] \in {"assembling", "completed"}
  /\ UNCHANGED gatewayVars

CompleteAnswered(c) ==
  /\ pc[c] = "complete"
  /\ Assembles(sess[c]) \/ Replays(sess[c])
  /\ Goto(c, IF gwState'[sess[c]] = "completed" THEN "ok" ELSE "poll")
  /\ UNCHANGED clientVars

(* 409 incomplete-upload: chunks are missing, or assembly is in progress.  *)
CompleteIncomplete(c) ==
  /\ pc[c] = "complete"
  /\ gwState[sess[c]] \in {"open", "assembling"}
  /\ Goto(c, IF round[c] < CompleteRetries THEN "gap" ELSE "abandon")
  /\ UNCHANGED <<clientVars, gatewayVars>>

(* Any other refusal, an abort, or a lost reply. *)
CompleteFails(c) ==
  /\ pc[c] = "complete"
  /\ Goto(c, "abandon")
  /\ Assembles(sess[c]) \/ UNCHANGED gatewayVars
  /\ UNCHANGED clientVars

GapRead(c) ==
  /\ pc[c] = "gap"
  /\ gwState[sess[c]] # "gone"
  /\ round' = [round EXCEPT ![c] = @ + 1]
  /\ total' = [total EXCEPT ![c] = gwTotal[sess[c]]]
  /\ SendMissing(c, ServerMissing(sess[c]))
  /\ UNCHANGED <<sess, declared, polls, sent, aborted, callerVars, gatewayVars>>

GapFails(c) ==
  /\ pc[c] = "gap"
  /\ Goto(c, "abandon")
  /\ UNCHANGED <<clientVars, gatewayVars>>

PollReservedForever(c) ==
  /\ pc[c] = "poll"
  /\ attempt[sess[c]] = "reserved"
  /\ polls' = [polls EXCEPT ![c] = @ + 1]
  /\ UNCHANGED <<pc, sess, declared, total, round, batchVars, sent, aborted, callerVars, gatewayVars>>

PollReserved(c) ==
  /\ pc[c] = "poll"
  /\ attempt[sess[c]] = "reserved"
  /\ polls' = [polls EXCEPT ![c] = @ + 1]
  /\ Goto(c, IF polls[c] + 1 = PollMax THEN "abandon" ELSE "poll")
  /\ UNCHANGED <<sess, declared, total, round, batchVars, sent, aborted, callerVars, gatewayVars>>

PollTerminalUnread(c) ==
  /\ pc[c] = "poll"
  /\ attempt[sess[c]] \in {"committed", "released"}
  /\ Goto(c, "ok")
  /\ UNCHANGED <<clientVars, gatewayVars>>

PollTerminal(c) ==
  /\ pc[c] = "poll"
  /\ attempt[sess[c]] \in {"committed", "released"}
  /\ Goto(c, IF attempt[sess[c]] = "committed" THEN "ok" ELSE "abandon")
  /\ UNCHANGED <<clientVars, gatewayVars>>

(* A failed poll is not retried; a commit without a uri is a failure too. *)
PollFails(c) ==
  /\ pc[c] = "poll"
  /\ Goto(c, "abandon")
  /\ UNCHANGED <<clientVars, gatewayVars>>

-----------------------------------------------------------------------------
(* abandonAfterFailure(): the DELETE carries no signal.  204, 404 and 410  *)
(* all mean that the session is no more.                                   *)

AbandonAnswered(c) ==
  /\ pc[c] = "abandon"
  /\ Goto(c, "error")
  /\ gwState' = [gwState EXCEPT ![sess[c]] = "gone"]
  /\ UNCHANGED <<clientVars, gwTotal, gwHeld, attempt, stored>>

(* SESSION_FAILED names the session, so the caller then holds its id. *)
AbandonFailsSilently(c) ==
  /\ pc[c] = "abandon"
  /\ Goto(c, "error")
  /\ UNCHANGED <<clientVars, gatewayVars>>

AbandonFails(c) ==
  /\ pc[c] = "abandon"
  /\ Goto(c, "leaked")
  /\ persisted' = persisted \cup {sess[c]}
  /\ \/ gwState' = [gwState EXCEPT ![sess[c]] = "gone"]
     \/ UNCHANGED gwState
  /\ UNCHANGED <<sess, declared, total, round, polls, batchVars, sent, aborted, sourceSize,
                 gwTotal, gwHeld, attempt, stored>>

-----------------------------------------------------------------------------
(* The caller and its machine.                                             *)

Active(c) == pc[c] \in Running \/ \E l \in Lanes : lane[c][l].st \in InFlight

Abort(c) ==
  /\ c \in WithSignal
  /\ Active(c)
  /\ ~aborted[c]
  /\ aborted' = [aborted EXCEPT ![c] = TRUE]
  /\ UNCHANGED <<pc, callVars, batchVars, sent, callerVars, gatewayVars>>

(* The process dies, and every lane of every call with it. *)
Crash(c) ==
  /\ pc[c] \in Running
  /\ Goto(c, "crashed")
  /\ lane' = [d \in Calls |-> [l \in Lanes |-> LaneOff]]
  /\ UNCHANGED <<sess, declared, total, round, polls, todo, cursor, acked, sent, aborted,
                 callerVars, gatewayVars>>

(* abandonUploadSession(), called between uploads. *)
CallerAbandons(s) ==
  /\ s \in persisted
  /\ \A c \in Calls : pc[c] \notin Running
  /\ gwState[s] # "gone"
  /\ gwState' = [gwState EXCEPT ![s] = "gone"]
  /\ UNCHANGED <<pc, clientVars, gwTotal, gwHeld, attempt, stored>>

SourceGrows ==
  /\ \E n \in Sizes : n > sourceSize /\ sourceSize' = n
  /\ UNCHANGED <<pc, callVars, batchVars, sent, aborted, persisted, gatewayVars>>

(* The gateway. *)
ResolveAttempt(s) ==
  /\ attempt[s] = "reserved"
  /\ \/ /\ attempt' = [attempt EXCEPT ![s] = "committed"]
        /\ stored' = stored \cup {gwTotal[s]}
        /\ gwState' = [gwState EXCEPT ![s] = IF @ = "assembling" THEN "completed" ELSE @]
     \/ /\ attempt' = [attempt EXCEPT ![s] = "released"]
        /\ gwState' = [gwState EXCEPT ![s] = IF @ = "assembling" THEN "failed" ELSE @]
        /\ UNCHANGED stored
  /\ UNCHANGED <<pc, clientVars, gwTotal, gwHeld>>

LoseChunk(s) ==
  /\ gwState[s] = "open"
  /\ \E i \in gwHeld[s] : gwHeld' = [gwHeld EXCEPT ![s] = @ \ {i}]
  /\ UNCHANGED <<pc, clientVars, gwState, gwTotal, attempt, stored>>

Expire(s) ==
  /\ gwState[s] = "open"
  /\ gwState' = [gwState EXCEPT ![s] = "failed"]
  /\ UNCHANGED <<pc, clientVars, gwTotal, gwHeld, attempt, stored>>

-----------------------------------------------------------------------------
Start(c) == StartFresh(c) \/ \E s \in Calls : StartResume(c, s)

Drive(c) ==
  \/ SingleShotAnswered(c) \/ SingleShotFails(c)
  \/ CreateDeduplicated(c) \/ CreateAnswered(c) \/ CreatedButNotifyThrows(c) \/ CreateFails(c)
  \/ ResumeAdopts(c) \/ ResumeFindsCompleted(c) \/ ResumeFails(c)
  \/ BatchDone(c) \/ BatchFails(c)
  \/ CompleteAnswered(c) \/ CompleteIncomplete(c) \/ CompleteFails(c)
  \/ GapRead(c) \/ GapFails(c)
  \/ PollReserved(c) \/ PollTerminal(c) \/ PollFails(c)
  \/ AbandonAnswered(c) \/ AbandonFails(c)

Lane(c, l) ==
  \/ GatewayStoresChunk(c, l) \/ LaneAcked(c, l)
  \/ LaneRetries(c, l) \/ LaneRefused(c, l)

Environment ==
  \/ \E c \in Calls : Abort(c) \/ Crash(c)
  \/ \E s \in Calls : CallerAbandons(s) \/ ResolveAttempt(s) \/ LoseChunk(s) \/ Expire(s)
  \/ SourceGrows

Next ==
  \/ \E c \in Calls : Start(c) \/ Drive(c) \/ \E l \in Lanes : Lane(c, l)
  \/ Environment

Spec == Init /\ [][Next]_vars

(* fetch settles, timers fire and the event loop runs every continuation:  *)
(* a driver or a lane that can step does.  Nothing is assumed of the       *)
(* gateway's answers.                                                      *)
FairSpec ==
  /\ Spec
  /\ \A c \in Calls : WF_vars(Drive(c))
  /\ \A c \in Calls, l \in Lanes : WF_vars(Lane(c, l))

-----------------------------------------------------------------------------
(* Properties.                                                             *)

LaneRecords == [st : LaneStates, chunk : Nat, tries : 0..MaxRetries]

CallsTyped ==
  /\ pc \in [Calls -> {"idle"} \cup Running \cup Settled]
  /\ sess \in [Calls -> Calls \cup {NoSession}]
  /\ declared \in [Calls -> Sizes \cup {0}]
  /\ total \in [Calls -> Sizes \cup {0}]
  /\ round \in [Calls -> 0..CompleteRetries]
  /\ polls \in [Calls -> 0..PollMax]
  /\ sent \in [Calls -> Int]
  /\ aborted \in [Calls -> BOOLEAN]

BatchesTyped ==
  /\ todo \in [Calls -> Seq(Nat)]
  /\ cursor \in [Calls -> Nat]
  /\ lane \in [Calls -> [Lanes -> LaneRecords]]
  /\ acked \in [Calls -> SUBSET Nat]

GatewayTyped ==
  /\ gwState \in [Calls -> {"none", "open", "assembling", "completed", "failed", "gone"}]
  /\ gwTotal \in [Calls -> Sizes \cup {0}]
  /\ gwHeld \in [Calls -> SUBSET Nat]
  /\ attempt \in [Calls -> {"none", "reserved", "committed", "released"}]
  /\ stored \subseteq Sizes

(* Every variable has its type; in particular no loop of the driver or of  *)
(* a lane passes its limit: retries of a chunk, completion attempts, polls. *)
TypeOK ==
  /\ CallsTyped
  /\ BatchesTyped
  /\ GatewayTyped
  /\ sourceSize \in Sizes
  /\ persisted \subseteq Calls

(* /complete is sent only when the gateway has acknowledged, to this call, *)
(* every chunk of the latest gap it reported, whatever the lanes did in    *)
(* between and in whichever order they did it.                             *)
CompleteOnlyWhenAcked ==
  \A c \in Calls : pc[c] = "complete" => \A k \in 1..Len(todo[c]) : todo[c][k] \in acked[c]

(* No lane of a call is still sending once the call completes, reads the   *)
(* gap, polls or returns a uri: only a failed call leaves orphans behind.  *)
NoLaneBehind ==
  \A c \in Calls : pc[c] \in {"complete", "gap", "poll", "ok"} =>
    \A l \in Lanes : lane[c][l].st \notin InFlight

(* The shared cursor hands every missing chunk to one lane only.           *)
ClaimedOnce ==
  \A c \in Calls : \A l, m \in Lanes :
    /\ l # m
    /\ lane[c][l].st \in InFlight
    /\ lane[c][m].st \in InFlight
    => lane[c][l].chunk # lane[c][m].chunk

(* A chunk is cut to the length the session was created with, though the   *)
(* source may have grown since.                                            *)
EveryPutFits ==
  \A c \in Calls, l \in Lanes : lane[c][l].st \in InFlight => Fits(c, lane[c][l].chunk)

(* The caller holds a session's id before the gateway holds any of its     *)
(* chunks, so a crash never costs bytes already uploaded.                  *)
PersistBeforePut == \A s \in Calls : gwHeld[s] # {} => s \in persisted

(* A call that opened or resumed a session and rethrows its own error has  *)
(* deleted the session.                                                    *)
ErrorMeansAbandoned ==
  \A c \in Calls : pc[c] = "error" /\ sess[c] # NoSession => gwState[sess[c]] = "gone"

(* A session still open after its creator returned or threw is one whose   *)
(* id the caller holds, or one whose create reply never arrived.           *)
NoSilentLeak ==
  \A s \in Calls : gwState[s] = "open" /\ pc[s] \in {"ok", "error", "leaked"} =>
    s \in persisted \/ sess[s] = NoSession

(* Orphan lanes die out: a lane whose PUT is outstanding when its session  *)
(* is deleted gets no acknowledgement and claims no other chunk, so that   *)
(* only a lane whose reply was already on its way starts on one more, and  *)
(* that one is its last.                                                   *)
OrphansStop ==
  [][\A c \in Calls, l \in Lanes :
       lane[c][l].st = "put" /\ gwState[sess[c]] = "gone" =>
         \/ lane'[c][l].st \in {"put", "failed"} /\ lane'[c][l].chunk = lane[c][l].chunk
         \/ lane'[c][l].st = "off"]_vars

(* The promises of UploadContract.                                         *)
Contract == INSTANCE UploadContract WITH
  Contents <- Sizes,
  outcome <- [c \in Calls |->
                CASE pc[c] = "idle" -> "idle"
                  [] pc[c] \in Running -> "running"
                  [] pc[c] = "ok" -> "ok"
                  [] OTHER -> "failed"],
  result <- [c \in Calls |-> IF pc[c] = "ok" THEN declared[c] ELSE 0],
  wanted <- {declared[c] : c \in Calls} \ {0}

ImplementsContract == Contract!Spec

(* Every call settles, whatever the gateway answers, and every lane stops, *)
(* also the orphans of a call that has settled.                            *)
EveryCallSettles ==
  /\ \A c \in Calls : pc[c] \in Running ~> pc[c] \in Settled
  /\ \A c \in Calls, l \in Lanes : lane[c][l].st \in InFlight ~> lane[c][l].st \notin InFlight

(* UploadProgress (types.ts:255-256) tells a UI to read bytesSent /        *)
(* totalBytes as the fraction of the work of this call, so it is 1 when a  *)
(* call that sent chunks succeeds.                                         *)
ProgressIsFraction ==
  \A c \in Calls : pc[c] = "ok" /\ acked[c] # {} => sent[c] = total[c]

=============================================================================
