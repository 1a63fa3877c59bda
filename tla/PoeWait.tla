------------------------------ MODULE PoeWait ------------------------------
(***************************************************************************)
(* poe.wait() of the TypeScript SDK                                        *)
(* (packages/sdk-ts/src/client/poe-events.ts): follow a record's status    *)
(* stream over reconnects until it reaches a target, fails, or the         *)
(* caller's deadline or abort wins the race.                               *)
(*                                                                         *)
(* The record's history is a log of statuses; the SSE id of a frame is the *)
(* position of its status in the log.  A connection is a queue of whole    *)
(* frames (`wire'); one read() takes any non-empty prefix of it, and a     *)
(* frame cut off by a dropped connection is a frame never read.            *)
(*                                                                         *)
(* Simplifications.  A clean close and a dropped connection differ only in *)
(* the frames lost, and are one action.  429, 5xx, a network error and an  *)
(* empty body differ only in the length of the pause.                      *)
(***************************************************************************)
EXTENDS Integers, Sequences, FiniteSets

CONSTANTS
  Targets,       \* the values of options.target
  Deadline,      \* is options.timeoutMs given?
  WithSignal,    \* is options.signal given?
  SignalAware,   \* does the injected fetch settle its requests and reads on abort?
  MaxSeq,        \* status changes the gateway makes
  MaxFaults,     \* connections that fail, in all
  MaxPings,      \* keepalives the gateway sends, in all
  MaxOversized,  \* frames over the parser's caps, in all
  LadderTop      \* last index of BACKOFF_DELAYS_MS, 4 in the code

ASSUME WaitAssumption ==
  /\ Targets \subseteq {"submitted", "confirmed"}
  /\ Deadline \in BOOLEAN
  /\ WithSignal \in BOOLEAN
  /\ SignalAware \in BOOLEAN
  /\ MaxSeq \in Nat \ {0}
  /\ MaxFaults \in Nat
  /\ MaxPings \in Nat
  /\ MaxOversized \in Nat
  /\ LadderTop \in Nat

VARIABLES
  (* the gateway *)
  log,          \* the record's statuses, oldest first
  served,       \* the position the current connection has been sent
  wire,         \* the frames of the connection the client has not read
  faults, pings, oversized,
  (* streamUntilTarget() *)
  loop,         \* where the loop is
  verdict,      \* why it is closing the body
  lastEventId,  \* the resume point, 0 when there is none
  parserId,     \* the parser's committed id, 0 when undefined
  delivered,    \* deliveredFrame
  backoff,      \* backoffIndex, up to LadderTop
  (* waitForPoe() *)
  target,       \* options.target
  lastSnapshot, \* the position of state.lastSnapshot, 0 when null
  outcome,      \* what the race settled with
  (* history *)
  seen          \* the positions whose snapshot the loop has evaluated

gatewayVars == <<log, served, wire, faults, pings, oversized>>
loopVars    == <<loop, verdict, lastEventId, parserId, delivered, backoff>>
waitVars    == <<target, lastSnapshot, outcome, seen>>
vars == <<gatewayVars, loopVars, waitVars>>

Statuses == {"submitting", "confirming", "confirmed", "failed"}
Terminal == {"confirmed", "failed"}
Settled  == outcome # "none"

Change(n) == [kind |-> "change", id |-> n]
Ping      == [kind |-> "ping", id |-> 0]
Big       == [kind |-> "big", id |-> 0]

Smaller(a, b) == IF a < b THEN a ELSE b

-----------------------------------------------------------------------------
(* evaluateSnapshot() *)
EvaluateWithoutFailure(status) ==
  CASE status = "confirmed" -> "resolve"
    [] target = "submitted" /\ status = "confirming" -> "resolve"
    [] OTHER -> "continue"

Evaluate(status) ==
  CASE status = "failed" -> "failed"
    [] status = "confirmed" -> "resolve"
    [] target = "submitted" /\ status = "confirming" -> "resolve"
    [] OTHER -> "continue"

(* The id a parser holds after a sequence of frames: the last one committed. *)
Committed(frames, id) ==
  LET ids == {frames[i].id : i \in {j \in 1..Len(frames) : frames[j].kind = "change"}}
  IN IF ids = {} THEN id ELSE CHOOSE m \in ids : \A n \in ids : n <= m

(* parser.lastEventId ?? lastEventId *)
ResumePointOfParser(committed) == committed

ResumePoint(committed) == IF committed = 0 THEN lastEventId ELSE committed

Decisive(frames) ==
  {i \in 1..Len(frames) :
     frames[i].kind = "change" /\ Evaluate(log[frames[i].id]) # "continue"}

(* The frames of a chunk the loop evaluates: up to the first decisive one. *)
EvaluatedToTheEnd(frames) == frames

Evaluated(frames) ==
  IF Decisive(frames) = {} THEN frames
  ELSE SubSeq(frames, 1, CHOOSE i \in Decisive(frames) : \A j \in Decisive(frames) : i <= j)

Snapshots(frames) ==
  {frames[i].id : i \in {j \in 1..Len(frames) : frames[j].kind = "change"}}

-----------------------------------------------------------------------------
Init ==
  /\ log = <<"submitting">>
  /\ served = 0
  /\ wire = <<>>
  /\ faults = 0 /\ pings = 0 /\ oversized = 0
  /\ loop = "fetch"
  /\ verdict = "none"
  /\ lastEventId = 0
  /\ parserId = 0
  /\ delivered = FALSE
  /\ backoff = 0
  /\ target \in Targets
  /\ lastSnapshot = 0
  /\ outcome = "none"
  /\ seen = {}

-----------------------------------------------------------------------------
(* The gateway. *)

RecordChanges ==
  /\ Len(log) < MaxSeq
  /\ log[Len(log)] \notin Terminal
  /\ \E status \in Statuses \ {"submitting"} :
       /\ log[Len(log)] = "submitting" => status # "confirmed"
       /\ log' = Append(log, status)
  /\ UNCHANGED <<served, wire, faults, pings, oversized, loopVars, waitVars>>

Push ==
  /\ loop = "read"
  /\ served < Len(log)
  /\ served' = served + 1
  /\ wire' = Append(wire, Change(served + 1))
  /\ UNCHANGED <<log, faults, pings, oversized, loopVars, waitVars>>

KeepAlive ==
  /\ loop = "read"
  /\ pings < MaxPings
  /\ pings' = pings + 1
  /\ wire' = Append(wire, Ping)
  /\ UNCHANGED <<log, served, faults, oversized, loopVars, waitVars>>

SendOversized ==
  /\ loop = "read"
  /\ oversized < MaxOversized
  /\ oversized' = oversized + 1
  /\ wire' = Append(wire, Big)
  /\ UNCHANGED <<log, served, faults, pings, loopVars, waitVars>>

-----------------------------------------------------------------------------
(* streamUntilTarget() *)

(* The stream opens: from the resume point if there is one, otherwise with  *)
(* the record's snapshot.                                                   *)
Connect ==
  /\ loop = "fetch"
  /\ Settled => ~SignalAware
  /\ loop' = "read"
  /\ wire' = IF lastEventId = 0 THEN <<Change(Len(log))>> ELSE <<>>
  /\ served' = IF lastEventId = 0 THEN Len(log) ELSE lastEventId
  /\ parserId' = 0
  /\ delivered' = FALSE
  /\ UNCHANGED <<log, faults, pings, oversized, verdict, lastEventId, backoff, waitVars>>

(* nextBackoffMs() *)
PauseFromUnclamped(index) ==
  /\ loop' = "sleep"
  /\ backoff' = index + 1

PauseFrom(index) ==
  /\ loop' = "sleep"
  /\ backoff' = Smaller(index + 1, LadderTop)

FetchFails ==
  /\ loop = "fetch"
  /\ faults < MaxFaults
  /\ faults' = faults + 1
  /\ PauseFrom(backoff)
  /\ UNCHANGED <<log, served, wire, pings, oversized, verdict, lastEventId, parserId, delivered,
                 waitVars>>

(* Any other refusal is definitive. *)
Refused ==
  /\ loop = "fetch"
  /\ loop' = "ended"
  /\ outcome' = IF Settled THEN outcome ELSE "refused"
  /\ UNCHANGED <<gatewayVars, verdict, lastEventId, parserId, delivered, backoff,
                 target, lastSnapshot, seen>>

(* A chunk with a frame over the caps: feed() throws, and the events it had *)
(* completed are gone, though their ids are committed.                      *)
ReadOversized ==
  /\ loop = "read"
  /\ \E k \in 1..Len(wire) :
       /\ wire[k] = Big
       /\ \A j \in 1..(k - 1) : wire[j] # Big
       /\ parserId' = Committed(SubSeq(wire, 1, k - 1), parserId)
  /\ lastEventId' = ResumePoint(parserId')
  /\ verdict' = "retry"
  /\ loop' = "close"
  /\ wire' = <<>>
  /\ UNCHANGED <<log, served, faults, pings, oversized, delivered, backoff, waitVars>>

ReadChunk ==
  /\ loop = "read"
  /\ \E k \in 1..Len(wire) :
       LET chunk == SubSeq(wire, 1, k)
           ids   == Snapshots(Evaluated(chunk))
       IN /\ \A j \in 1..k : chunk[j] # Big
          /\ parserId' = Committed(chunk, parserId)
          /\ delivered' = TRUE
          /\ seen' = seen \cup ids
          /\ lastSnapshot' = Committed(Evaluated(chunk), lastSnapshot)
          /\ \/ /\ Decisive(chunk) # {}
                /\ verdict' = Evaluate(log[lastSnapshot'])
                /\ loop' = "close"
                /\ wire' = <<>>
                /\ UNCHANGED lastEventId
             \/ /\ Decisive(chunk) = {}
                /\ lastEventId' = ResumePoint(parserId')
                /\ wire' = SubSeq(wire, k + 1, Len(wire))
                /\ UNCHANGED <<verdict, loop>>
  /\ UNCHANGED <<log, served, faults, pings, oversized, backoff, target, outcome>>

ConnectionEnds ==
  /\ loop = "read"
  /\ faults < MaxFaults
  /\ faults' = faults + 1
  /\ lastEventId' = ResumePoint(parserId)
  /\ verdict' = "retry"
  /\ loop' = "close"
  /\ wire' = <<>>
  /\ UNCHANGED <<log, served, pings, oversized, parserId, delivered, backoff, waitVars>>

(* The controller's abort reaches the fetch, the read or the sleep. *)
LoopAbortedAtReadOnly ==
  /\ Settled
  /\ loop = "read" /\ SignalAware
  /\ loop' = "close"
  /\ verdict' = "abort"
  /\ wire' = <<>>
  /\ UNCHANGED <<log, served, faults, pings, oversized, lastEventId, parserId, delivered,
                 backoff, waitVars>>

LoopAborted ==
  /\ Settled
  /\ \/ /\ loop = "sleep" \/ (loop = "fetch" /\ SignalAware)
        /\ loop' = "ended"
        /\ UNCHANGED <<verdict, wire>>
     \/ /\ loop = "read" /\ SignalAware
        /\ loop' = "close"
        /\ verdict' = "abort"
        /\ wire' = <<>>
  /\ UNCHANGED <<log, served, faults, pings, oversized, lastEventId, parserId, delivered,
                 backoff, waitVars>>

(* body.cancel() settles, and the loop does what it was about to. *)
BodyCancelled ==
  /\ loop = "close"
  /\ \/ /\ verdict \in {"resolve", "failed"}
        /\ loop' = "ended"
        /\ outcome' = IF Settled THEN outcome ELSE verdict
        /\ UNCHANGED backoff
     \/ /\ verdict = "abort"
        /\ loop' = "ended"
        /\ UNCHANGED <<outcome, backoff>>
     \/ /\ verdict = "retry"
        /\ PauseFrom(IF delivered THEN 0 ELSE backoff)
        /\ UNCHANGED outcome
  /\ UNCHANGED <<gatewayVars, verdict, lastEventId, parserId, delivered, target, lastSnapshot, seen>>

Wake ==
  /\ loop = "sleep"
  /\ ~Settled
  /\ loop' = "fetch"
  /\ UNCHANGED <<gatewayVars, verdict, lastEventId, parserId, delivered, backoff, waitVars>>

-----------------------------------------------------------------------------
(* The other contenders of the race. *)

DeadlinePasses ==
  /\ Deadline
  /\ ~Settled
  /\ outcome' = "timeout"
  /\ UNCHANGED <<gatewayVars, loopVars, target, lastSnapshot, seen>>

CallerAborts ==
  /\ WithSignal
  /\ ~Settled
  /\ outcome' = "aborted"
  /\ UNCHANGED <<gatewayVars, loopVars, target, lastSnapshot, seen>>

-----------------------------------------------------------------------------
Gateway == RecordChanges \/ Push \/ KeepAlive \/ SendOversized
Request == Connect \/ FetchFails \/ Refused
Read    == ReadChunk \/ ReadOversized
Race    == DeadlinePasses \/ CallerAborts

Next ==
  \/ Gateway \/ Request \/ Read \/ ConnectionEnds
  \/ LoopAborted \/ BodyCancelled \/ Wake \/ Race

Spec == Init /\ [][Next]_vars

(* Requests, cancellations and sleeps settle, an abort is delivered where   *)
(* the fetch observes it, and the gateway serves an open stream.  Nothing   *)
(* obliges the record to change, a connection to fail or a deadline to      *)
(* pass.                                                                    *)
FairSpec ==
  /\ Spec
  /\ WF_vars(Request) /\ WF_vars(Read) /\ WF_vars(LoopAborted)
  /\ WF_vars(BodyCancelled) /\ WF_vars(Wake) /\ WF_vars(Push)

-----------------------------------------------------------------------------
(* Properties. *)

Frames == [kind : {"change"}, id : 1..MaxSeq] \cup [kind : {"ping", "big"}, id : {0}]

(* Every variable has its type, and no SSE id is ahead of the record.       *)
TypeOK ==
  /\ log \in Seq(Statuses) /\ Len(log) \in 1..MaxSeq
  /\ served \in 0..Len(log)
  /\ wire \in Seq(Frames)
  /\ faults \in 0..MaxFaults /\ pings \in 0..MaxPings /\ oversized \in 0..MaxOversized
  /\ loop \in {"fetch", "read", "close", "sleep", "ended"}
  /\ verdict \in {"none", "resolve", "failed", "retry", "abort"}
  /\ lastEventId \in 0..Len(log)
  /\ parserId \in 0..Len(log)
  /\ delivered \in BOOLEAN
  /\ backoff \in 0..LadderTop
  /\ target \in Targets
  /\ lastSnapshot \in 0..Len(log)
  /\ outcome \in {"none", "resolve", "failed", "refused", "timeout", "aborted"}
  /\ seen \subseteq 1..Len(log)

(* "no status change is missed across a reconnect" (poe.ts:323-325): from   *)
(* the first snapshot on, the loop evaluates every status of the record.    *)
NoChangeMissed ==
  \A i, j \in seen : \A k \in i..j : k \in seen

(* What the code does keep of it: no change is missed while no frame is     *)
(* over the caps, whichever frames the dropped connections took with them.  *)
NoChangeMissedWithinCaps == oversized = 0 => NoChangeMissed

(* The resume point never moves back: a reconnect never replays what was    *)
(* already committed, nor starts over from a fresh snapshot.                *)
ResumePointAdvances == [][lastEventId' >= lastEventId]_lastEventId

(* The wait settles on the first decisive snapshot: none that it evaluated  *)
(* before, on this or an earlier connection, was decisive.                  *)
FirstDecisiveWins ==
  outcome \in {"resolve", "failed"} =>
    /\ Evaluate(log[lastSnapshot]) = outcome
    /\ \A i \in seen \ {lastSnapshot} : Evaluate(log[i]) = "continue"

(* A record that reached a terminal status settles the wait, whatever       *)
(* connections failed before, unless an oversized frame hid the status.     *)
TerminalSettles == log[Len(log)] \in Terminal ~> Settled \/ oversized > 0

(* "a settled wait never leaves a live stream" (poe-events.ts:244-245).     *)
SettledWaitEndsLoop == Settled ~> loop = "ended"

(* PoeWaitTimeoutError means that "the requested lifecycle target was not   *)
(* reached within timeoutMs" (poe-wait-timeout-error.ts:1-2): when the      *)
(* deadline settles the wait, no snapshot has reached the target.           *)
TimeoutMeansNotReached ==
  [][outcome' = "timeout" /\ lastSnapshot' # 0 => Evaluate(log'[lastSnapshot']) # "resolve"]_outcome

=============================================================================
