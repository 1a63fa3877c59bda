---------------------------- MODULE FetchOutbound ----------------------------
(***************************************************************************)
(* The verifier's egress (packages/sdk-ts/src/fetch/fetch-outbound.ts):    *)
(* wrapFetchOutbound(), which checks a call against the policy, retries it *)
(* and writes the audit trail, over defaultFetchOutbound(), which follows  *)
(* an Arweave gateway's redirects, caps the body and bounds the attempt.   *)
(* Concurrent calls of one wrapped function share one audit trail.         *)
(*                                                                         *)
(* The servers are adversaries: every request may be answered in any way,  *)
(* fail, or stay unanswered; a body may stall after any chunk.             *)
(*                                                                         *)
(* Simplifications.  A host is the sequence of its labels, the top level   *)
(* first, as canonicaliseHost() leaves it.  Durations are left out.  A     *)
(* response without a stream (arrayBuffer()) is one with a single chunk.   *)
(* A caller's own transport, denyHostsFetch() among them, is one step that *)
(* may settle in any way.                                                  *)
(***************************************************************************)
EXTENDS Integers, Sequences, FiniteSets

CONSTANTS
  Calls,              \* calls of the wrapped function
  Requests,           \* what a call may ask for
  DenyHosts,          \* config.denyHosts: entries [glob, host]
  Locations,          \* where a 3xx may point
  Statuses,           \* the HTTP statuses servers answer with
  RetryableStatuses,  \* config.retryableStatuses
  Retries,            \* config.retries
  MaxRedirectHops,    \* MAX_REDIRECT_HOPS, 3 in the code
  MaxBytes,           \* opts.maxBytes
  ChunkSizes          \* sizes of the chunks of a body

NoUrl == [proto |-> "none", host |-> << >>]

ASSUME FetchAssumption ==
  /\ \A r \in Requests :
       DOMAIN r = {"url", "method", "purpose", "transport"} /\ r.transport \in {"default", "custom"}
  /\ Statuses \subseteq 200..599
  /\ Retries \in Nat
  /\ MaxRedirectHops \in Nat
  /\ MaxBytes \in Nat
  /\ ChunkSizes \subseteq Nat \ {0}

VARIABLES
  wrap,   \* per call, the locals of the wrapper
  io,     \* per call, the locals of the transport's current invocation
  audit   \* the shared audit trail

vars == <<wrap, io, audit>>

-----------------------------------------------------------------------------
(* Hosts                                                                   *)

Under(host, parent) ==
  Len(parent) < Len(host) /\ SubSeq(host, 1, Len(parent)) = parent

LocalhostAliases == {<<"::1">>, <<"0.0.0.0">>, <<"169.254.169.254">>}
LoopbackBlock    == {<<"127.0.0.1">>, <<"127.1.2.3">>}

MatchesDenyList(host) ==
  \E pattern \in DenyHosts :
    IF pattern.glob THEN Under(host, pattern.host)
    ELSE \/ host = pattern.host
         \/ pattern.host = <<"localhost">> /\ host \in LocalhostAliases
         \/ pattern.host = <<"127.0.0.1">> /\ host \in LoopbackBlock

(* Mutant: the deny list is not applied to a redirect's target.            *)
SameDomainUndenied(location, original) ==
  location.proto = "https" /\ (location.host = original \/ Under(location.host, original))

(* A redirect is anchored to the host the fetch started from.              *)
SameDomainRedirect(location, original) ==
  /\ location.proto = "https"
  /\ location.host = original \/ Under(location.host, original)
  /\ ~MatchesDenyList(location.host)

-----------------------------------------------------------------------------
(* What an attempt or a call settles with.  In the audit trail status 0    *)
(* stands for null.                                                        *)

Result(status, bytes) == [kind |-> "result", status |-> status, bytes |-> bytes, error |-> "none"]
Failure(error)        == [kind |-> "error", status |-> 0, bytes |-> 0, error |-> error]
Pending               == Failure("none")

Row(c, settled) == [call |-> c, status |-> settled.status, bytes |-> settled.bytes]

(* The errors the retry loop rethrows: instances of its own classes.  An   *)
(* error of the same code from another copy of the package ("foreignDeny") *)
(* is not one of them.                                                     *)
Typed == {"deny", "protocol", "method"}

(* The first check of the wrapper that a request fails, "none" if it       *)
(* passes them all.                                                        *)
Refusal(r) ==
  CASE r.purpose = "webhook" -> "webhook"
    [] r.purpose # "webhook" /\ r.url.proto \notin {"http", "https"} -> "protocol"
    [] r.purpose # "webhook" /\ r.url.proto \in {"http", "https"}
         /\ r.method \notin {"GET", "POST"} -> "method"
    [] OTHER -> IF MatchesDenyList(r.url.host) THEN "deny" ELSE "none"

-----------------------------------------------------------------------------
(* The transport                                                           *)

IoOff == [pc |-> "off", url |-> NoUrl, hop |-> 0, status |-> 0, total |-> 0,
          timer |-> FALSE, aborted |-> FALSE]

Invoke(r) ==
  [IoOff EXCEPT !.pc = IF r.transport = "default" THEN "fetching" ELSE "custom",
                !.url = r.url,
                !.timer = r.transport = "default"]

Fresh == [pc |-> "idle", req |-> [url |-> NoUrl, method |-> "none", purpose |-> "none",
                                  transport |-> "default"],
          attempt |-> 0, lastStatus |-> 0, lastError |-> "none", outcome |-> Pending]

Init ==
  /\ wrap = [c \in Calls |-> Fresh]
  /\ io = [c \in Calls |-> IoOff]
  /\ audit = << >>

(* Mutant: every error is retried.                                         *)
RetryableAlways(settled) ==
  settled.kind = "result" => settled.status \in RetryableStatuses /\ Retries > 0

(* The attempt calls for another one, if there is one left.                *)
Retryable(settled) ==
  IF settled.kind = "result"
  THEN settled.status \in RetryableStatuses /\ Retries > 0
  ELSE settled.error \notin Typed

AfterAttempt(w, settled) ==
  LET noted == IF settled.kind = "result"
               THEN [w EXCEPT !.lastStatus = settled.status]
               ELSE [w EXCEPT !.lastError = settled.error]
  IN IF ~Retryable(settled) THEN [w EXCEPT !.pc = "done", !.outcome = settled]
     ELSE IF w.attempt <= Retries THEN [noted EXCEPT !.pc = "backoff"]
     ELSE [noted EXCEPT !.pc = "done",
                        !.outcome = IF Retries = 0 THEN settled ELSE Failure("exhausted")]

(* The transport's invocation settles: one audit row, and the loop goes on.*)
Settle(c, settled) ==
  /\ wrap' = [wrap EXCEPT ![c] = AfterAttempt(@, settled)]
  /\ io' = [io EXCEPT ![c] = IoOff]
  /\ audit' = Append(audit, Row(c, settled))

-----------------------------------------------------------------------------
(* The wrapper                                                             *)

(* A request the policy refuses leaves one row and no request.             *)
Refuse(c) ==
  \E r \in Requests :
    /\ wrap[c].pc = "idle"
    /\ Refusal(r) # "none"
    /\ wrap' = [wrap EXCEPT ![c].pc = "done", ![c].req = r,
                            ![c].outcome = Failure(Refusal(r))]
    /\ audit' = Append(audit, Row(c, Failure(Refusal(r))))
    /\ UNCHANGED io

Admit(c) ==
  \E r \in Requests :
    /\ wrap[c].pc = "idle"
    /\ Refusal(r) = "none"
    /\ wrap' = [wrap EXCEPT ![c].pc = "trying", ![c].req = r, ![c].attempt = 1]
    /\ io' = [io EXCEPT ![c] = Invoke(r)]
    /\ UNCHANGED audit

BackedOff(c) ==
  /\ wrap[c].pc = "backoff"
  /\ wrap' = [wrap EXCEPT ![c].pc = "trying", ![c].attempt = @ + 1]
  /\ io' = [io EXCEPT ![c] = Invoke(wrap[c].req)]
  /\ UNCHANGED audit

(* A transport of the caller's settles as it likes.                        *)
CustomSettles(c) ==
  /\ io[c].pc = "custom"
  /\ \/ \E s \in Statuses, n \in ChunkSizes : Settle(c, Result(s, n))
     \/ \E e \in {"network", "tooLarge", "deny", "foreignDeny"} : Settle(c, Failure(e))

-----------------------------------------------------------------------------
(* defaultFetchOutbound()                                                  *)

Follows(c, status) ==
  wrap[c].req.purpose = "arweave" /\ status \in 300..399

Answerable(c) == io[c].pc = "fetching" /\ ~io[c].aborted

(* A 3xx for the arweave purpose: follow it or fail the gateway.           *)
Redirected(c) ==
  /\ Answerable(c)
  /\ \E s \in Statuses, location \in Locations :
       /\ Follows(c, s)
       /\ IF /\ io[c].hop < MaxRedirectHops
             /\ SameDomainRedirect(location, wrap[c].req.url.host)
          THEN /\ io' = [io EXCEPT ![c].pc = "draining", ![c].url = location]
               /\ UNCHANGED <<wrap, audit>>
          ELSE Settle(c, Failure("network"))

(* Mutant: the next request goes out without the signal.                   *)
DrainedUnsignalled(c) ==
  /\ io[c].pc = "draining"
  /\ io' = [io EXCEPT ![c].pc = "fetching", ![c].hop = @ + 1]
  /\ UNCHANGED <<wrap, audit>>

(* The body of the 3xx is cancelled; the next request goes out unless the  *)
(* signal was aborted meanwhile, in which case fetch() rejects at once.    *)
Drained(c) ==
  /\ io[c].pc = "draining"
  /\ IF io[c].aborted
     THEN Settle(c, Failure("network"))
     ELSE /\ io' = [io EXCEPT ![c].pc = "fetching", ![c].hop = @ + 1]
          /\ UNCHANGED <<wrap, audit>>

(* Mutant: the timer is cleared once the headers are in.                   *)
HeadersClearTimer(c) ==
  /\ Answerable(c)
  /\ \E s \in Statuses :
       /\ ~Follows(c, s)
       /\ io' = [io EXCEPT ![c].pc = "reading", ![c].status = s, ![c].timer = FALSE]
       /\ UNCHANGED <<wrap, audit>>

(* Any other response: its body is read, unless it is opaque or declares a *)
(* length over the cap.                                                    *)
HeadersArrive(c) ==
  /\ Answerable(c)
  /\ \E s \in Statuses :
       /\ ~Follows(c, s)
       /\ \/ /\ io' = [io EXCEPT ![c].pc = "reading", ![c].status = s]
             /\ UNCHANGED <<wrap, audit>>
          \/ Settle(c, Failure("tooLarge"))

OpaqueRedirect(c) == Answerable(c) /\ Settle(c, Failure("network"))

(* Mutant: the cap is tested before the chunk is counted.                  *)
ChunkCountedLate(c) ==
  /\ io[c].pc = "reading"
  /\ ~io[c].aborted
  /\ \E n \in ChunkSizes :
       IF io[c].total > MaxBytes
       THEN Settle(c, Failure("tooLarge"))
       ELSE /\ io' = [io EXCEPT ![c].total = @ + n]
            /\ UNCHANGED <<wrap, audit>>

ChunkArrives(c) ==
  /\ io[c].pc = "reading"
  /\ ~io[c].aborted
  /\ \E n \in ChunkSizes :
       IF io[c].total + n > MaxBytes
       THEN Settle(c, Failure("tooLarge"))
       ELSE /\ io' = [io EXCEPT ![c].total = @ + n]
            /\ UNCHANGED <<wrap, audit>>

BodyEnds(c) ==
  /\ io[c].pc = "reading"
  /\ ~io[c].aborted
  /\ Settle(c, Result(io[c].status, io[c].total))

(* One timer bounds the attempt, redirects and body included.              *)
Timeout(c) ==
  /\ io[c].timer
  /\ io' = [io EXCEPT ![c].timer = FALSE, ![c].aborted = TRUE]
  /\ UNCHANGED <<wrap, audit>>

(* A request or a read that the abort or the network rejects.              *)
Rejected(c) ==
  /\ io[c].pc \in {"fetching", "reading"}
  /\ Settle(c, Failure("network"))

-----------------------------------------------------------------------------
WrapperStep(c)   == Refuse(c) \/ Admit(c) \/ BackedOff(c) \/ CustomSettles(c)
TransportStep(c) ==
  \/ Redirected(c) \/ Drained(c) \/ HeadersArrive(c) \/ OpaqueRedirect(c)
  \/ ChunkArrives(c) \/ BodyEnds(c) \/ Timeout(c) \/ Rejected(c)

Next == \E c \in Calls : WrapperStep(c) \/ TransportStep(c)

Spec == Init /\ [][Next]_vars

(* Timers fire, and what the runtime has to settle after an abort settles. *)
(* No server is assumed to answer.                                         *)
Fairness ==
  \A c \in Calls :
    /\ WF_vars(Timeout(c))
    /\ WF_vars(BackedOff(c))
    /\ WF_vars(Drained(c))
    /\ WF_vars(io[c].aborted /\ Rejected(c))

FairSpec == Spec /\ Fairness

-----------------------------------------------------------------------------
(* Properties                                                              *)

Requested == Requests \cup {Fresh.req}
Errors    == Typed \cup {"none", "webhook", "network", "tooLarge", "foreignDeny", "exhausted"}
Settled   == [kind : {"result", "error"}, status : {0} \cup Statuses, bytes : Nat, error : Errors]
Urls      == {r.url : r \in Requested} \cup Locations \cup {NoUrl}

WrapStates ==
  [pc : {"idle", "trying", "backoff", "done"}, req : Requested, attempt : 0 .. Retries + 1,
   lastStatus : {0} \cup Statuses, lastError : Errors, outcome : Settled]

IoStates ==
  [pc : {"off", "fetching", "draining", "reading", "custom"}, url : Urls,
   hop : 0 .. MaxRedirectHops, status : {0} \cup Statuses, total : 0 .. MaxBytes,
   timer : BOOLEAN, aborted : BOOLEAN]

Rows == [call : Calls, status : {0} \cup Statuses, bytes : Nat]

(* Types; a transport never buffers more than the cap nor follows more     *)
(* than MaxRedirectHops, and a call makes at most Retries + 1 attempts.    *)
TypeOK ==
  /\ wrap \in [Calls -> WrapStates]
  /\ io \in [Calls -> IoStates]
  /\ audit \in Seq(Rows)

(* No request is out to a host the deny list forbids, for a purpose, with  *)
(* a method or over a protocol the policy refuses, on the first request as *)
(* on every hop and retry; and one that a redirect caused is an Arweave    *)
(* fetch over https that stays with the gateway the caller named.          *)
EgressPolicy ==
  \A c \in Calls : io[c].pc \in {"fetching", "custom"} =>
    LET r == wrap[c].req IN
    /\ ~MatchesDenyList(io[c].url.host)
    /\ r.purpose # "webhook" /\ r.method \in {"GET", "POST"}
    /\ io[c].url.proto \in {"http", "https"}
    /\ io[c].url # r.url =>
         /\ r.purpose = "arweave" /\ io[c].url.proto = "https"
         /\ io[c].url.host = r.url.host \/ Under(io[c].url.host, r.url.host)

(* The places of a call's rows in the shared trail. *)
RowsOf(c)         == {k \in DOMAIN audit : audit[k].call = c}
RetryableRow(row) == row.status \in {0} \cup RetryableStatuses
Finished(c)       == IF wrap[c].pc = "trying" THEN wrap[c].attempt - 1 ELSE wrap[c].attempt
LatestOf(c, k)    == k \in RowsOf(c) /\ \A j \in RowsOf(c) : j <= k

(* A call that is done without an attempt was refused. *)
Refused(c) == wrap[c].attempt = 0

(* The row at k accounts for the outcome of the call it is the last row of. *)
Explains(k, c) ==
  LET w == wrap[c] IN
  CASE w.outcome.kind = "result" ->
         /\ audit[k] = Row(c, w.outcome)
         /\ Retries = 0 \/ w.outcome.status \notin RetryableStatuses
    [] w.outcome.kind # "result" /\ w.outcome.error = "exhausted" ->
         /\ Retries > 0 /\ w.attempt = Retries + 1
         /\ RetryableRow(audit[k])
         /\ audit[k].status \in {0, w.lastStatus}
         /\ w.lastError = "none" => \A j \in RowsOf(c) : audit[j].status # 0
    [] OTHER ->
         /\ audit[k].status = 0
         /\ Refused(c) \/ Retries = 0 \/ w.outcome.error \in Typed

(* The audit trail tells the truth about every call, however calls         *)
(* interleave: one row per attempt, a retry only after a row that calls    *)
(* for one, and an outcome the rows account for.  A refusal the wrapper    *)
(* recognises is never retried or hidden behind an exhaustion.             *)
OutcomeMatchesAudit ==
  \A c \in Calls :
    LET done == wrap[c].pc = "done"
    IN /\ Cardinality(RowsOf(c)) = IF done /\ Refused(c) THEN 1 ELSE Finished(c)
       /\ wrap[c].lastError \notin Typed
       /\ \A k \in RowsOf(c) : RetryableRow(audit[k]) \/ (done /\ LatestOf(c, k))
       /\ done => \E k \in RowsOf(c) : LatestOf(c, k) /\ Explains(k, c)

(* An attempt whose timer has fired sends nothing more.                    *)
NoRequestAfterAbort ==
  [][\A c \in Calls :
       io[c].aborted /\ io'[c].pc = "fetching" => io[c].pc = "fetching" /\ io'[c] = io[c]]_vars

(* A call over the default transport settles whatever the servers do: keep *)
(* silent, redirect for ever, or stall in the middle of a body.            *)
CallSettles ==
  \A c \in Calls :
    wrap[c].pc # "idle" /\ wrap[c].req.transport = "default" ~> wrap[c].pc = "done"

=============================================================================
