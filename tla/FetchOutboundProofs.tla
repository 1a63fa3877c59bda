------------------------- MODULE FetchOutboundProofs -------------------------
(***************************************************************************)
(* Proofs about FetchOutbound: the types with their bounds, the egress     *)
(* policy, that an aborted attempt sends nothing, and that the audit trail *)
(* accounts for every call's outcome, for any number of calls, any deny    *)
(* list and any bounds.                                                    *)
(***************************************************************************)
EXTENDS FetchOutbound, FiniteSetTheorems, TLAPS

(* What is true of a request once the wrapper has admitted it.             *)
Admitted(r) == Refusal(r) = "none"

(* The url a transport works on is the caller's, or one a redirect was     *)
(* allowed to name.                                                        *)
Allowed(url, r) ==
  url = r.url \/ (r.purpose = "arweave" /\ SameDomainRedirect(url, r.url.host))

(* A call and its transport agree on where they are; the counters leave    *)
(* room for the step that comes next.                                      *)
InStep(c) ==
  /\ wrap[c].pc # "trying" => io[c] = IoOff
  /\ wrap[c].pc \in {"trying", "backoff"} => Admitted(wrap[c].req)
  /\ wrap[c].pc = "trying" => Allowed(io[c].url, wrap[c].req)
  /\ wrap[c].pc = "backoff" => wrap[c].attempt <= Retries
  /\ io[c].pc = "draining" => io[c].hop < MaxRedirectHops
  /\ io[c].pc = "custom" => ~io[c].timer /\ ~io[c].aborted
  /\ io[c].aborted => ~io[c].timer

FetchInv == TypeOK /\ \A c \in Calls : InStep(c)

LEMMA ConstantTypes ==
  /\ IoOff \in IoStates
  /\ Pending \in Settled
  /\ Fresh \in WrapStates
  /\ \A r \in Requests : Invoke(r) \in IoStates
  /\ \A s \in Statuses, n \in Nat : Result(s, n) \in Settled
  /\ \A e \in Errors : Failure(e) \in Settled
<1>1. /\ 0 \in 0 .. Retries + 1 /\ 0 \in 0 .. MaxRedirectHops /\ 0 \in 0 .. MaxBytes
      /\ 0 \in Nat
  BY FetchAssumption
<1>2. IoOff \in IoStates
  BY <1>1 DEF IoOff, IoStates, Urls
<1>3. \A e \in Errors : Failure(e) \in Settled
  BY <1>1 DEF Failure, Settled
<1>4. Pending \in Settled
  BY <1>3 DEF Pending, Errors
<1>5. Fresh \in WrapStates
  BY <1>1, <1>4 DEF Fresh, WrapStates, Requested, Errors
<1>6. \A r \in Requests : Invoke(r) \in IoStates
  BY <1>1 DEF Invoke, IoOff, IoStates, Urls, Requested
<1>7. \A s \in Statuses, n \in Nat : Result(s, n) \in Settled
  BY DEF Result, Settled, Errors
<1> QED
  BY <1>2, <1>3, <1>4, <1>5, <1>6, <1>7

(* The retry loop leaves a well-typed call that is no longer trying.       *)
LEMMA AfterAttemptType ==
  ASSUME NEW w \in WrapStates, NEW settled \in Settled
  PROVE  LET v == AfterAttempt(w, settled) IN
         /\ v \in WrapStates
         /\ v.pc \in {"backoff", "done"}
         /\ v.req = w.req
         /\ v.pc = "backoff" => v.attempt <= Retries
<1>1. Failure("exhausted") \in Settled
  BY ConstantTypes DEF Errors
<1>3. settled.status \in {0} \cup Statuses /\ settled.error \in Errors
  BY DEF Settled
<1> DEFINE noted == IF settled.kind = "result"
                    THEN [w EXCEPT !.lastStatus = settled.status]
                    ELSE [w EXCEPT !.lastError = settled.error]
<1>4. noted \in WrapStates /\ noted.req = w.req /\ noted.attempt = w.attempt
  BY <1>3 DEF WrapStates
<1>5. CASE ~Retryable(settled)
  BY <1>5 DEF AfterAttempt, WrapStates
<1>6. CASE Retryable(settled) /\ w.attempt <= Retries
  <2>1. AfterAttempt(w, settled) = [noted EXCEPT !.pc = "backoff"]
    BY <1>6 DEF AfterAttempt
  <2> HIDE DEF noted
  <2> QED
    BY <2>1, <1>4, <1>6 DEF WrapStates
<1>7. CASE Retryable(settled) /\ ~(w.attempt <= Retries)
  <2>1. AfterAttempt(w, settled)
          = [noted EXCEPT !.pc = "done",
                          !.outcome = IF Retries = 0 THEN settled ELSE Failure("exhausted")]
    BY <1>7 DEF AfterAttempt
  <2> HIDE DEF noted
  <2> QED
    BY <2>1, <1>4, <1>1 DEF WrapStates
<1> QED
  BY <1>5, <1>6, <1>7

(* Settling an attempt of a running call keeps the invariant.              *)
LEMMA SettleKeeps ==
  ASSUME FetchInv, NEW c \in Calls, NEW settled \in Settled,
         wrap[c].pc = "trying", Settle(c, settled)
  PROVE  FetchInv'
<1> DEFINE v == AfterAttempt(wrap[c], settled)
<1>1. wrap[c] \in WrapStates
  BY DEF FetchInv, TypeOK
<1>2. /\ v \in WrapStates /\ v.pc \in {"backoff", "done"} /\ v.req = wrap[c].req
      /\ v.pc = "backoff" => v.attempt <= Retries
  BY <1>1, AfterAttemptType
<1>3. wrap' = [wrap EXCEPT ![c] = v] /\ io' = [io EXCEPT ![c] = IoOff]
  BY DEF Settle
<1> HIDE DEF v
<1>4. Row(c, settled) \in Rows
  BY DEF Row, Rows, Settled
<1>5. TypeOK'
  BY <1>2, <1>3, <1>4, ConstantTypes DEF FetchInv, TypeOK, Settle
<1>6. ASSUME NEW d \in Calls PROVE InStep(d)'
  <2>1. CASE d = c
    <3>1. wrap'[c] = v /\ io'[c] = IoOff
      BY <1>3 DEF FetchInv, TypeOK
    <3>2. IoOff.pc = "off" /\ ~IoOff.aborted
      BY DEF IoOff
    <3> QED
      BY <2>1, <3>1, <3>2, <1>2 DEF FetchInv, InStep
  <2>2. CASE d # c
    BY <2>2, <1>3 DEF FetchInv, TypeOK, InStep
  <2> QED
    BY <2>1, <2>2
<1> QED
  BY <1>5, <1>6 DEF FetchInv

(* A step of one transport that leaves the wrapper and the trail alone.    *)
LEMMA IoStepKeeps ==
  ASSUME FetchInv, NEW c \in Calls, NEW v \in IoStates,
         wrap[c].pc = "trying",
         io' = [io EXCEPT ![c] = v], UNCHANGED <<wrap, audit>>,
         Allowed(v.url, wrap[c].req),
         v.pc = "draining" => v.hop < MaxRedirectHops,
         v.pc # "custom",
         v.aborted => ~v.timer
  PROVE  FetchInv'
<1>1. TypeOK'
  BY DEF FetchInv, TypeOK
<1>2. ASSUME NEW d \in Calls PROVE InStep(d)'
  <2>1. CASE d = c
    BY <2>1 DEF FetchInv, TypeOK, InStep
  <2>2. CASE d # c
    BY <2>2 DEF FetchInv, TypeOK, InStep
  <2> QED
    BY <2>1, <2>2
<1> QED
  BY <1>1, <1>2 DEF FetchInv

LEMMA InitKeeps == Init => FetchInv
<1> SUFFICES ASSUME Init PROVE FetchInv
  OBVIOUS
<1>1. TypeOK
  BY ConstantTypes DEF Init, TypeOK
<1>2. ASSUME NEW c \in Calls PROVE InStep(c)
  BY DEF Init, InStep, Fresh, IoOff
<1> QED
  BY <1>1, <1>2 DEF FetchInv

LEMMA WrapperKeeps ==
  ASSUME FetchInv, NEW c \in Calls, WrapperStep(c)
  PROVE  FetchInv'
<1>0. wrap \in [Calls -> WrapStates] /\ io \in [Calls -> IoStates] /\ audit \in Seq(Rows)
  BY DEF FetchInv, TypeOK
<1>1. CASE Refuse(c)
  <2>1. PICK r \in Requests :
          /\ wrap[c].pc = "idle"
          /\ wrap' = [wrap EXCEPT ![c].pc = "done", ![c].req = r,
                                  ![c].outcome = Failure(Refusal(r))]
          /\ audit' = Append(audit, Row(c, Failure(Refusal(r))))
          /\ UNCHANGED io
    BY <1>1 DEF Refuse
  <2>2. Refusal(r) \in Errors
    BY DEF Refusal, Errors, Typed
  <2>3. Failure(Refusal(r)) \in Settled
    BY <2>2, ConstantTypes
  <2>4. Row(c, Failure(Refusal(r))) \in Rows
    BY <2>3 DEF Row, Rows, Settled
  <2>5. r \in Requested
    BY DEF Requested
  <2> DEFINE v == [wrap[c] EXCEPT !.pc = "done", !.req = r, !.outcome = Failure(Refusal(r))]
  <2>6. wrap' \in [Calls -> WrapStates]
    <3>1. v \in WrapStates
      BY <2>3, <2>5, <1>0 DEF WrapStates
    <3>2. wrap' = [wrap EXCEPT ![c] = v]
      BY <2>1, <1>0
    <3> QED
      BY <3>1, <3>2, <1>0
  <2>7. TypeOK'
    BY <2>1, <2>4, <2>6, <1>0 DEF TypeOK
  <2>8. ASSUME NEW d \in Calls PROVE InStep(d)'
    <3>1. CASE d = c
      <4>1. wrap'[c].pc = "done" /\ io'[c] = IoOff /\ IoOff.pc = "off" /\ ~IoOff.aborted
        BY <2>1, <1>0 DEF WrapStates, FetchInv, InStep, IoOff
      <4> QED
        BY <3>1, <4>1 DEF InStep
    <3>2. CASE d # c
      BY <3>2, <2>1, <1>0 DEF FetchInv, InStep
    <3> QED
      BY <3>1, <3>2
  <2> QED
    BY <2>7, <2>8 DEF FetchInv
<1>2. CASE Admit(c)
  <2>1. PICK r \in Requests :
          /\ wrap[c].pc = "idle" /\ Refusal(r) = "none"
          /\ wrap' = [wrap EXCEPT ![c].pc = "trying", ![c].req = r, ![c].attempt = 1]
          /\ io' = [io EXCEPT ![c] = Invoke(r)]
          /\ UNCHANGED audit
    BY <1>2 DEF Admit
  <2>2. r \in Requested /\ 1 \in 0 .. Retries + 1
    BY FetchAssumption DEF Requested
  <2> DEFINE v == [wrap[c] EXCEPT !.pc = "trying", !.req = r, !.attempt = 1]
  <2>3. wrap' \in [Calls -> WrapStates]
    <3>1. v \in WrapStates
      BY <2>2, <1>0 DEF WrapStates
    <3>2. wrap' = [wrap EXCEPT ![c] = v]
      BY <2>1, <1>0
    <3> QED
      BY <3>1, <3>2, <1>0
  <2>4. io' \in [Calls -> IoStates]
    BY <2>1, <1>0, ConstantTypes
  <2>5. TypeOK'
    BY <2>1, <2>3, <2>4, <1>0 DEF TypeOK
  <2>6. ASSUME NEW d \in Calls PROVE InStep(d)'
    <3>1. CASE d = c
      <4>1. wrap'[c].pc = "trying" /\ wrap'[c].req = r /\ io'[c] = Invoke(r)
        BY <2>1, <1>0 DEF WrapStates
      <4>2. /\ Invoke(r).url = r.url /\ Invoke(r).pc # "draining" /\ ~Invoke(r).aborted
            /\ Invoke(r).pc = "custom" => ~Invoke(r).timer
        BY DEF Invoke, IoOff
      <4> QED
        BY <3>1, <4>1, <4>2, <2>1 DEF InStep, Admitted, Allowed
    <3>2. CASE d # c
      BY <3>2, <2>1, <1>0 DEF FetchInv, InStep
    <3> QED
      BY <3>1, <3>2
  <2> QED
    BY <2>5, <2>6 DEF FetchInv
<1>3. CASE BackedOff(c)
  <2> DEFINE r == wrap[c].req
  <2>1. /\ wrap[c].pc = "backoff"
        /\ wrap' = [wrap EXCEPT ![c].pc = "trying", ![c].attempt = @ + 1]
        /\ io' = [io EXCEPT ![c] = Invoke(r)]
        /\ UNCHANGED audit
    BY <1>3 DEF BackedOff
  <2>2. Admitted(r) /\ wrap[c].attempt <= Retries /\ r \in Requested
    BY <2>1, <1>0 DEF FetchInv, InStep, WrapStates
  <2>3. wrap[c].attempt + 1 \in 0 .. Retries + 1
    BY <2>2, <1>0, FetchAssumption DEF WrapStates
  <2> DEFINE v == [wrap[c] EXCEPT !.pc = "trying", !.attempt = wrap[c].attempt + 1]
  <2>4. wrap' \in [Calls -> WrapStates]
    <3>1. v \in WrapStates
      BY <2>3, <1>0 DEF WrapStates
    <3>2. wrap' = [wrap EXCEPT ![c] = v]
      BY <2>1, <1>0
    <3> QED
      BY <3>1, <3>2, <1>0
  <2>5. Invoke(r) \in IoStates
    <3>1. CASE r \in Requests
      BY <3>1, ConstantTypes
    <3>2. CASE r = Fresh.req
      <4>1. r.url = NoUrl /\ r.transport = "default"
        BY <3>2 DEF Fresh
      <4>2. NoUrl \in Urls
        BY DEF Urls
      <4> QED
        BY <4>1, <4>2, ConstantTypes DEF Invoke, IoStates
    <3> QED
      BY <3>1, <3>2, <2>2 DEF Requested
  <2>6. TypeOK'
    BY <2>1, <2>4, <2>5, <1>0 DEF TypeOK
  <2>7. ASSUME NEW d \in Calls PROVE InStep(d)'
    <3>1. CASE d = c
      <4>1. wrap'[c].pc = "trying" /\ wrap'[c].req = r /\ io'[c] = Invoke(r)
        BY <2>1, <1>0 DEF WrapStates
      <4>2. /\ Invoke(r).url = r.url /\ Invoke(r).pc # "draining" /\ ~Invoke(r).aborted
            /\ Invoke(r).pc = "custom" => ~Invoke(r).timer
        BY DEF Invoke, IoOff
      <4> QED
        BY <3>1, <4>1, <4>2, <2>2 DEF InStep, Allowed
    <3>2. CASE d # c
      BY <3>2, <2>1, <1>0 DEF FetchInv, InStep
    <3> QED
      BY <3>1, <3>2
  <2> QED
    BY <2>6, <2>7 DEF FetchInv
<1>4. CASE CustomSettles(c)
  <2>1. wrap[c].pc = "trying"
    BY <1>4 DEF CustomSettles, FetchInv, InStep, IoOff
  <2>2. CASE \E s \in Statuses, n \in ChunkSizes : Settle(c, Result(s, n))
    <3>1. PICK s \in Statuses, n \in ChunkSizes : Settle(c, Result(s, n))
      BY <2>2
    <3>2. Result(s, n) \in Settled
      BY ConstantTypes, FetchAssumption
    <3> QED
      BY <2>1, <3>1, <3>2, SettleKeeps
  <2>3. CASE \E e \in {"network", "tooLarge", "deny", "foreignDeny"} : Settle(c, Failure(e))
    <3>1. PICK e \in {"network", "tooLarge", "deny", "foreignDeny"} : Settle(c, Failure(e))
      BY <2>3
    <3>2. Failure(e) \in Settled
      BY ConstantTypes DEF Errors, Typed
    <3> QED
      BY <2>1, <3>1, <3>2, SettleKeeps
  <2> QED
    BY <1>4, <2>2, <2>3 DEF CustomSettles
<1> QED
  BY <1>1, <1>2, <1>3, <1>4 DEF WrapperStep

LEMMA TransportKeeps ==
  ASSUME FetchInv, NEW c \in Calls, TransportStep(c)
  PROVE  FetchInv'
<1>0. wrap[c] \in WrapStates /\ io \in [Calls -> IoStates] /\ io[c] \in IoStates
  BY DEF FetchInv, TypeOK
<1>1. wrap[c].pc = "trying"
  BY DEF FetchInv, InStep, IoOff, TransportStep, Redirected, Drained, HeadersArrive,
         OpaqueRedirect, ChunkArrives, BodyEnds, Timeout, Rejected, Answerable
<1>2. Allowed(io[c].url, wrap[c].req)
  BY <1>1 DEF FetchInv, InStep
<1>12. io[c].aborted => ~io[c].timer
  BY DEF FetchInv, InStep
<1>3. Failure("network") \in Settled /\ Failure("tooLarge") \in Settled
  BY ConstantTypes DEF Errors
<1>4. CASE Redirected(c)
  <2>1. PICK s \in Statuses, location \in Locations :
          /\ Follows(c, s)
          /\ IF /\ io[c].hop < MaxRedirectHops
                /\ SameDomainRedirect(location, wrap[c].req.url.host)
             THEN /\ io' = [io EXCEPT ![c].pc = "draining", ![c].url = location]
                  /\ UNCHANGED <<wrap, audit>>
             ELSE Settle(c, Failure("network"))
    BY <1>4 DEF Redirected
  <2>2. CASE Settle(c, Failure("network"))
    BY <2>2, <1>1, <1>3, SettleKeeps
  <2>3. CASE /\ io[c].hop < MaxRedirectHops
             /\ SameDomainRedirect(location, wrap[c].req.url.host)
             /\ io' = [io EXCEPT ![c].pc = "draining", ![c].url = location]
             /\ UNCHANGED <<wrap, audit>>
    <3> DEFINE v == [io[c] EXCEPT !.pc = "draining", !.url = location]
    <3>1. /\ v \in IoStates /\ v.url = location /\ v.hop = io[c].hop /\ v.pc = "draining"
          /\ v.aborted => ~v.timer
      BY <1>0, <1>12 DEF IoStates, Urls
    <3>2. io' = [io EXCEPT ![c] = v]
      BY <2>3, <1>0
    <3>3. Allowed(v.url, wrap[c].req)
      BY <2>1, <2>3, <3>1 DEF Allowed, Follows
    <3> HIDE DEF v
    <3> QED
      BY <3>1, <3>2, <3>3, <2>3, <1>1, IoStepKeeps
  <2> QED
    BY <2>1, <2>2, <2>3
<1>5. CASE Drained(c)
  <2>1. CASE Settle(c, Failure("network"))
    BY <2>1, <1>1, <1>3, SettleKeeps
  <2>2. CASE /\ io' = [io EXCEPT ![c].pc = "fetching", ![c].hop = @ + 1]
             /\ UNCHANGED <<wrap, audit>>
    <3> DEFINE v == [io[c] EXCEPT !.pc = "fetching", !.hop = io[c].hop + 1]
    <3>1. io[c].hop < MaxRedirectHops
      BY <1>5 DEF Drained, FetchInv, InStep
    <3>2. io[c].hop + 1 \in 0 .. MaxRedirectHops
      BY <3>1, <1>0, FetchAssumption DEF IoStates
    <3>3. v \in IoStates /\ v.url = io[c].url /\ v.pc = "fetching" /\ (v.aborted => ~v.timer)
      BY <3>2, <1>0, <1>12 DEF IoStates
    <3>4. io' = [io EXCEPT ![c] = v]
      BY <2>2, <1>0
    <3> HIDE DEF v
    <3> QED
      BY <3>3, <3>4, <2>2, <1>1, <1>2, IoStepKeeps
  <2> QED
    BY <1>5, <2>1, <2>2 DEF Drained
<1>6. CASE HeadersArrive(c)
  <2>1. CASE Settle(c, Failure("tooLarge"))
    BY <2>1, <1>1, <1>3, SettleKeeps
  <2>2. CASE \E s \in Statuses :
               /\ io' = [io EXCEPT ![c].pc = "reading", ![c].status = s]
               /\ UNCHANGED <<wrap, audit>>
    <3>1. PICK s \in Statuses :
               /\ io' = [io EXCEPT ![c].pc = "reading", ![c].status = s]
               /\ UNCHANGED <<wrap, audit>>
      BY <2>2
    <3> DEFINE v == [io[c] EXCEPT !.pc = "reading", !.status = s]
    <3>2. v \in IoStates /\ v.url = io[c].url /\ v.pc = "reading" /\ (v.aborted => ~v.timer)
      BY <1>0, <1>12 DEF IoStates
    <3>3. io' = [io EXCEPT ![c] = v]
      BY <3>1, <1>0
    <3> HIDE DEF v
    <3> QED
      BY <3>1, <3>2, <3>3, <1>1, <1>2, IoStepKeeps
  <2> QED
    BY <1>6, <2>1, <2>2 DEF HeadersArrive
<1>7. CASE OpaqueRedirect(c)
  BY <1>7, <1>1, <1>3, SettleKeeps DEF OpaqueRedirect
<1>8. CASE ChunkArrives(c)
  <2>1. PICK n \in ChunkSizes :
          IF io[c].total + n > MaxBytes
          THEN Settle(c, Failure("tooLarge"))
          ELSE /\ io' = [io EXCEPT ![c].total = @ + n]
               /\ UNCHANGED <<wrap, audit>>
    BY <1>8 DEF ChunkArrives
  <2>2. CASE io[c].total + n > MaxBytes
    BY <2>1, <2>2, <1>1, <1>3, SettleKeeps
  <2>3. CASE ~(io[c].total + n > MaxBytes)
    <3> DEFINE v == [io[c] EXCEPT !.total = io[c].total + n]
    <3>1. io[c].total + n \in 0 .. MaxBytes
      BY <2>3, <1>0, FetchAssumption DEF IoStates
    <3>2. v \in IoStates /\ v.url = io[c].url /\ v.pc = io[c].pc /\ (v.aborted => ~v.timer)
      BY <3>1, <1>0, <1>12 DEF IoStates
    <3>3. io' = [io EXCEPT ![c] = v]
      BY <2>1, <2>3, <1>0
    <3>4. io[c].pc = "reading"
      BY <1>8 DEF ChunkArrives
    <3> HIDE DEF v
    <3> QED
      BY <2>1, <2>3, <3>2, <3>3, <3>4, <1>1, <1>2, IoStepKeeps
  <2> QED
    BY <2>2, <2>3
<1>9. CASE BodyEnds(c)
  <2>1. Result(io[c].status, io[c].total) \in Settled
    BY <1>0, FetchAssumption DEF IoStates, Result, Settled, Errors
  <2> QED
    BY <1>9, <2>1, <1>1, SettleKeeps DEF BodyEnds
<1>10. CASE Timeout(c)
  <2> DEFINE v == [io[c] EXCEPT !.timer = FALSE, !.aborted = TRUE]
  <2>1. /\ v \in IoStates /\ v.url = io[c].url /\ v.pc = io[c].pc /\ v.hop = io[c].hop
        /\ ~v.timer
    BY <1>0 DEF IoStates
  <2>2. io' = [io EXCEPT ![c] = v] /\ UNCHANGED <<wrap, audit>>
    BY <1>10, <1>0 DEF Timeout
  <2>3. /\ io[c].pc = "draining" => io[c].hop < MaxRedirectHops
        /\ io[c].pc # "custom"
    BY <1>10 DEF Timeout, FetchInv, InStep
  <2> HIDE DEF v
  <2> QED
    BY <2>1, <2>2, <2>3, <1>1, <1>2, IoStepKeeps
<1>11. CASE Rejected(c)
  BY <1>11, <1>1, <1>3, SettleKeeps DEF Rejected
<1> QED
  BY <1>4, <1>5, <1>6, <1>7, <1>8, <1>9, <1>10, <1>11 DEF TransportStep

(* Where every call is, with its types and bounds, on every behaviour.     *)
THEOREM FetchInvAlways == Spec => []FetchInv
<1>1. Init => FetchInv
  BY InitKeeps
<1>2. FetchInv /\ [Next]_vars => FetchInv'
  <2> SUFFICES ASSUME FetchInv, [Next]_vars PROVE FetchInv'
    OBVIOUS
  <2>1. CASE Next
    BY <2>1, WrapperKeeps, TransportKeeps DEF Next
  <2>2. CASE UNCHANGED vars
    BY <2>2 DEF vars, FetchInv, TypeOK, InStep
  <2> QED
    BY <2>1, <2>2
<1> QED
  BY <1>1, <1>2, PTL DEF Spec

(* A body never exceeds maxBytes, a chain never MAX_REDIRECT_HOPS, a call  *)
(* never retries + 1 attempts.                                             *)
THEOREM FetchTypeCorrect == Spec => []TypeOK
<1>1. FetchInv => TypeOK
  BY DEF FetchInv
<1> QED
  BY <1>1, FetchInvAlways, PTL

(* Whatever the servers answer, wrapFetchOutbound() and the transport's    *)
(* redirects send no request that the policy refuses.                      *)
THEOREM EgressCorrect == Spec => []EgressPolicy
<1>1. FetchInv => EgressPolicy
  <2> SUFFICES ASSUME FetchInv, NEW c \in Calls, io[c].pc \in {"fetching", "custom"}
               PROVE  LET r == wrap[c].req IN
                      /\ ~MatchesDenyList(io[c].url.host)
                      /\ r.purpose # "webhook" /\ r.method \in {"GET", "POST"}
                      /\ io[c].url.proto \in {"http", "https"}
                      /\ io[c].url # r.url =>
                           /\ r.purpose = "arweave" /\ io[c].url.proto = "https"
                           /\ io[c].url.host = r.url.host \/ Under(io[c].url.host, r.url.host)
    BY DEF EgressPolicy
  <2> DEFINE r == wrap[c].req
  <2>1. wrap[c].pc = "trying"
    BY DEF FetchInv, InStep, IoOff
  <2>2. Admitted(r) /\ Allowed(io[c].url, r)
    BY <2>1 DEF FetchInv, InStep
  <2>3. /\ r.purpose # "webhook" /\ r.method \in {"GET", "POST"}
        /\ r.url.proto \in {"http", "https"} /\ ~MatchesDenyList(r.url.host)
    BY <2>2 DEF Admitted, Refusal
  <2>4. CASE io[c].url = r.url
    BY <2>3, <2>4
  <2>5. CASE r.purpose = "arweave" /\ SameDomainRedirect(io[c].url, r.url.host)
    BY <2>3, <2>5 DEF SameDomainRedirect
  <2> QED
    BY <2>2, <2>4, <2>5 DEF Allowed
<1> QED
  BY <1>1, FetchInvAlways, PTL

(* An attempt whose signal is aborted, between two hops above all, sends   *)
(* no further request.                                                     *)
THEOREM AbortCorrect == Spec => NoRequestAfterAbort
<1> DEFINE Quiet ==
      \A c \in Calls :
        io[c].aborted /\ io'[c].pc = "fetching" => io[c].pc = "fetching" /\ io'[c] = io[c]
<1>1. FetchInv /\ [Next]_vars => [Quiet]_vars
  <2> SUFFICES ASSUME FetchInv, Next, NEW c \in Calls, io[c].aborted, io'[c].pc = "fetching"
               PROVE  io[c].pc = "fetching" /\ io'[c] = io[c]
    OBVIOUS
  <2>0. io \in [Calls -> IoStates] /\ IoOff.pc = "off" /\ ~IoOff.aborted
    BY DEF FetchInv, TypeOK, IoOff
  <2>1. wrap[c].pc = "trying"
    BY <2>0 DEF FetchInv, InStep
  <2>2. PICK d \in Calls : WrapperStep(d) \/ TransportStep(d)
    BY DEF Next
  <2>3. CASE d # c
    <3>1. io'[c] = io[c]
      BY <2>0, <2>2, <2>3 DEF WrapperStep, TransportStep, Refuse, Admit, BackedOff, CustomSettles,
         Redirected, Drained, HeadersArrive, OpaqueRedirect, ChunkArrives, BodyEnds, Timeout,
         Rejected, Settle
    <3> QED
      BY <3>1
  <2>4. CASE d = c
    <3>1. \A s : ~Settle(c, s)
      BY <2>0 DEF Settle
    <3>2. ~WrapperStep(c)
      BY <2>1, <3>1 DEF WrapperStep, Refuse, Admit, BackedOff, CustomSettles, FetchInv, InStep
    <3>3. CASE Timeout(c)
      BY <3>3, <2>0 DEF Timeout, FetchInv, InStep
    <3>4. CASE ~Timeout(c)
      BY <3>1, <3>2, <3>4, <2>2, <2>4 DEF TransportStep, Redirected, Drained, HeadersArrive,
         OpaqueRedirect, ChunkArrives, BodyEnds, Rejected, Answerable
    <3> QED
      BY <3>3, <3>4
  <2> QED
    BY <2>3, <2>4
<1> QED
  BY <1>1, FetchInvAlways, PTL DEF Spec, NoRequestAfterAbort

-----------------------------------------------------------------------------
(* The audit trail.                                                        *)

(* What an attempt may settle with: a response, or an error that is not    *)
(* one of the wrapper's verdicts on the whole call.                        *)
AttemptErrors == {"network", "tooLarge", "deny", "foreignDeny"}
Attempted     ==
  {Result(st, n) : st \in Statuses, n \in Nat} \cup {Failure(e) : e \in AttemptErrors}

(* While a call goes on, its rows are its attempts, each of them called    *)
(* for another, and the last error is known as soon as one failed.         *)
GoesOn(c) ==
  /\ wrap[c].attempt \in Nat
  /\ IsFiniteSet(RowsOf(c)) /\ Cardinality(RowsOf(c)) = Finished(c)
  /\ \A k \in RowsOf(c) : RetryableRow(audit[k])
  /\ wrap[c].lastError = "none" => \A k \in RowsOf(c) : audit[k].status # 0

Accounted(c) ==
  /\ wrap[c].lastError \notin Typed
  /\ wrap[c].pc = "idle" => wrap[c].attempt = 0
  /\ wrap[c].pc = "trying" => wrap[c].attempt > 0
  /\ wrap[c].pc # "done" => GoesOn(c)
  /\ io[c].pc = "reading" => io[c].status \in Statuses
  /\ wrap[c].pc = "done" =>
       /\ Cardinality(RowsOf(c)) = IF Refused(c) THEN 1 ELSE wrap[c].attempt
       /\ \A k \in RowsOf(c) : RetryableRow(audit[k]) \/ LatestOf(c, k)
       /\ \E k \in RowsOf(c) : LatestOf(c, k) /\ Explains(k, c)

AuditInv == \A c \in Calls : Accounted(c)

(* A row more in the trail is one row more of its call.                    *)
LEMMA RowAdded ==
  ASSUME TypeOK, NEW c \in Calls, NEW row \in Rows, row.call = c, audit' = Append(audit, row),
         NEW n, n = Len(audit) + 1
  PROVE  /\ RowsOf(c)' = RowsOf(c) \cup {n} /\ n \notin RowsOf(c)
         /\ audit'[n] = row
         /\ \A k \in RowsOf(c) : audit'[k] = audit[k]
         /\ LatestOf(c, n)'
         /\ \A d \in Calls \ {c} :
              /\ RowsOf(d)' = RowsOf(d)
              /\ \A k \in RowsOf(d) : audit'[k] = audit[k]
<1>1. audit \in Seq(Rows) /\ Len(audit) \in Nat
  BY DEF TypeOK
<1>2. /\ DOMAIN audit' = DOMAIN audit \cup {n}
      /\ audit'[n] = row
      /\ \A k \in DOMAIN audit : audit'[k] = audit[k] /\ k <= n
      /\ n \notin DOMAIN audit /\ n \in Nat
  BY <1>1
<1>3. ASSUME NEW d \in Calls
      PROVE  RowsOf(d)' = RowsOf(d) \cup (IF d = c THEN {n} ELSE {})
  BY <1>2 DEF RowsOf
<1>4. \A d \in Calls : \A k \in RowsOf(d) : k \in DOMAIN audit
  BY DEF RowsOf
<1>5. RowsOf(c)' = RowsOf(c) \cup {n} /\ \A k \in RowsOf(c)' : k <= n
  BY <1>2, <1>3, <1>4
<1>6. LatestOf(c, n)'
  BY <1>5 DEF LatestOf
<1>7. ASSUME NEW d \in Calls, d # c
      PROVE  RowsOf(d)' = RowsOf(d) /\ \A k \in RowsOf(d) : audit'[k] = audit[k]
  <2>1. RowsOf(d)' = RowsOf(d)
    BY <1>3, <1>7
  <2> QED
    BY <1>2, <1>4, <2>1
<1> QED
  BY <1>2, <1>4, <1>5, <1>6, <1>7

(* What a call's account rests on does not change while its own record,    *)
(* and its rows, do not.                                                   *)
LEMMA AccountStays ==
  ASSUME NEW c \in Calls, Accounted(c), wrap'[c] = wrap[c],
         RowsOf(c)' = RowsOf(c), \A k \in RowsOf(c) : audit'[k] = audit[k],
         io'[c].pc = "reading" => io'[c].status \in Statuses
  PROVE  Accounted(c)'
<1>1. /\ Finished(c)' = Finished(c) /\ Refused(c)' = Refused(c)
      /\ \A k \in RowsOf(c) : RetryableRow(audit[k])' = RetryableRow(audit[k])
      /\ \A k \in RowsOf(c) : LatestOf(c, k)' = LatestOf(c, k)
  BY DEF Finished, Refused, RetryableRow, LatestOf
<1>2. ASSUME NEW k \in RowsOf(c), Explains(k, c)
      PROVE  Explains(k, c)'
  BY <1>1, <1>2 DEF Explains
<1> QED
  BY <1>1, <1>2 DEF Accounted, GoesOn

LEMMA AttemptedTypes ==
  ASSUME NEW s \in Attempted
  PROVE  s \in Settled
<1>1. \A e \in AttemptErrors : e \in Errors
  BY DEF AttemptErrors, Errors, Typed
<1> QED
  BY <1>1, ConstantTypes DEF Attempted

(* The attempt of a call settles: its row calls for another attempt, or    *)
(* is the one that explains the outcome.                                   *)
LEMMA SettleAccounts ==
  ASSUME FetchInv, AuditInv, NEW c \in Calls, NEW settled \in Attempted,
         wrap[c].pc = "trying", Settle(c, settled)
  PROVE  AuditInv'
<1> DEFINE v == AfterAttempt(wrap[c], settled)
           w == wrap[c]
<1>1. PICK n : n = Len(audit) + 1
  OBVIOUS
<1>2. /\ wrap[c] \in WrapStates /\ settled \in Settled /\ TypeOK
      /\ w.attempt \in 0 .. Retries + 1 /\ w.attempt > 0 /\ w.attempt \in Nat
      /\ w.lastError \notin Typed /\ GoesOn(c)
  BY AttemptedTypes, FetchAssumption DEF FetchInv, TypeOK, AuditInv, Accounted, WrapStates
<1>3. /\ wrap' = [wrap EXCEPT ![c] = v] /\ io' = [io EXCEPT ![c] = IoOff]
      /\ audit' = Append(audit, Row(c, settled))
  BY DEF Settle
<1>4. /\ wrap'[c] = v /\ io'[c] = IoOff /\ IoOff.pc = "off"
      /\ \A d \in Calls \ {c} : wrap'[d] = wrap[d] /\ io'[d] = io[d]
  BY <1>2, <1>3 DEF TypeOK, IoOff
<1>5. /\ Row(c, settled) \in Rows /\ Row(c, settled).call = c
      /\ Row(c, settled).status = settled.status
  BY <1>2 DEF Row, Rows, Settled
<1>6. /\ RowsOf(c)' = RowsOf(c) \cup {n} /\ n \notin RowsOf(c)
      /\ audit'[n] = Row(c, settled)
      /\ \A k \in RowsOf(c) : audit'[k] = audit[k]
      /\ LatestOf(c, n)'
      /\ \A d \in Calls \ {c} :
           RowsOf(d)' = RowsOf(d) /\ \A k \in RowsOf(d) : audit'[k] = audit[k]
  BY <1>1, <1>2, <1>3, <1>5, RowAdded, ZenonT(60)
<1>7. ASSUME NEW d \in Calls, d # c
      PROVE  Accounted(d)'
  <2>1. /\ Accounted(d) /\ wrap'[d] = wrap[d] /\ io'[d] = io[d]
        /\ RowsOf(d)' = RowsOf(d) /\ \A k \in RowsOf(d) : audit'[k] = audit[k]
    BY <1>4, <1>6, <1>7 DEF AuditInv
  <2>2. io'[d].pc = "reading" => io'[d].status \in Statuses
    BY <2>1 DEF Accounted
  <2> QED
    BY <2>1, <2>2, AccountStays
<1>8. /\ IsFiniteSet(RowsOf(c)') /\ Cardinality(RowsOf(c)') = w.attempt
      /\ \A k \in RowsOf(c) : RetryableRow(audit'[k])
      /\ w.lastError = "none" => \A k \in RowsOf(c) : audit'[k].status # 0
  <2>1. /\ IsFiniteSet(RowsOf(c)) /\ Cardinality(RowsOf(c)) = w.attempt - 1
        /\ \A k \in RowsOf(c) : RetryableRow(audit[k])
        /\ w.lastError = "none" => \A k \in RowsOf(c) : audit[k].status # 0
    BY <1>2 DEF GoesOn, Finished
  <2>2. /\ IsFiniteSet(RowsOf(c) \cup {n})
        /\ Cardinality(RowsOf(c) \cup {n}) = Cardinality(RowsOf(c)) + 1
    BY <1>6, <2>1, FS_AddElement
  <2> QED
    BY <1>2, <1>6, <2>1, <2>2
<1>9. \A k \in RowsOf(c)' : RetryableRow(audit[k])' \/ LatestOf(c, k)'
  BY <1>6, <1>8 DEF RetryableRow
<1>10. /\ settled.kind \in {"result", "error"}
       /\ settled.kind = "result" => settled.status \in Statuses /\ settled.status # 0
       /\ settled.kind = "error" => /\ settled.status = 0 /\ settled.error \in AttemptErrors
                                    /\ settled.error \notin {"none", "exhausted"}
       /\ settled.error \in Typed \/ settled.error \notin Typed
  <2>1. CASE \E st \in Statuses, m \in Nat : settled = Result(st, m)
    BY <2>1, FetchAssumption DEF Result
  <2>2. CASE \E e \in AttemptErrors : settled = Failure(e)
    BY <2>2 DEF Failure, AttemptErrors
  <2> QED
    BY <2>1, <2>2 DEF Attempted
<1> DEFINE noted == IF settled.kind = "result"
                    THEN [w EXCEPT !.lastStatus = settled.status]
                    ELSE [w EXCEPT !.lastError = settled.error]
<1>11. /\ noted.attempt = w.attempt
       /\ settled.kind = "result" =>
            noted.lastError = w.lastError /\ noted.lastStatus = settled.status
       /\ settled.kind = "error" => noted.lastError = settled.error
  BY <1>2, <1>10 DEF WrapStates
<1>12. CASE ~Retryable(settled)
  <2>1. v = [w EXCEPT !.pc = "done", !.outcome = settled]
    BY <1>12 DEF AfterAttempt
  <2>2. /\ v.pc = "done" /\ v.outcome = settled /\ v.attempt = w.attempt
        /\ v.lastError = w.lastError
    BY <1>2, <2>1 DEF WrapStates
  <2> HIDE DEF v, w
  <2>3. Explains(n, c)'
    <3>1. CASE settled.kind = "result"
      <4>1. Retries = 0 \/ settled.status \notin RetryableStatuses
        BY <1>12, <3>1, FetchAssumption DEF Retryable
      <4> QED
        BY <1>4, <1>6, <2>2, <3>1, <4>1 DEF Explains
    <3>2. CASE settled.kind # "result"
      <4>1. settled.error \in Typed /\ settled.status = 0 /\ settled.error # "exhausted"
        BY <1>10, <1>12, <3>2 DEF Retryable
      <4>2. audit'[n].status = 0
        BY <1>5, <1>6, <4>1
      <4> QED
        BY <1>4, <2>2, <3>2, <4>1, <4>2 DEF Explains
    <3> QED
      BY <3>1, <3>2
  <2>4. Accounted(c)'
    BY <1>2, <1>4, <1>6, <1>8, <1>9, <2>2, <2>3 DEF Accounted, Refused, w
  <2> QED
    BY <1>7, <2>4 DEF AuditInv
<1>13. CASE Retryable(settled)
  <2>1. /\ noted.lastError \notin Typed
        /\ settled.status \in {0} \cup RetryableStatuses
        /\ settled.kind = "result" => Retries > 0
    BY <1>2, <1>10, <1>11, <1>13 DEF Retryable
  <2>2. /\ RetryableRow(audit'[n])
        /\ noted.lastError = "none" => \A k \in RowsOf(c)' : audit'[k].status # 0
    <3>1. audit'[n].status = settled.status
      BY <1>5, <1>6
    <3>2. noted.lastError = "none" => w.lastError = "none" /\ settled.status # 0
      BY <1>10, <1>11
    <3> HIDE DEF noted
    <3> QED
      BY <1>6, <1>8, <2>1, <3>1, <3>2 DEF RetryableRow
  <2>3. CASE w.attempt <= Retries
    <3>1. v = [noted EXCEPT !.pc = "backoff"]
      BY <1>13, <2>3 DEF AfterAttempt
    <3>2. v.pc = "backoff" /\ v.attempt = w.attempt /\ v.lastError = noted.lastError
      <4>1. v.pc = "backoff"
        BY <1>2, <3>1 DEF WrapStates
      <4>2. v.attempt = noted.attempt /\ v.lastError = noted.lastError
        BY <3>1 DEF WrapStates
      <4> QED
        BY <1>11, <4>1, <4>2
    <3> HIDE DEF v, noted
    <3>3. GoesOn(c)'
      BY <1>2, <1>4, <1>6, <1>8, <2>2, <3>2 DEF GoesOn, Finished, RetryableRow
    <3> QED
      BY <1>4, <2>1, <3>2, <3>3, <1>7 DEF Accounted, AuditInv
  <2>4. CASE ~(w.attempt <= Retries)
    <3> DEFINE outcome == IF Retries = 0 THEN settled ELSE Failure("exhausted")
    <3>1. v = [noted EXCEPT !.pc = "done", !.outcome = outcome]
      BY <1>13, <2>4 DEF AfterAttempt
    <3>2. noted \in WrapStates
      BY <1>2, <1>10 DEF WrapStates, Settled
    <3>3. /\ v.pc = "done" /\ v.attempt = w.attempt /\ v.lastError = noted.lastError
          /\ v.lastStatus = noted.lastStatus /\ v.outcome = outcome
      <4> HIDE DEF noted
      <4> QED
        BY <1>11, <3>1, <3>2 DEF WrapStates
    <3>4. w.attempt = Retries + 1
      BY <1>2, <2>4, FetchAssumption
    <3>5. settled.kind = "result" => noted.lastStatus = settled.status
      BY <1>11
    <3> HIDE DEF v, noted, w
    <3>6. Explains(n, c)'
      <4>1. audit'[n].status = settled.status /\ Retries \in Nat
        BY <1>5, <1>6, FetchAssumption
      <4>2. CASE Retries = 0
        <5>1. settled.kind = "error" /\ settled.error # "exhausted" /\ settled.status = 0
          BY <1>10, <2>1, <4>2
        <5>2. v.outcome = settled
          BY <3>3, <4>2
        <5> QED
          BY <1>4, <4>1, <4>2, <5>1, <5>2 DEF Explains
      <4>3. CASE Retries # 0
        <5>1. v.outcome.kind = "error" /\ v.outcome.error = "exhausted"
          BY <3>3, <4>3 DEF Failure
        <5>2. settled.status \in {0, v.lastStatus}
          BY <1>10, <3>3, <3>5
        <5> QED
          BY <1>4, <2>2, <3>3, <3>4, <4>1, <4>3, <5>1, <5>2 DEF Explains, RetryableRow
      <4> QED
        BY <4>2, <4>3
    <3>7. Accounted(c)'
      BY <1>2, <1>4, <1>6, <1>8, <1>9, <2>1, <3>3, <3>6 DEF Accounted, Refused, w
    <3> QED
      BY <1>7, <3>7 DEF AuditInv
  <2> QED
    BY <2>3, <2>4
<1> QED
  BY <1>12, <1>13

(* A call with its own record and rows as they were, however its transport *)
(* or the other calls moved.                                               *)
LEMMA OthersAccount ==
  ASSUME FetchInv, AuditInv, NEW c \in Calls, Accounted(c)',
         \A d \in Calls \ {c} :
           /\ wrap'[d] = wrap[d] /\ io'[d] = io[d] /\ RowsOf(d)' = RowsOf(d)
           /\ \A k \in RowsOf(d) : audit'[k] = audit[k]
  PROVE  AuditInv'
<1>1. ASSUME NEW d \in Calls, d # c
      PROVE  Accounted(d)'
  <2>1. /\ Accounted(d) /\ wrap'[d] = wrap[d] /\ io'[d] = io[d]
        /\ RowsOf(d)' = RowsOf(d) /\ \A k \in RowsOf(d) : audit'[k] = audit[k]
    BY <1>1 DEF AuditInv
  <2>2. io'[d].pc = "reading" => io'[d].status \in Statuses
    BY <2>1 DEF Accounted
  <2> QED
    BY <2>1, <2>2, AccountStays
<1> QED
  BY <1>1 DEF AuditInv

LEMMA WrapperAccounts ==
  ASSUME FetchInv, AuditInv, NEW c \in Calls, WrapperStep(c)
  PROVE  AuditInv'
<1>0. /\ wrap \in [Calls -> WrapStates] /\ io \in [Calls -> IoStates] /\ TypeOK
      /\ wrap[c] \in WrapStates /\ Accounted(c)
      /\ wrap[c].pc # "trying" => io[c] = IoOff
  BY DEF FetchInv, TypeOK, AuditInv, InStep
<1>1. CASE Refuse(c)
  <2>1. PICK r \in Requests :
          /\ wrap[c].pc = "idle"
          /\ wrap' = [wrap EXCEPT ![c].pc = "done", ![c].req = r,
                                  ![c].outcome = Failure(Refusal(r))]
          /\ audit' = Append(audit, Row(c, Failure(Refusal(r))))
          /\ UNCHANGED io
    BY <1>1 DEF Refuse
  <2> DEFINE row == Row(c, Failure(Refusal(r)))
  <2>2. Refusal(r) \in Errors /\ Refusal(r) # "exhausted"
    BY DEF Refusal, Errors, Typed
  <2>3. /\ row \in Rows /\ row.call = c /\ row.status = 0
        /\ audit' = Append(audit, row)
    BY <2>1 DEF Row, Rows, Failure
  <2>4. PICK n : n = Len(audit) + 1
    OBVIOUS
  <2> HIDE DEF row
  <2>5. /\ RowsOf(c)' = RowsOf(c) \cup {n} /\ audit'[n] = row
        /\ LatestOf(c, n)'
        /\ \A d \in Calls \ {c} :
             RowsOf(d)' = RowsOf(d) /\ \A k \in RowsOf(d) : audit'[k] = audit[k]
    BY <1>0, <2>3, <2>4, RowAdded, ZenonT(60)
  <2>6. /\ wrap'[c].pc = "done" /\ wrap'[c].attempt = wrap[c].attempt
        /\ wrap'[c].outcome = Failure(Refusal(r)) /\ wrap'[c].lastError = wrap[c].lastError
        /\ \A d \in Calls \ {c} : wrap'[d] = wrap[d] /\ io'[d] = io[d]
    BY <1>0, <2>1 DEF WrapStates
  <2>7. /\ wrap[c].attempt = 0 /\ wrap[c].lastError \notin Typed
        /\ IsFiniteSet(RowsOf(c)) /\ Cardinality(RowsOf(c)) = 0
    BY <1>0, <2>1 DEF Accounted, GoesOn, Finished
  <2>8. RowsOf(c) = {}
    BY <2>7, FS_EmptySet
  <2>9. RowsOf(c)' = {n} /\ Cardinality(RowsOf(c)') = 1
    <3>1. RowsOf(c)' = {n}
      BY <2>5, <2>8
    <3>2. Cardinality({n}) = 1
      BY FS_Singleton
    <3> QED
      BY <3>1, <3>2
  <2>10. Explains(n, c)'
    BY <2>2, <2>3, <2>5, <2>6, <2>7 DEF Explains, Failure, Refused
  <2>11. io'[c].pc # "reading"
    BY <1>0, <2>1 DEF IoOff
  <2>12. Accounted(c)'
    BY <2>5, <2>6, <2>7, <2>9, <2>10, <2>11 DEF Accounted, Refused
  <2> QED
    BY <2>5, <2>6, <2>12, OthersAccount
<1>2. CASE Admit(c) \/ BackedOff(c)
  <2>1. PICK r, m :
          /\ \/ wrap[c].pc = "idle" /\ m = 1
             \/ wrap[c].pc = "backoff" /\ m = wrap[c].attempt + 1
          /\ wrap' = [wrap EXCEPT ![c] = [wrap[c] EXCEPT !.pc = "trying", !.req = r, !.attempt = m]]
          /\ io' = [io EXCEPT ![c] = Invoke(r)]
          /\ UNCHANGED audit
    <3>1. CASE Admit(c)
      <4>1. PICK r \in Requests :
              /\ wrap[c].pc = "idle"
              /\ wrap' = [wrap EXCEPT ![c].pc = "trying", ![c].req = r, ![c].attempt = 1]
              /\ io' = [io EXCEPT ![c] = Invoke(r)]
              /\ UNCHANGED audit
        BY <3>1 DEF Admit
      <4>2. wrap' = [wrap EXCEPT ![c] = [wrap[c] EXCEPT !.pc = "trying", !.req = r, !.attempt = 1]]
        BY <1>0, <4>1
      <4> QED
        BY <4>1, <4>2
    <3>2. CASE BackedOff(c)
      <4>1. /\ wrap[c].pc = "backoff"
            /\ wrap' = [wrap EXCEPT ![c].pc = "trying", ![c].attempt = @ + 1]
            /\ io' = [io EXCEPT ![c] = Invoke(wrap[c].req)]
            /\ UNCHANGED audit
        BY <3>2 DEF BackedOff
      <4>2. [wrap[c] EXCEPT !.pc = "trying", !.attempt = wrap[c].attempt + 1]
              = [wrap[c] EXCEPT !.pc = "trying", !.req = wrap[c].req,
                                !.attempt = wrap[c].attempt + 1]
        BY <1>0 DEF WrapStates
      <4>3. wrap' = [wrap EXCEPT ![c] = [wrap[c] EXCEPT !.pc = "trying", !.req = wrap[c].req,
                                                        !.attempt = wrap[c].attempt + 1]]
        BY <1>0, <4>1, <4>2
      <4> QED
        BY <4>1, <4>3
    <3> QED
      BY <1>2, <3>1, <3>2
  <2>2. /\ wrap'[c].pc = "trying" /\ wrap'[c].attempt = m
        /\ wrap'[c].lastError = wrap[c].lastError
        /\ io'[c].pc # "reading"
        /\ \A d \in Calls \ {c} : wrap'[d] = wrap[d] /\ io'[d] = io[d]
    BY <1>0, <2>1 DEF WrapStates, Invoke, IoOff
  <2>3. RowsOf(c)' = RowsOf(c) /\ \A d \in Calls : RowsOf(d)' = RowsOf(d)
    BY <2>1 DEF RowsOf
  <2>4. /\ GoesOn(c) /\ wrap[c].lastError \notin Typed /\ wrap[c].attempt \in Nat
        /\ m = wrap[c].attempt + 1 /\ Finished(c) = wrap[c].attempt
    BY <1>0, <2>1 DEF Accounted, GoesOn, Finished
  <2>5. GoesOn(c)'
    BY <2>1, <2>2, <2>3, <2>4 DEF GoesOn, Finished, RetryableRow
  <2>6. Accounted(c)'
    BY <2>2, <2>4, <2>5 DEF Accounted
  <2> QED
    BY <2>1, <2>2, <2>3, <2>6, OthersAccount
<1>3. CASE CustomSettles(c)
  <2>1. wrap[c].pc = "trying"
    BY <1>0, <1>3 DEF CustomSettles, IoOff
  <2>2. PICK settled \in Attempted : Settle(c, settled)
    BY <1>3, FetchAssumption DEF CustomSettles, Attempted, AttemptErrors
  <2> QED
    BY <2>1, <2>2, SettleAccounts
<1> QED
  BY <1>1, <1>2, <1>3 DEF WrapperStep

LEMMA TransportAccounts ==
  ASSUME FetchInv, AuditInv, NEW c \in Calls, TransportStep(c)
  PROVE  AuditInv'
<1>0. /\ io \in [Calls -> IoStates] /\ io[c] \in IoStates /\ Accounted(c)
  BY DEF FetchInv, TypeOK, AuditInv
<1>1. wrap[c].pc = "trying"
  BY DEF FetchInv, InStep, IoOff, TransportStep, Redirected, Drained, HeadersArrive,
         OpaqueRedirect, ChunkArrives, BodyEnds, Timeout, Rejected, Answerable
<1>2. Failure("network") \in Attempted /\ Failure("tooLarge") \in Attempted
  BY DEF Attempted, AttemptErrors
<1>3. ASSUME NEW v \in IoStates, io' = [io EXCEPT ![c] = v], UNCHANGED <<wrap, audit>>,
             v.pc = "reading" => v.status \in Statuses
      PROVE  AuditInv'
  <2>1. \A d \in Calls : RowsOf(d)' = RowsOf(d)
    BY <1>3 DEF RowsOf
  <2>2. io'[c] = v /\ \A d \in Calls \ {c} : io'[d] = io[d]
    BY <1>0, <1>3
  <2>3. Accounted(c)'
    BY <1>0, <1>3, <2>1, <2>2, AccountStays
  <2> QED
    BY <1>3, <2>1, <2>2, <2>3, OthersAccount
<1>4. io[c].pc = "reading" => io[c].status \in Statuses
  BY <1>0 DEF Accounted
<1>5. CASE \E e \in {"network", "tooLarge"} : Settle(c, Failure(e))
  BY <1>1, <1>2, <1>5, SettleAccounts
<1>6. CASE Redirected(c) /\ ~\E e \in {"network", "tooLarge"} : Settle(c, Failure(e))
  <2>1. PICK location \in Locations :
          /\ io' = [io EXCEPT ![c].pc = "draining", ![c].url = location]
          /\ UNCHANGED <<wrap, audit>>
    BY <1>6 DEF Redirected
  <2> DEFINE v == [io[c] EXCEPT !.pc = "draining", !.url = location]
  <2>2. v \in IoStates /\ v.pc = "draining" /\ io' = [io EXCEPT ![c] = v]
    BY <1>0, <2>1 DEF IoStates, Urls
  <2> HIDE DEF v
  <2> QED
    BY <1>3, <2>1, <2>2
<1>7. CASE Drained(c) /\ ~\E e \in {"network", "tooLarge"} : Settle(c, Failure(e))
  <2> DEFINE v == [io[c] EXCEPT !.pc = "fetching", !.hop = io[c].hop + 1]
  <2>1. io' = [io EXCEPT ![c].pc = "fetching", ![c].hop = @ + 1] /\ UNCHANGED <<wrap, audit>>
    BY <1>7 DEF Drained
  <2>2. io[c].hop + 1 \in 0 .. MaxRedirectHops
    BY <1>0, <1>7, FetchAssumption DEF Drained, FetchInv, InStep, IoStates
  <2>3. v \in IoStates /\ v.pc = "fetching" /\ io' = [io EXCEPT ![c] = v]
    BY <1>0, <2>1, <2>2 DEF IoStates
  <2> HIDE DEF v
  <2> QED
    BY <1>3, <2>1, <2>3
<1>8. CASE HeadersArrive(c) /\ ~\E e \in {"network", "tooLarge"} : Settle(c, Failure(e))
  <2>1. PICK s \in Statuses :
          /\ io' = [io EXCEPT ![c].pc = "reading", ![c].status = s]
          /\ UNCHANGED <<wrap, audit>>
    BY <1>8 DEF HeadersArrive
  <2> DEFINE v == [io[c] EXCEPT !.pc = "reading", !.status = s]
  <2>2. v \in IoStates /\ v.status = s /\ io' = [io EXCEPT ![c] = v]
    BY <1>0, <2>1 DEF IoStates
  <2> HIDE DEF v
  <2> QED
    BY <1>3, <2>1, <2>2
<1>9. CASE ChunkArrives(c) /\ ~\E e \in {"network", "tooLarge"} : Settle(c, Failure(e))
  <2>1. PICK n \in ChunkSizes :
          /\ ~(io[c].total + n > MaxBytes)
          /\ io' = [io EXCEPT ![c].total = @ + n]
          /\ UNCHANGED <<wrap, audit>>
    BY <1>9 DEF ChunkArrives
  <2> DEFINE v == [io[c] EXCEPT !.total = io[c].total + n]
  <2>2. io[c].total + n \in 0 .. MaxBytes
    BY <1>0, <2>1, FetchAssumption DEF IoStates
  <2>3. v \in IoStates /\ v.status = io[c].status /\ io' = [io EXCEPT ![c] = v]
    BY <1>0, <2>1, <2>2 DEF IoStates
  <2>4. v.status \in Statuses
    BY <1>4, <1>9, <2>3 DEF ChunkArrives
  <2> HIDE DEF v
  <2> QED
    BY <1>3, <2>1, <2>3, <2>4
<1>10. CASE BodyEnds(c)
  <2>1. io[c].status \in Statuses /\ io[c].total \in Nat
    BY <1>0, <1>4, <1>10, FetchAssumption DEF BodyEnds, IoStates
  <2>2. Result(io[c].status, io[c].total) \in Attempted
    BY <2>1 DEF Attempted
  <2> QED
    BY <1>1, <1>10, <2>2, SettleAccounts DEF BodyEnds
<1>11. CASE Timeout(c)
  <2> DEFINE v == [io[c] EXCEPT !.timer = FALSE, !.aborted = TRUE]
  <2>1. /\ v \in IoStates /\ v.pc = io[c].pc /\ v.status = io[c].status
        /\ io' = [io EXCEPT ![c] = v] /\ UNCHANGED <<wrap, audit>>
    BY <1>0, <1>11 DEF Timeout, IoStates
  <2> HIDE DEF v
  <2> QED
    BY <1>3, <1>4, <2>1
<1> QED
  BY <1>5, <1>6, <1>7, <1>8, <1>9, <1>10, <1>11
     DEF TransportStep, OpaqueRedirect, Rejected

(* Every call's rows, and the outcome they account for, on every behaviour *)
(* of any number of concurrent calls (the retry loop and recordEntry() of  *)
(* wrapFetchOutbound()).                                                   *)
THEOREM AuditInvAlways == Spec => []AuditInv
<1>1. Init => AuditInv
  <2> SUFFICES ASSUME Init, NEW c \in Calls PROVE Accounted(c)
    BY DEF AuditInv
  <2>1. /\ wrap[c].pc = "idle" /\ wrap[c].attempt = 0 /\ wrap[c].lastError = "none"
        /\ io[c].pc = "off" /\ RowsOf(c) = {}
    BY DEF Init, Fresh, IoOff, RowsOf
  <2>2. IsFiniteSet(RowsOf(c)) /\ Cardinality(RowsOf(c)) = 0
    BY <2>1, FS_EmptySet
  <2> QED
    BY <2>1, <2>2 DEF Accounted, GoesOn, Finished, Typed
<1>2. FetchInv /\ AuditInv /\ [Next]_vars => AuditInv'
  <2> SUFFICES ASSUME FetchInv, AuditInv, [Next]_vars PROVE AuditInv'
    OBVIOUS
  <2>1. CASE Next
    BY <2>1, WrapperAccounts, TransportAccounts DEF Next
  <2>2. CASE UNCHANGED vars
    <3>1. UNCHANGED <<wrap, io, audit>> /\ \A c \in Calls : RowsOf(c)' = RowsOf(c)
      BY <2>2 DEF vars, RowsOf
    <3>2. \A c \in Calls : Accounted(c) /\ (io[c].pc = "reading" => io[c].status \in Statuses)
      BY DEF AuditInv, Accounted
    <3> QED
      BY <3>1, <3>2, AccountStays DEF AuditInv
  <2> QED
    BY <2>1, <2>2
<1> QED
  BY <1>1, <1>2, FetchInvAlways, PTL DEF Spec

(* The shared audit trail tells the truth about each of the calls that     *)
(* write to it: a row per attempt, no retry that its row did not call for, *)
(* and no verdict of the policy retried or hidden.                         *)
THEOREM AuditCorrect == Spec => []OutcomeMatchesAudit
<1>1. FetchInv /\ AuditInv => OutcomeMatchesAudit
  <2> SUFFICES ASSUME FetchInv, AuditInv, NEW c \in Calls
               PROVE  OutcomeMatchesAudit!(c)
    BY DEF OutcomeMatchesAudit
  <2>1. Accounted(c) /\ wrap[c].pc \in {"idle", "trying", "backoff", "done"}
    BY DEF FetchInv, AuditInv, TypeOK, WrapStates
  <2>2. CASE wrap[c].pc = "done"
    BY <2>1, <2>2 DEF Accounted, Finished
  <2>3. CASE wrap[c].pc # "done"
    BY <2>1, <2>3 DEF Accounted, GoesOn
  <2> QED
    BY <2>2, <2>3
<1> QED
  BY <1>1, FetchInvAlways, AuditInvAlways, PTL

=============================================================================
