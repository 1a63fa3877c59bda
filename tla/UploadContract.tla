--------------------------- MODULE UploadContract ---------------------------
(***************************************************************************)
(* What a caller of uploadResumable() may rely on, with the sessions,      *)
(* lanes and retries left out.  A call that returns names content that is  *)
(* stored when it returns.  A call that throws says nothing: its content   *)
(* may be stored already, or be stored later.  Storage is never undone,    *)
(* and holds nothing but content that some call asked for.                 *)
(***************************************************************************)
CONSTANTS Calls, Contents

VARIABLES
  outcome,  \* "idle", "running", "ok" or "failed" for each call
  result,   \* the content a call that returned names
  wanted,   \* the contents the calls have asked the gateway for
  stored

vars == <<outcome, result, wanted, stored>>

Init ==
  /\ outcome = [c \in Calls |-> "idle"]
  /\ result = [c \in Calls |-> 0]
  /\ wanted = {}
  /\ stored = {}

Begin(c) ==
  /\ outcome[c] = "idle"
  /\ outcome' = [outcome EXCEPT ![c] = "running"]
  /\ \/ \E x \in Contents : wanted' = wanted \cup {x}
     \/ UNCHANGED wanted
  /\ UNCHANGED <<result, stored>>

Store(x) ==
  /\ x \in wanted
  /\ stored' = stored \cup {x}

Return(c, x) ==
  /\ outcome[c] = "running"
  /\ x \in stored'
  /\ outcome' = [outcome EXCEPT ![c] = "ok"]
  /\ result' = [result EXCEPT ![c] = x]

Fail(c) ==
  /\ outcome[c] = "running"
  /\ outcome' = [outcome EXCEPT ![c] = "failed"]
  /\ UNCHANGED result

Next ==
  \/ \E c \in Calls : Begin(c)
  \/ \E x \in Contents : Store(x) /\ UNCHANGED <<outcome, result, wanted>>
  \/ \E c \in Calls, x \in Contents :
       /\ Store(x) \/ UNCHANGED stored
       /\ Return(c, x) \/ Fail(c)
       /\ UNCHANGED wanted

Spec == Init /\ [][Next]_vars

=============================================================================
