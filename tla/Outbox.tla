------------------------------- MODULE Outbox -------------------------------
(***************************************************************************)
(* What publish() and publish_batch() promise about one call c of Size[c]  *)
(* messages: they reach the broker in their order and without a gap, the   *)
(* next one is attempted only when the broker has accepted the one before, *)
(* a call that returns has had all of them accepted, and after a failure   *)
(* at most one message is in doubt.  It may still be accepted later.       *)
(***************************************************************************)
EXTENDS Naturals

CONSTANTS Calls, Size

VARIABLES
  attempted,  \* attempted[c]: messages handed to the driver
  accepted,   \* accepted[c]: messages the broker has
  result      \* result[c]: "none", "returned", or which kind of error

ovars == <<attempted, accepted, result>>

Init ==
  /\ attempted = [c \in Calls |-> 0]
  /\ accepted = [c \in Calls |-> 0]
  /\ result = [c \in Calls |-> "none"]

Attempt(c) ==
  /\ result[c] = "none"
  /\ attempted[c] = accepted[c] /\ attempted[c] < Size[c]
  /\ attempted' = [attempted EXCEPT ![c] = @ + 1]
  /\ UNCHANGED <<accepted, result>>

(* Accepted, and the call goes on to the next message, if it does.         *)
AcceptThenAttempt(c) ==
  /\ result[c] = "none"
  /\ accepted[c] < attempted[c] /\ attempted[c] < Size[c]
  /\ accepted' = [accepted EXCEPT ![c] = @ + 1]
  /\ attempted' = [attempted EXCEPT ![c] = @ + 1]
  /\ UNCHANGED result

Accept(c) ==
  /\ accepted[c] < attempted[c]
  /\ accepted' = [accepted EXCEPT ![c] = @ + 1]
  /\ UNCHANGED <<attempted, result>>

(* Ends the call, with the acceptance of its last message or without.      *)
Return(c) ==
  /\ result[c] = "none"
  /\ \/ UNCHANGED accepted
     \/ accepted[c] < attempted[c] /\ accepted' = [accepted EXCEPT ![c] = @ + 1]
  /\ accepted'[c] = Size[c]
  /\ result' = [result EXCEPT ![c] = "returned"]
  /\ UNCHANGED attempted

Raise(c) ==
  /\ result[c] = "none"
  /\ \/ UNCHANGED accepted
     \/ accepted[c] < attempted[c] /\ accepted' = [accepted EXCEPT ![c] = @ + 1]
  /\ \E error \in {"raised", "builtin"} : result' = [result EXCEPT ![c] = error]
  /\ UNCHANGED attempted

Next ==
  \E c \in Calls :
    Attempt(c) \/ AcceptThenAttempt(c) \/ Accept(c) \/ Return(c) \/ Raise(c)

Spec == Init /\ [][Next]_ovars
=============================================================================
