---------------------------- MODULE AtLeastOnce ----------------------------
(***************************************************************************)
(* What a queue consumer promises its application, whatever the broker:    *)
(* the broker stops owing a message only after a handler returned for it.  *)
(* Handling twice is allowed, losing is not.  A consumer may give up on    *)
(* the messages of MayGiveUp, but only after trying: with MayGiveUp empty  *)
(* this is at-least-once delivery.                                         *)
(***************************************************************************)
CONSTANTS
  Messages,
  MayGiveUp  \* messages that may be dropped after a failed attempt

VARIABLES
  owed,     \* messages the broker still has to deliver (again)
  handled,  \* messages whose handler has returned at least once
  failed    \* messages an attempt has failed on

vars == <<owed, handled, failed>>

TypeOK == /\ owed \subseteq Messages
          /\ handled \subseteq Messages
          /\ failed \subseteq Messages

Init == /\ owed = Messages
        /\ handled = {}
        /\ failed = {}

Handle(m) == /\ handled' = handled \union {m}
             /\ UNCHANGED <<owed, failed>>

Fail(m) == /\ m \in MayGiveUp
           /\ failed' = failed \union {m}
           /\ UNCHANGED <<owed, handled>>

Settle(S) == /\ S \subseteq handled \union failed
             /\ owed' = owed \ S
             /\ UNCHANGED <<handled, failed>>

Next == \/ \E m \in Messages : Handle(m) \/ Fail(m)
        \/ \E S \in SUBSET owed : Settle(S)

Spec == Init /\ [][Next]_vars
=============================================================================
