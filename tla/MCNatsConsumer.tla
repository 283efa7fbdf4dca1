--------------------------- MODULE MCNatsConsumer ---------------------------
(***************************************************************************)
(* The instance of NatsConsumer that TLC checks: two messages, one of      *)
(* which may fail, and two deliveries, so that a message can be given up;  *)
(* two sessions and two closers, so that a close() can reach into a later  *)
(* session and race another close().                                       *)
(***************************************************************************)
EXTENDS NatsConsumer

CONSTANTS m1, m2, c1, c2

MCMessages == {m1, m2}
MCMayFail == {m1}
MCClosers == {c1, c2}
=============================================================================
