-------------------------- MODULE MCKafkaConsumer --------------------------
(***************************************************************************)
(* The instance of KafkaConsumer that TLC checks.  Three offsets: one      *)
(* whose handler may raise, one whose payload cannot be decoded, one that  *)
(* is always good, so that a good message follows each kind of failure.    *)
(* Two sessions and two closers let a close() of the first session overlap *)
(* with the second session and with another close().                       *)
(***************************************************************************)
EXTENDS KafkaConsumer

CONSTANTS c1, c2

MCPoison == {2}
MCMayFail == {1}
MCNone == {}
MCClosers == {c1, c2}
=============================================================================
