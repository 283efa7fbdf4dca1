------------------------- MODULE MCRabbitmqConsumer -------------------------
(***************************************************************************)
(* The instance of RabbitmqConsumer that TLC checks: two messages, one of  *)
(* which may fail, a prefetch that lets both wait in the iterator, two     *)
(* sessions and two closers.                                               *)
(***************************************************************************)
EXTENDS RabbitmqConsumer

CONSTANTS m1, m2, c1, c2

MCMessages == {m1, m2}
MCMayFail == {m1}
MCClosers == {c1, c2}
=============================================================================
