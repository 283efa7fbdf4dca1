--------------------------- MODULE MCQueuePlugin ---------------------------
(***************************************************************************)
(* Two tasks that start and close, or initialize and shut down, up to two  *)
(* clients, and one batch of three messages.                               *)
(***************************************************************************)
EXTENDS QueuePlugin

CONSTANTS t1, t2, c1

MCBrokers == {"kafka", "nats", "rabbitmq"}
MCTasks == {t1, t2}
MCCalls == {c1}
MCSize == [c \in MCCalls |-> 3]
=============================================================================
