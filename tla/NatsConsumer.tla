---------------------------- MODULE NatsConsumer ----------------------------
(***************************************************************************)
(* NatsConsumer (queue/nats/consumer.py): one consumer object, the task    *)
(* that runs its subscribe(), the tasks that call close(), and, external,  *)
(* a JetStream stream with one durable push consumer.                      *)
(*                                                                         *)
(* Every call of subscribe() opens one connection, named by the number of  *)
(* the session.  A second cancellation, during the finally block, is not   *)
(* modelled.                                                               *)
(***************************************************************************)
EXTENDS Naturals

CONSTANTS
  Messages,     \* the messages of the stream
  MayFail,      \* those whose payload or handler may raise
  MaxDeliver,   \* nats_max_deliver: deliveries before the server gives up
  MaxSessions,  \* bound: calls of subscribe()
  Closers       \* tasks that call close(), directly or through shutdown()

ASSUME NatsAssumption ==
  /\ MayFail \subseteq Messages
  /\ MaxDeliver \in Nat \ {0}
  /\ MaxSessions \in Nat \ {0}

CONSTANT None   \* no message
ASSUME NoneAssumption == None \notin Messages

VARIABLES
  nc,          \* self._nc: the session whose connection it holds, 0 for None
  sub,         \* self._sub, likewise
  running,     \* self._running
  task,        \* where subscribe() is suspended
  loop,        \* the current or last session
  msg,         \* the message in the handler
  closer,      \* closer[c]: where close() is suspended, and on which session's
  crossed,     \* history: a close() has gone on to another session's connection
  conn,        \* conn[h]: state of the connection of session h
  buffer,      \* messages waiting in the subscription of session `loop`
  state,       \* state[m]: where the server's consumer has message m
  deliveries,  \* deliveries[m]: how often it was delivered
  handled      \* messages for which a handler has returned

fields == <<nc, sub, running>>
local == <<task, loop, msg>>
server == <<state, deliveries>>
vars == <<fields, local, closer, crossed, conn, buffer, server, handled>>

Handles == 1 .. MaxSessions
Setup == {"connecting", "ensuring", "subscribing"}
Looping == {"polling", "handling", "acking", "nacking"}
Leaving == {"unsubscribing", "closing"}

TypeOK ==
  /\ {nc, sub, loop} \subseteq Handles \union {0}
  /\ {running, crossed} \subseteq BOOLEAN
  /\ task \in {"idle"} \union Setup \union Looping \union Leaving
  /\ msg \in Messages \union {None}
  /\ closer \in [Closers -> [at : {"idle", "unsubscribing", "closing"},
                             target : Handles \union {0}]]
  /\ conn \in [Handles -> {"new", "open", "subscribed", "unsubscribed", "closed"}]
  /\ buffer \subseteq Messages
  /\ state \in [Messages -> {"ready", "inflight", "acked", "dead"}]
  /\ deliveries \in [Messages -> 0 .. MaxDeliver]
  /\ handled \subseteq Messages

NotClosing == [at |-> "idle", target |-> 0]

Init ==
  /\ nc = 0 /\ sub = 0 /\ running = FALSE
  /\ task = "idle" /\ loop = 0 /\ msg = None
  /\ closer = [c \in Closers |-> NotClosing]
  /\ crossed = FALSE
  /\ conn = [h \in Handles |-> "new"] /\ buffer = {}
  /\ state = [m \in Messages |-> "ready"]
  /\ deliveries = [m \in Messages |-> 0]
  /\ handled = {}

-----------------------------------------------------------------------------
(* The client library and the server (external).                           *)

Connected(h) == conn[h] \in {"open", "subscribed", "unsubscribed"}

Unsubscribed(h) ==
  conn' = [conn EXCEPT ![h] = IF @ = "subscribed" THEN "unsubscribed" ELSE @]

(* Variant of Expired: no max_deliver in the consumer's configuration.     *)
ExpiredAlways(m) == "ready"

(* The server's delivery attempt on m ended without an ack.                *)
Expired(m) == IF deliveries[m] < MaxDeliver THEN "ready" ELSE "dead"

(* The server pushes m to the bound subscription.  A session that no       *)
(* longer runs a loop still receives, and keeps, what the server sends it. *)
Deliver(m) ==
  /\ state[m] = "ready"
  /\ \E h \in Handles :
       /\ conn[h] = "subscribed"
       /\ buffer' = IF h = loop /\ task \in Looping THEN buffer \union {m}
                                                    ELSE buffer
  /\ state' = [state EXCEPT ![m] = "inflight"]
  /\ deliveries' = [deliveries EXCEPT ![m] = @ + 1]
  /\ UNCHANGED <<fields, local, closer, crossed, conn, handled>>

(* ack_wait elapses, also for a message whose handler is still running.    *)
AckWaitElapses(m) ==
  /\ state[m] = "inflight"
  /\ state' = [state EXCEPT ![m] = Expired(m)]
  /\ UNCHANGED <<fields, local, closer, crossed, conn, buffer, deliveries, handled>>

-----------------------------------------------------------------------------
(* subscribe()                                                             *)

Subscribe ==
  /\ task = "idle"
  /\ loop + 1 \in Handles
  /\ loop' = loop + 1
  /\ task' = "connecting"
  /\ buffer' = {}
  /\ UNCHANGED <<fields, msg, closer, crossed, conn, server, handled>>

ConnectReturns ==
  /\ task = "connecting"
  /\ conn' = [conn EXCEPT ![loop] = "open"]
  /\ nc' = loop
  /\ task' = "ensuring"
  /\ UNCHANGED <<sub, running, loop, msg, closer, crossed, buffer, server, handled>>

(* _ensure_stream() returned; an existing stream is not an error.          *)
EnsureReturns ==
  /\ task = "ensuring"
  /\ Connected(loop)
  /\ task' = "subscribing"
  /\ UNCHANGED <<fields, loop, msg, closer, crossed, conn, buffer, server, handled>>

(* The durable consumer is bound to one subscription at a time.            *)
SubscribeReturns ==
  /\ task = "subscribing"
  /\ Connected(loop)
  /\ \A h \in Handles : conn[h] # "subscribed"
  /\ conn' = [conn EXCEPT ![loop] = "subscribed"]
  /\ sub' = loop
  /\ running' = TRUE
  /\ task' = "polling"
  /\ UNCHANGED <<nc, loop, msg, closer, crossed, buffer, server, handled>>

(* A driver error before the loop: the fields are cleared, the connection, *)
(* if it was opened, is not closed.                                        *)
SetupFails ==
  /\ task \in Setup
  /\ nc' = 0
  /\ sub' = 0
  /\ task' = "idle"
  /\ UNCHANGED <<running, loop, msg, closer, crossed, conn, buffer, server, handled>>

(* The finally block, up to the suspension in unsubscribe().               *)
Leave ==
  /\ msg' = None
  /\ task' = "unsubscribing"
  /\ UNCHANGED <<fields, loop, closer, crossed, conn>>

Take(m) ==
  /\ task = "polling"
  /\ m \in buffer
  /\ buffer' = buffer \ {m}
  /\ IF running
       THEN /\ msg' = m
            /\ task' = "handling"
            /\ UNCHANGED <<fields, loop, closer, crossed, conn>>
       ELSE Leave
  /\ UNCHANGED <<server, handled>>

HandlerReturns ==
  /\ task = "handling"
  /\ handled' = handled \union {msg}
  /\ task' = "acking"
  /\ UNCHANGED <<fields, loop, msg, closer, crossed, conn, buffer, server>>

(* _deserialise() or the handler raised: nack(msg), with the raw message.  *)
HandlerRaises ==
  /\ task = "handling"
  /\ msg \in MayFail
  /\ task' = "nacking"
  /\ UNCHANGED <<fields, loop, msg, closer, crossed, conn, buffer, server, handled>>

(* msg.ack() was published, unless the connection is gone; ack() swallows  *)
(* the error, and a published ack may still be lost.                       *)
AckEnds ==
  /\ task = "acking"
  /\ \/ UNCHANGED state
     \/ Connected(loop) /\ state' = [state EXCEPT ![msg] = "acked"]
  /\ task' = "polling"
  /\ msg' = None
  /\ UNCHANGED <<fields, loop, closer, crossed, conn, buffer, deliveries, handled>>

(* Variant of NakEnds: a failed message is acknowledged.                   *)
AckFailed ==
  /\ task = "nacking"
  /\ state' = IF Connected(loop) THEN [state EXCEPT ![msg] = "acked"] ELSE state
  /\ task' = "polling"
  /\ msg' = None
  /\ UNCHANGED <<fields, loop, closer, crossed, conn, buffer, deliveries, handled>>

(* msg.nak(): the server ends the delivery attempt at once.                *)
NakEnds ==
  /\ task = "nacking"
  /\ \/ UNCHANGED state
     \/ /\ Connected(loop)
        /\ state[msg] = "inflight"
        /\ state' = [state EXCEPT ![msg] = Expired(msg)]
  /\ task' = "polling"
  /\ msg' = None
  /\ UNCHANGED <<fields, loop, closer, crossed, conn, buffer, deliveries, handled>>

(* The message iterator ends when its subscription or connection does.     *)
IteratorEnds ==
  /\ task = "polling"
  /\ conn[loop] \in {"unsubscribed", "closed"}
  /\ Leave
  /\ UNCHANGED <<buffer, server, handled>>

(* The task is cancelled: in the loop the finally block runs, during the   *)
(* set-up nothing does.                                                    *)
Cancel ==
  \/ task \in Looping /\ Leave /\ UNCHANGED <<buffer, server, handled>>
  \/ /\ task \in Setup
     /\ task' = "idle"
     /\ UNCHANGED <<fields, loop, msg, closer, crossed, conn, buffer, server, handled>>

(* Variant of UnsubscribeEnds: the connection is not closed.               *)
UnsubscribeOnly ==
  /\ task = "unsubscribing"
  /\ Unsubscribed(loop)
  /\ task' = "idle" /\ sub' = 0 /\ nc' = 0 /\ running' = FALSE
  /\ UNCHANGED <<loop, msg, closer, crossed, buffer, server, handled>>

(* unsubscribe() in the finally block ended; self._nc is read only now.    *)
UnsubscribeEnds ==
  /\ task = "unsubscribing"
  /\ Unsubscribed(loop)
  /\ IF nc # 0
       THEN task' = "closing" /\ UNCHANGED fields
       ELSE task' = "idle" /\ sub' = 0 /\ nc' = 0 /\ running' = FALSE
  /\ UNCHANGED <<loop, msg, closer, crossed, buffer, server, handled>>

CloseConnectionEnds ==
  /\ task = "closing"
  /\ conn' = [conn EXCEPT ![loop] = "closed"]
  /\ task' = "idle"
  /\ sub' = 0 /\ nc' = 0 /\ running' = FALSE
  /\ UNCHANGED <<loop, msg, closer, crossed, buffer, server, handled>>

-----------------------------------------------------------------------------
(* close() and shutdown()                                                  *)

(* After unsubscribe(), or without one: the connection, if there is one.   *)
ThenClose(c) ==
  closer' = [closer EXCEPT ![c] =
               IF nc = 0 THEN NotClosing ELSE [at |-> "closing", target |-> nc]]

(* self._nc no longer holds what close() set out to close.                 *)
Crosses(c) == nc \notin {0, closer[c].target}

(* Variant of Close: only the flag is cleared.                             *)
CloseFlagOnly(c) ==
  /\ closer[c].at = "idle"
  /\ running' = FALSE
  /\ UNCHANGED <<nc, sub, local, closer, crossed, conn, buffer, server, handled>>

Close(c) ==
  /\ closer[c].at = "idle"
  /\ running' = FALSE
  /\ IF sub # 0
       THEN closer' = [closer EXCEPT ![c] = [at |-> "unsubscribing", target |-> sub]]
       ELSE ThenClose(c)
  /\ UNCHANGED <<nc, sub, local, crossed, conn, buffer, server, handled>>

CloseUnsubscribed(c) ==
  /\ closer[c].at = "unsubscribing"
  /\ Unsubscribed(closer[c].target)
  /\ ThenClose(c)
  /\ crossed' = (crossed \/ Crosses(c))
  /\ UNCHANGED <<fields, local, buffer, server, handled>>

CloseEnds(c) ==
  /\ closer[c].at = "closing"
  /\ conn' = [conn EXCEPT ![closer[c].target] = "closed"]
  /\ crossed' = (crossed \/ Crosses(c))
  /\ nc' = 0
  /\ closer' = [closer EXCEPT ![c] = NotClosing]
  /\ UNCHANGED <<sub, running, local, buffer, server, handled>>

-----------------------------------------------------------------------------
(* The process dies; the server drops its connections.                     *)
Crash ==
  /\ task # "idle"
  /\ nc' = 0 /\ sub' = 0 /\ running' = FALSE
  /\ task' = "idle" /\ msg' = None
  /\ closer' = [c \in Closers |-> NotClosing]
  /\ conn' = [h \in Handles |-> IF conn[h] = "new" THEN "new" ELSE "closed"]
  /\ buffer' = {}
  /\ UNCHANGED <<loop, crossed, server, handled>>

Next ==
  \/ Subscribe \/ ConnectReturns \/ EnsureReturns \/ SubscribeReturns
  \/ SetupFails \/ HandlerReturns \/ HandlerRaises \/ AckEnds \/ NakEnds
  \/ IteratorEnds \/ Cancel \/ UnsubscribeEnds \/ CloseConnectionEnds \/ Crash
  \/ \E m \in Messages : Take(m) \/ Deliver(m) \/ AckWaitElapses(m)
  \/ \E c \in Closers : Close(c) \/ CloseUnsubscribed(c) \/ CloseEnds(c)

Spec == Init /\ [][Next]_vars

(* The event loop runs ready tasks, driver calls return, handlers end.     *)
Fairness ==
  /\ WF_vars(ConnectReturns \/ EnsureReturns \/ SubscribeReturns \/ SetupFails)
  /\ WF_vars(HandlerReturns \/ HandlerRaises \/ AckEnds \/ NakEnds)
  /\ WF_vars(IteratorEnds)
  /\ WF_vars(UnsubscribeEnds \/ CloseConnectionEnds)
  /\ \A c \in Closers : WF_vars(CloseUnsubscribed(c) \/ CloseEnds(c))

FairSpec == Spec /\ Fairness

-----------------------------------------------------------------------------
(* The abstraction: the server owes every message it has neither had       *)
(* acknowledged nor given up, and gives up only after MaxDeliver           *)
(* deliveries.                                                             *)
Delivery == INSTANCE AtLeastOnce WITH
  MayGiveUp <- Messages,
  owed <- {m \in Messages : state[m] \notin {"acked", "dead"}},
  failed <- {m \in Messages : deliveries[m] = MaxDeliver}
ImplementsAtLeastOnce == Delivery!Spec

(* A session in its loop that is told to stop does stop, whatever it was   *)
(* suspended in, unless a close() of another session interferes.          *)
StopRequestHonoured ==
  (task \in Looping /\ ~running) ~> (task = "idle" \/ crossed)

(* A session that reached its loop has its subscription and its connection *)
(* closed when it is over - however close(), cancellation and the finally  *)
(* block interleave, and whether or not a close() is still suspended -     *)
(* unless a close() of another session interferes.                         *)
EndedSessionIsClosed ==
  task = "idle" /\ ~crossed =>
     \A h \in Handles : conn[h] \notin {"subscribed", "unsubscribed"}
=============================================================================
