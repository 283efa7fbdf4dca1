-------------------------- MODULE RabbitmqConsumer --------------------------
(***************************************************************************)
(* RabbitmqConsumer (queue/rabbitmq/consumer.py): one consumer object, the *)
(* task that runs its subscribe(), the tasks that call close(), and,       *)
(* external, one queue of the broker.                                      *)
(*                                                                         *)
(* Every call of subscribe() opens one robust connection with one channel, *)
(* both named by the number of the session.  A second cancellation, during *)
(* the finally block, is not modelled.                                     *)
(***************************************************************************)
EXTENDS Naturals, FiniteSets

CONSTANTS
  Messages,     \* the messages of the queue
  MayFail,      \* those whose payload or handler may raise
  Prefetch,     \* rabbitmq_prefetch_count
  MaxSessions,  \* bound: calls of subscribe()
  Closers,      \* tasks that call close(), directly or through shutdown()
  None          \* no message

ASSUME RabbitmqAssumption ==
  /\ MayFail \subseteq Messages
  /\ Prefetch \in Nat \ {0}
  /\ MaxSessions \in Nat \ {0}
  /\ None \notin Messages

VARIABLES
  connection,  \* self._connection: the session whose connection it holds, or 0
  channel,     \* self._channel, likewise
  running,     \* self._running
  raw,         \* self._current_raw_message
  rawValid,    \* whether raw's delivery tag is still known to its channel
  task,        \* where subscribe() is suspended
  loop,        \* the current or last session
  msg,         \* the message in the handler
  outcome,     \* how the last subscribe() ended
  closer,      \* closer[c]: where close() is suspended, and on which session's
  crossed,     \* history: a close() has gone on to another session's fields
  conn,        \* conn[h]: state of the connection and channel of session h
  buffer,      \* messages waiting in the iterator of session `loop`
  holder,      \* holder[m]: session m is delivered to and unacked, 0 if ready
  acked,       \* messages the broker has had acknowledged
  handled      \* messages for which a handler has returned

fields == <<connection, channel, running, raw, rawValid>>
local == <<task, loop, msg, outcome>>
broker == <<holder, acked>>
vars == <<fields, local, closer, crossed, conn, buffer, broker, handled>>

Handles == 1 .. MaxSessions
Setup == {"connecting", "opening", "qos", "declaring"}
Looping == {"consuming", "polling", "handling", "acking", "nacking"}
Leaving == {"leaving", "closing channel", "closing connection"}

NotClosing == [at |-> "idle", target |-> 0]

TypeOK ==
  /\ {connection, channel, loop} \subseteq Handles \union {0}
  /\ {running, rawValid, crossed} \subseteq BOOLEAN
  /\ {raw, msg} \subseteq Messages \union {None}
  /\ task \in {"idle"} \union Setup \union Looping \union Leaving
  /\ outcome \in {"none", "returned", "adapter", "driver", "builtin", "cancelled"}
  /\ closer \in [Closers -> [at : {"channel", "connection"}, target : Handles]
                             \union {NotClosing}]
  /\ conn \in [Handles -> {"new", "open", "consuming", "no channel", "closed"}]
  /\ buffer \subseteq Messages
  /\ holder \in [Messages -> Handles \union {0}]
  /\ acked \subseteq Messages
  /\ handled \subseteq Messages

Init ==
  /\ connection = 0 /\ channel = 0 /\ running = FALSE
  /\ raw = None /\ rawValid = FALSE
  /\ task = "idle" /\ loop = 0 /\ msg = None /\ outcome = "none"
  /\ closer = [c \in Closers |-> NotClosing] /\ crossed = FALSE
  /\ conn = [h \in Handles |-> "new"] /\ buffer = {}
  /\ holder = [m \in Messages |-> 0] /\ acked = {} /\ handled = {}

-----------------------------------------------------------------------------
(* The client library and the broker (external).                           *)

(* The broker pushes m to a consuming channel with room for it.            *)
Push(m) ==
  /\ m \notin acked
  /\ holder[m] = 0
  /\ \E h \in Handles :
       /\ conn[h] = "consuming"
       /\ Cardinality({n \in Messages : holder[n] = h}) < Prefetch
       /\ holder' = [holder EXCEPT ![m] = h]
       /\ buffer' = IF h = loop /\ task \in Looping THEN buffer \union {m}
                                                    ELSE buffer
  /\ UNCHANGED <<fields, local, closer, crossed, conn, acked, handled>>

(* A channel or a connection goes away: what was unacked on it is ready    *)
(* again, and its delivery tags mean nothing any more.                     *)
Requeue(h) ==
  /\ holder' = [m \in Messages |-> IF holder[m] = h THEN 0 ELSE holder[m]]
  /\ rawValid' = (rawValid /\ loop # h)

CloseChannel(h) ==
  /\ conn' = [conn EXCEPT ![h] = IF @ = "closed" THEN @ ELSE "no channel"]
  /\ Requeue(h)

CloseConnection(h) ==
  /\ conn' = [conn EXCEPT ![h] = "closed"]
  /\ Requeue(h)

(* The network drops; connect_robust() reconnects and consumes again.      *)
Reconnect ==
  /\ task \in Looping
  /\ conn[loop] = "consuming"
  /\ Requeue(loop)
  /\ UNCHANGED <<connection, channel, running, raw, local, closer, crossed,
                 conn, buffer, acked, handled>>

-----------------------------------------------------------------------------
(* subscribe()                                                             *)

Subscribe ==
  /\ task = "idle"
  /\ loop + 1 \in Handles
  /\ loop' = loop + 1
  /\ task' = "connecting"
  /\ outcome' = "none"
  /\ buffer' = {}
  /\ UNCHANGED <<fields, msg, closer, crossed, conn, broker, handled>>

ConnectReturns ==
  /\ task = "connecting"
  /\ connection' = loop
  /\ conn' = [conn EXCEPT ![loop] = "open"]
  /\ task' = "opening"
  /\ UNCHANGED <<channel, running, raw, rawValid, loop, msg, outcome, closer,
                 crossed, buffer, broker, handled>>

ChannelReturns ==
  /\ task = "opening"
  /\ conn[loop] = "open"
  /\ channel' = loop
  /\ task' = "qos"
  /\ UNCHANGED <<connection, running, raw, rawValid, loop, msg, outcome, closer,
                 crossed, conn, buffer, broker, handled>>

(* set_qos() returned; self._channel is read again, and a close() may have *)
(* cleared it: None has no declare_queue, an AttributeError nothing here   *)
(* translates.                                                             *)
QosReturns ==
  /\ task = "qos"
  /\ IF channel = 0
       THEN task' = "idle" /\ outcome' = "builtin"
       ELSE conn[loop] = "open" /\ task' = "declaring" /\ UNCHANGED outcome
  /\ UNCHANGED <<fields, loop, msg, closer, crossed, conn, buffer, broker, handled>>

(* The queue is declared, the flag set, and the iterator starts consuming. *)
DeclareReturns ==
  /\ task = "declaring"
  /\ conn[loop] = "open"
  /\ running' = TRUE
  /\ task' = "consuming"
  /\ UNCHANGED <<connection, channel, raw, rawValid, loop, msg, outcome, closer,
                 crossed, conn, buffer, broker, handled>>

(* A driver error, or connection_timeout: the fields are cleared, but a    *)
(* connection that was opened is not closed.                               *)
SetupFails ==
  /\ task \in Setup
  /\ connection' = 0
  /\ channel' = 0
  /\ task' = "idle"
  /\ outcome' = "adapter"
  /\ UNCHANGED <<running, raw, rawValid, loop, msg, closer, crossed, conn,
                 buffer, broker, handled>>

(* The loop is left: the iterator's context manager returns what it has    *)
(* buffered.                                                               *)
Leave(how) ==
  /\ outcome' = how
  /\ task' = "leaving"
  /\ msg' = None
  /\ UNCHANGED <<connection, channel, running, loop, closer, crossed, conn>>

(* The iterator's context manager is entered.                              *)
ConsumeReturns ==
  /\ task = "consuming"
  /\ conn[loop] = "open"
  /\ conn' = [conn EXCEPT ![loop] = "consuming"]
  /\ task' = "polling"
  /\ UNCHANGED <<fields, loop, msg, outcome, closer, crossed, buffer, broker,
                 handled>>

(* Variant of Take: the cursor still holds the previous message.           *)
TakeLate(m) ==
  /\ task = "polling"
  /\ m \in buffer
  /\ buffer' = buffer \ {m}
  /\ IF running
       THEN /\ raw' = IF raw = None THEN m ELSE raw
            /\ rawValid' = (holder[m] = loop)
            /\ msg' = m
            /\ task' = "handling"
            /\ UNCHANGED <<connection, channel, running, loop, outcome, closer,
                           crossed, conn>>
       ELSE Leave("returned") /\ UNCHANGED <<raw, rawValid>>
  /\ UNCHANGED <<broker, handled>>

(* The iterator returns m.  A message the broker has requeued meanwhile is *)
(* still in the iterator, with a delivery tag that is no longer valid.     *)
Take(m) ==
  /\ task = "polling"
  /\ m \in buffer
  /\ buffer' = buffer \ {m}
  /\ IF running
       THEN /\ raw' = m
            /\ rawValid' = (holder[m] = loop)
            /\ msg' = m
            /\ task' = "handling"
            /\ UNCHANGED <<connection, channel, running, loop, outcome, closer,
                           crossed, conn>>
       ELSE Leave("returned") /\ UNCHANGED <<raw, rawValid>>
  /\ UNCHANGED <<broker, handled>>

HandlerReturns ==
  /\ task = "handling"
  /\ handled' = handled \union {msg}
  /\ task' = "acking"
  /\ UNCHANGED <<fields, loop, msg, outcome, closer, crossed, conn, buffer, broker>>

(* _deserialise() or the handler raised: nack() of the cursor.             *)
HandlerRaises ==
  /\ task = "handling"
  /\ msg \in MayFail
  /\ task' = "nacking"
  /\ UNCHANGED <<fields, loop, msg, outcome, closer, crossed, conn, buffer, broker,
                 handled>>

(* ack() of the cursor reached the broker, or failed and was swallowed.    *)
AckEnds ==
  /\ task = "acking"
  /\ \/ UNCHANGED <<broker, rawValid>>
     \/ /\ rawValid
        /\ acked' = acked \union {raw}
        /\ holder' = [holder EXCEPT ![raw] = 0]
        /\ rawValid' = FALSE
  /\ task' = "polling"
  /\ msg' = None
  /\ UNCHANGED <<connection, channel, running, raw, loop, outcome, closer,
                 crossed, conn, buffer, handled>>

(* Variant of NackEnds: nack() without requeue drops the message.          *)
NackDrops ==
  /\ task = "nacking"
  /\ \/ UNCHANGED <<broker, rawValid>>
     \/ /\ rawValid
        /\ acked' = acked \union {raw}
        /\ holder' = [holder EXCEPT ![raw] = 0]
        /\ rawValid' = FALSE
  /\ task' = "polling"
  /\ msg' = None
  /\ UNCHANGED <<connection, channel, running, raw, loop, outcome, closer,
                 crossed, conn, buffer, handled>>

NackEnds ==
  /\ task = "nacking"
  /\ \/ UNCHANGED <<broker, rawValid>>
     \/ /\ rawValid
        /\ holder' = [holder EXCEPT ![raw] = 0]
        /\ rawValid' = FALSE
        /\ UNCHANGED acked
  /\ task' = "polling"
  /\ msg' = None
  /\ UNCHANGED <<connection, channel, running, raw, loop, outcome, closer,
                 crossed, conn, buffer, handled>>

IteratorEnds ==
  /\ task = "polling"
  /\ conn[loop] \in {"no channel", "closed"}
  /\ Leave("returned")
  /\ UNCHANGED <<raw, rawValid, buffer, broker, handled>>

Cancel ==
  \/ /\ task \in Looping
     /\ Leave("cancelled")
     /\ UNCHANGED <<raw, rawValid, buffer, broker, handled>>
  \/ /\ task \in Setup
     /\ task' = "idle"
     /\ outcome' = "cancelled"
     /\ UNCHANGED <<fields, loop, msg, closer, crossed, conn, buffer, broker,
                    handled>>

(* _close_connection() of the finally block, from where it looks at        *)
(* self._connection ...                                                    *)
ThenCloseConnection ==
  IF connection # 0
    THEN task' = "closing connection" /\ UNCHANGED <<connection, running>>
    ELSE task' = "idle" /\ running' = FALSE /\ UNCHANGED connection

(* Variant of ThenCloseChannel: the finally block closes nothing.          *)
CloseNothing ==
  task' = "idle" /\ running' = FALSE /\ UNCHANGED connection

(* ... and from its beginning.                                             *)
ThenCloseChannel ==
  IF channel # 0
    THEN task' = "closing channel" /\ UNCHANGED <<connection, running>>
    ELSE ThenCloseConnection

(* Entering the iterator raised a driver error, which nothing translates:  *)
(* the finally block runs.                                                 *)
ConsumeFails ==
  /\ task = "consuming"
  /\ outcome' = "driver"
  /\ ThenCloseChannel
  /\ UNCHANGED <<channel, raw, rawValid, loop, msg, closer, crossed, conn,
                 buffer, broker, handled>>

(* The iterator has cancelled its consumer and requeued its buffer.        *)
IteratorCloses ==
  /\ task = "leaving"
  /\ buffer' = {}
  /\ holder' = [m \in Messages |->
                  IF m \in buffer /\ holder[m] = loop THEN 0 ELSE holder[m]]
  /\ ThenCloseChannel
  /\ UNCHANGED <<channel, raw, rawValid, loop, msg, outcome, closer, crossed, conn,
                 acked, handled>>

ChannelCloses ==
  /\ task = "closing channel"
  /\ CloseChannel(loop)
  /\ channel' = 0
  /\ ThenCloseConnection
  /\ UNCHANGED <<raw, loop, msg, outcome, closer, crossed, buffer, acked, handled>>

ConnectionCloses ==
  /\ task = "closing connection"
  /\ CloseConnection(loop)
  /\ connection' = 0
  /\ running' = FALSE
  /\ task' = "idle"
  /\ UNCHANGED <<channel, raw, loop, msg, outcome, closer, crossed, buffer, acked,
                 handled>>

-----------------------------------------------------------------------------
(* close() and shutdown(): the flag, then _close_connection().             *)

(* Variant of CloserAtConnection: the field is not tested for None.        *)
CloserUntested(c) ==
  closer' = [closer EXCEPT ![c] = [at |-> "connection", target |-> connection]]

(* A closing call's view: after the channel, the connection if there is    *)
(* one by then.                                                            *)
CloserAtConnection(c) ==
  closer' = [closer EXCEPT ![c] =
    IF connection = 0 THEN NotClosing
    ELSE [at |-> "connection", target |-> connection]]

(* Variant of Close: only the flag is cleared.                             *)
CloseFlagOnly(c) ==
  /\ closer[c].at = "idle"
  /\ running' = FALSE
  /\ UNCHANGED <<connection, channel, raw, rawValid, local, closer, crossed,
                 conn, buffer, broker, handled>>

Close(c) ==
  /\ closer[c].at = "idle"
  /\ running' = FALSE
  /\ IF channel # 0
       THEN closer' = [closer EXCEPT ![c] = [at |-> "channel", target |-> channel]]
       ELSE CloserAtConnection(c)
  /\ UNCHANGED <<connection, channel, raw, rawValid, local, crossed, conn,
                 buffer, broker, handled>>

(* channel.close() ended; the finally clause clears the field, whatever it *)
(* holds by now, and the connection is looked at only now.                 *)
CloserChannelCloses(c) ==
  /\ closer[c].at = "channel"
  /\ CloseChannel(closer[c].target)
  /\ crossed' = (crossed \/ ~({channel, connection} \subseteq {0, closer[c].target}))
  /\ channel' = 0
  /\ CloserAtConnection(c)
  /\ UNCHANGED <<connection, running, raw, local, buffer, acked, handled>>

CloserConnectionCloses(c) ==
  /\ closer[c].at = "connection"
  /\ CloseConnection(closer[c].target)
  /\ crossed' = (crossed \/ connection \notin {0, closer[c].target})
  /\ connection' = 0
  /\ closer' = [closer EXCEPT ![c] = NotClosing]
  /\ UNCHANGED <<channel, running, raw, local, buffer, acked, handled>>

-----------------------------------------------------------------------------
(* The process dies; the broker requeues what its connections held.        *)
Crash ==
  /\ task # "idle"
  /\ connection' = 0 /\ channel' = 0 /\ running' = FALSE
  /\ raw' = None /\ rawValid' = FALSE
  /\ task' = "idle" /\ msg' = None /\ outcome' = "none"
  /\ closer' = [c \in Closers |-> NotClosing]
  /\ conn' = [h \in Handles |-> IF conn[h] = "new" THEN "new" ELSE "closed"]
  /\ buffer' = {}
  /\ holder' = [m \in Messages |-> 0]
  /\ UNCHANGED <<loop, crossed, acked, handled>>

Next ==
  \/ Subscribe \/ ConnectReturns \/ ChannelReturns \/ QosReturns
  \/ DeclareReturns \/ ConsumeReturns \/ ConsumeFails \/ SetupFails
  \/ HandlerReturns \/ HandlerRaises
  \/ AckEnds \/ NackEnds \/ IteratorEnds \/ Cancel \/ IteratorCloses
  \/ ChannelCloses \/ ConnectionCloses \/ Reconnect \/ Crash
  \/ \E m \in Messages : Push(m) \/ Take(m)
  \/ \E c \in Closers :
       Close(c) \/ CloserChannelCloses(c) \/ CloserConnectionCloses(c)

Spec == Init /\ [][Next]_vars

(* The event loop runs ready tasks, driver calls return, handlers end.     *)
Fairness ==
  /\ WF_vars(HandlerReturns \/ HandlerRaises \/ AckEnds \/ NackEnds)
  /\ WF_vars(ConsumeReturns \/ ConsumeFails)
  /\ WF_vars(IteratorEnds)
  /\ WF_vars(IteratorCloses \/ ChannelCloses \/ ConnectionCloses)
  /\ \A c \in Closers : WF_vars(CloserChannelCloses(c) \/ CloserConnectionCloses(c))

FairSpec == Spec /\ Fairness

-----------------------------------------------------------------------------
(* The abstraction: the broker owes every message not acknowledged, and    *)
(* gives up none.                                                          *)
Delivery == INSTANCE AtLeastOnce WITH
  MayGiveUp <- {},
  owed <- Messages \ acked,
  failed <- {}
ImplementsAtLeastOnce == Delivery!Spec

(* A session in its loop that is told to stop does stop, whatever it was   *)
(* suspended in, unless a close() of another session interferes.           *)
StopRequestHonoured ==
  (task \in Looping /\ ~running) ~> (task = "idle" \/ crossed)

(* No message stays with a consumer that is gone: when subscribe() is over *)
(* after its loop, nothing is left unacked on a connection nobody reads,   *)
(* also while a close() is still suspended, unless a close() of another    *)
(* session interferes.                                                     *)
NothingHeldBack ==
  task = "idle" /\ ~crossed =>
     \A m \in Messages : holder[m] = 0
=============================================================================
