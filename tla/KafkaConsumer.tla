--------------------------- MODULE KafkaConsumer ---------------------------
(***************************************************************************)
(* KafkaConsumer (queue/kafka/consumer.py): one consumer object, the task  *)
(* that runs its subscribe(), the tasks that call close(), and, external,  *)
(* one partition of the broker with the group's committed offset.          *)
(*                                                                         *)
(* An asyncio task runs alone between two awaits, so an action is the code *)
(* between two suspension points.  A call that suspends (start, handler,   *)
(* commit, stop) is begun by one action and ended by another.              *)
(***************************************************************************)
EXTENDS Naturals, FiniteSets

CONSTANTS
  LogEnd,       \* the partition holds the offsets 1 .. LogEnd
  Poison,       \* offsets whose payload _deserialise() rejects
  MayFail,      \* offsets whose handler may raise
  MaxSessions,  \* bound: calls of subscribe()
  Closers,      \* tasks that call close(), directly or through shutdown()
  DriverErrors, \* whether the iterator may raise a driver error
  CrashAllowed  \* whether the process may crash

ASSUME KafkaAssumption ==
  /\ LogEnd \in Nat \ {0}
  /\ MaxSessions \in Nat \ {0}
  /\ Poison \subseteq 1 .. LogEnd
  /\ MayFail \subseteq 1 .. LogEnd
  /\ DriverErrors \in BOOLEAN
  /\ CrashAllowed \in BOOLEAN

VARIABLES
  consumer,   \* self._consumer: a driver handle, 0 for None
  running,    \* self._running
  task,       \* where subscribe() is suspended
  loop,       \* the driver handle this subscribe() built and iterates over
  msg,        \* offset of the message in the handler
  bound,      \* whether the local variable `message` has been assigned
  outcome,    \* how subscribe() ended, or will once stop() returns
  closer,     \* closer[c]: the handle close() is stopping, 0 if not in close()
  handle,     \* handle[h]: state of the driver object of session h
  owner,      \* handle the group coordinator gave the partition to, 0 if none
  pos,        \* the owner's position: the next offset it returns
  committed,  \* the group's committed offset: where an assignment starts
  handled,    \* offsets for which a handler has returned
  failed      \* offsets passed to nack()

code == <<consumer, running, task, loop, msg, bound, outcome, closer>>
broker == <<handle, owner, pos, committed>>
history == <<handled, failed>>
vars == <<code, broker, history>>

Offsets == 1 .. LogEnd
Handles == 1 .. MaxSessions

Tasks == {"idle", "starting", "polling", "handling", "committing", "stopping"}
HandleStates == {"new", "starting", "up", "closing", "closed"}
Outcomes == {"none", "returned", "adapter", "driver", "builtin", "cancelled"}

TypeOK ==
  /\ consumer \in Handles \union {0}
  /\ running \in BOOLEAN
  /\ task \in Tasks
  /\ loop \in Handles \union {0}
  /\ msg \in Offsets \union {0}
  /\ bound \in BOOLEAN
  /\ outcome \in Outcomes
  /\ closer \in [Closers -> Handles \union {0}]
  /\ handle \in [Handles -> HandleStates]
  /\ owner \in Handles \union {0}
  /\ pos \in 1 .. LogEnd + 1
  /\ committed \in 1 .. LogEnd + 1
  /\ handled \subseteq Offsets
  /\ failed \subseteq Offsets

(* Variant of Init, for TypeOK: offsets that start at 0.                   *)
InitAtZero ==
  /\ consumer = 0 /\ running = FALSE /\ task = "idle" /\ loop = 0 /\ msg = 0
  /\ bound = FALSE /\ outcome = "none" /\ closer = [c \in Closers |-> 0]
  /\ handle = [h \in Handles |-> "new"]
  /\ owner = 0 /\ pos = 0 /\ committed = 0
  /\ handled = {} /\ failed = {}

(* auto_offset_reset = "earliest", the default: a group without a          *)
(* committed offset starts at the beginning.                               *)
Init ==
  /\ consumer = 0 /\ running = FALSE /\ task = "idle" /\ loop = 0 /\ msg = 0
  /\ bound = FALSE /\ outcome = "none" /\ closer = [c \in Closers |-> 0]
  /\ handle = [h \in Handles |-> "new"]
  /\ owner = 0 /\ pos = 1 /\ committed = 1
  /\ handled = {} /\ failed = {}

-----------------------------------------------------------------------------
(* The driver (external, as the adapter uses it).                          *)

Stoppable(h) == h # 0 /\ handle[h] \in {"starting", "up"}

(* AIOKafkaConsumer.stop() up to its suspension.                           *)
BeginStop(h) == handle' = [handle EXCEPT ![h] = "closing"]

(* ... and its end: the client is gone and leaves the group.               *)
EndStop(h) ==
  /\ handle' = [handle EXCEPT ![h] = "closed"]
  /\ owner' = IF owner = h THEN 0 ELSE owner

(* Variant of CommitEffect: the last offset returned, not the next one.    *)
CommitLastReturned ==
  \/ UNCHANGED committed
  \/ owner = loop /\ committed' = pos - 1

(* commit() sends the current position of every assigned partition; it may *)
(* fail before the broker has applied it, and the coordinator refuses it   *)
(* from a consumer that no longer owns the partition.                      *)
CommitEffect ==
  \/ UNCHANGED committed
  \/ owner = loop /\ committed' = pos

(* The group coordinator (re)assigns the partition to a running client,    *)
(* which then restarts at the committed offset.                            *)
Rebalance(h) ==
  /\ handle[h] = "up"
  /\ owner' = h
  /\ pos' = committed
  /\ UNCHANGED <<code, handle, committed, history>>

-----------------------------------------------------------------------------
(* subscribe()                                                             *)

Subscribe ==
  LET h == loop + 1 IN
  /\ task = "idle"
  /\ h \in Handles
  /\ consumer' = h
  /\ handle' = [handle EXCEPT ![h] = "starting"]
  /\ loop' = h
  /\ bound' = FALSE
  /\ outcome' = "none"
  /\ task' = "starting"
  /\ UNCHANGED <<running, msg, closer, owner, pos, committed, history>>

(* start() returned.  `async for msg in self._consumer` evaluates the      *)
(* field again: if close() has cleared it meanwhile, iterating over None   *)
(* raises a TypeError, and the finally block has nothing to stop.          *)
StartReturns ==
  /\ task = "starting"
  /\ handle' = [handle EXCEPT ![loop] = IF @ = "starting" THEN "up" ELSE @]
  /\ IF consumer = 0
       THEN running' = FALSE /\ task' = "idle" /\ outcome' = "builtin"
       ELSE running' = TRUE /\ task' = "polling" /\ UNCHANGED outcome
  /\ UNCHANGED <<consumer, loop, msg, bound, closer, owner, pos, committed,
                 history>>

(* start() raised a KafkaError: translated, and the field is cleared.      *)
StartFails ==
  /\ task = "starting"
  /\ handle' = [handle EXCEPT ![loop] = "closed"]
  /\ consumer' = 0
  /\ task' = "idle"
  /\ outcome' = "adapter"
  /\ UNCHANGED <<running, loop, msg, bound, closer, owner, pos, committed,
                 history>>

(* The finally block of the loop, up to the suspension in stop().  stop()  *)
(* on a handle somebody is already stopping returns at once.               *)
Leave(how) ==
  /\ outcome' = how
  /\ msg' = 0
  /\ IF Stoppable(consumer)
       THEN /\ BeginStop(consumer)
            /\ task' = "stopping"
            /\ UNCHANGED <<consumer, running>>
       ELSE /\ consumer' = 0
            /\ running' = FALSE
            /\ task' = "idle"
            /\ UNCHANGED handle
  /\ UNCHANGED <<loop, closer, owner>>

(* The iterator returns the next message and moves the position past it.   *)
Fetch ==
  /\ task = "polling"
  /\ owner = loop
  /\ handle[loop] \in {"up", "closing"}
  /\ pos \in Offsets
  /\ pos' = pos + 1

(* `if not self._running: break`                                           *)
FetchAfterClose ==
  /\ Fetch
  /\ ~running
  /\ Leave("returned")
  /\ UNCHANGED <<bound, committed, history>>

(* _deserialise() succeeds and the handler is called.                      *)
FetchGood ==
  /\ Fetch
  /\ running
  /\ pos \notin Poison
  /\ msg' = pos
  /\ bound' = TRUE
  /\ task' = "handling"
  /\ UNCHANGED <<consumer, running, loop, outcome, closer, handle, owner,
                 committed, history>>

(* _deserialise() raises: the except branch calls nack(message), where     *)
(* `message` is the previous iteration's, or unbound in the first one: the *)
(* UnboundLocalError then leaves the loop.                                 *)
(* nack() only logs, so that it is given the wrong message changes no      *)
(* state: what is recorded as failed is the offset that did not decode.    *)
FetchPoison ==
  /\ Fetch
  /\ running
  /\ pos \in Poison
  /\ IF bound
       THEN /\ failed' = failed \union {pos}
            /\ UNCHANGED <<code, handle, owner>>
       ELSE /\ Leave("builtin")
            /\ UNCHANGED <<bound, failed>>
  /\ UNCHANGED <<committed, handled>>

(* The handler returned: ack() commits, unless close() has cleared the     *)
(* field.                                                                  *)
HandlerReturns ==
  /\ task = "handling"
  /\ handled' = handled \union {msg}
  /\ IF consumer = 0
       THEN task' = "polling" /\ msg' = 0
       ELSE task' = "committing" /\ UNCHANGED msg
  /\ UNCHANGED <<consumer, running, loop, bound, outcome, closer, broker,
                 failed>>

(* The handler raised: nack() only logs, and the loop goes on.             *)
HandlerRaises ==
  /\ task = "handling"
  /\ msg \in MayFail
  /\ failed' = failed \union {msg}
  /\ task' = "polling"
  /\ msg' = 0
  /\ UNCHANGED <<consumer, running, loop, bound, outcome, closer, broker,
                 handled>>

(* commit() returned or raised; ack() swallows what it raises.             *)
CommitEnds ==
  /\ task = "committing"
  /\ CommitEffect
  /\ task' = "polling"
  /\ msg' = 0
  /\ UNCHANGED <<consumer, running, loop, bound, outcome, closer, handle,
                 owner, pos, history>>

(* Variant of IteratorStops: the loop polls a stopped client again.        *)
PollAgain ==
  /\ task = "polling"
  /\ handle[loop] \in {"closing", "closed"}
  /\ UNCHANGED vars

(* The iterator ends because its client was stopped.                       *)
IteratorStops ==
  /\ task = "polling"
  /\ handle[loop] \in {"closing", "closed"}
  /\ Leave("returned")
  /\ UNCHANGED <<bound, pos, committed, history>>

(* The iterator raises a driver error (authorisation, offset out of        *)
(* range): nothing translates it.                                          *)
IteratorRaises ==
  /\ DriverErrors
  /\ task = "polling"
  /\ Leave("driver")
  /\ UNCHANGED <<bound, pos, committed, history>>

(* Variant of StopEnds: enable_auto_commit left at its default, so that    *)
(* stop() commits the position.                                            *)
StopAutoCommits ==
  /\ task = "stopping"
  /\ EndStop(loop)
  /\ committed' = IF owner = loop THEN pos ELSE committed
  /\ consumer' = 0
  /\ running' = FALSE
  /\ task' = "idle"
  /\ UNCHANGED <<loop, msg, bound, outcome, closer, pos, history>>

(* stop() in the finally block returned or raised.                         *)
StopEnds ==
  /\ task = "stopping"
  /\ EndStop(loop)
  /\ consumer' = 0
  /\ running' = FALSE
  /\ task' = "idle"
  /\ UNCHANGED <<loop, msg, bound, outcome, closer, pos, committed, history>>

(* Variant of CancelInLoop: ack() in a finally clause.                     *)
CancelCommits ==
  /\ task \in {"polling", "handling", "committing"}
  /\ Leave("cancelled")
  /\ CommitEffect
  /\ UNCHANGED <<bound, pos, history>>

(* The task is cancelled at one of its awaits.  Inside the loop the        *)
(* finally block runs; a cancelled start() or stop() skips what follows,   *)
(* because CancelledError is not an Exception.                             *)
CancelInLoop ==
  /\ task \in {"polling", "handling", "committing"}
  /\ Leave("cancelled")
  /\ IF task = "committing" THEN CommitEffect ELSE UNCHANGED committed
  /\ UNCHANGED <<bound, pos, history>>

CancelOutsideLoop ==
  /\ task \in {"starting", "stopping"}
  /\ task' = "idle"
  /\ outcome' = "cancelled"
  /\ UNCHANGED <<consumer, running, loop, msg, bound, closer, broker, history>>

-----------------------------------------------------------------------------
(* close() and shutdown(), which differ only in the _initialized flag that *)
(* nothing but health() reads.                                             *)

Close(c) ==
  /\ closer[c] = 0
  /\ running' = FALSE
  /\ IF Stoppable(consumer)
       THEN /\ BeginStop(consumer)
            /\ closer' = [closer EXCEPT ![c] = consumer]
            /\ UNCHANGED consumer
       ELSE /\ consumer' = 0
            /\ UNCHANGED <<handle, closer>>
  /\ UNCHANGED <<task, loop, msg, bound, outcome, owner, pos, committed,
                 history>>

(* stop() returned: close() clears the field, whatever it holds by now.    *)
CloseEnds(c) ==
  /\ closer[c] # 0
  /\ EndStop(closer[c])
  /\ consumer' = 0
  /\ closer' = [closer EXCEPT ![c] = 0]
  /\ UNCHANGED <<running, task, loop, msg, bound, outcome, pos, committed,
                 history>>

-----------------------------------------------------------------------------
(* The process dies: only the broker remembers.  A commit in flight may or *)
(* may not have arrived.                                                   *)
Crash ==
  /\ CrashAllowed
  /\ task # "idle"
  /\ IF task = "committing" THEN CommitEffect ELSE UNCHANGED committed
  /\ consumer' = 0 /\ running' = FALSE /\ task' = "idle" /\ msg' = 0
  /\ bound' = FALSE /\ outcome' = "none"
  /\ closer' = [c \in Closers |-> 0]
  /\ handle' = [h \in Handles |-> IF handle[h] = "new" THEN "new" ELSE "closed"]
  /\ owner' = 0
  /\ UNCHANGED <<loop, pos, history>>

(* The machine is quiescent when every subscribe() the bound allows is     *)
(* over; close() remains possible, so there is no deadlock.                *)
Next ==
  \/ Subscribe \/ StartReturns \/ StartFails
  \/ FetchAfterClose \/ FetchGood \/ FetchPoison
  \/ HandlerReturns \/ HandlerRaises \/ CommitEnds
  \/ IteratorStops \/ IteratorRaises \/ StopEnds
  \/ CancelInLoop \/ CancelOutsideLoop \/ Crash
  \/ \E c \in Closers : Close(c) \/ CloseEnds(c)
  \/ \E h \in Handles : Rebalance(h)

Spec == Init /\ [][Next]_vars

(* The event loop runs every ready task, the driver's calls return, and a  *)
(* handler is assumed to end.  Nothing forces a rebalance, a close(), a    *)
(* cancellation or a crash.                                                *)
Fairness ==
  /\ WF_vars(StartReturns \/ StartFails)
  /\ WF_vars(FetchAfterClose \/ FetchGood \/ FetchPoison)
  /\ WF_vars(HandlerReturns \/ HandlerRaises)
  /\ WF_vars(CommitEnds)
  /\ WF_vars(IteratorStops)
  /\ WF_vars(StopEnds)
  /\ \A c \in Closers : WF_vars(CloseEnds(c))

FairSpec == Spec /\ Fairness

-----------------------------------------------------------------------------
(* No message is skipped: an offset the group has committed past was given *)
(* to a handler that returned, or was reported to nack() - across          *)
(* rebalances, sessions, close() at any await, cancellation and crashes.   *)
CommittedIsSettled == \A o \in 1 .. committed - 1 : o \in handled \union failed

(* The group's committed offset never moves back, although ack() commits   *)
(* whatever position the client has reached when commit() runs.            *)
CommitNeverRegresses == [][committed' >= committed]_vars

(* What the comment in subscribe() and the docstring of nack() say: a      *)
(* failed message's offset is never committed, so that it is redelivered.  *)
FailedStaysUncommitted == \A o \in failed \ handled : committed <= o

(* "Every adapter raises only AdapterError subclasses" (README.md).        *)
OnlyAdapterErrors == outcome \notin {"driver", "builtin"}

(* close() ends the session whose client it stops: once it waits for the   *)
(* client the loop iterates over, subscribe() returns.                     *)
CloseEndsSession ==
  \A c \in Closers : (closer[c] # 0 /\ closer[c] = loop) ~> task = "idle"

(* When subscribe() has ended and no close() is in progress, no driver     *)
(* client is left running, and so none keeps the partition from the next.  *)
NoClientLeftRunning ==
  (task = "idle" /\ \A c \in Closers : closer[c] = 0) =>
     \A h \in Handles : handle[h] # "up"

(* The abstraction: the broker owes every offset it has not committed, and *)
(* gives up only offsets whose payload or handler fails.  With MayFail and *)
(* Poison empty this is at-least-once delivery.                            *)
Delivery == INSTANCE AtLeastOnce WITH
  Messages <- Offsets,
  MayGiveUp <- Poison \union MayFail,
  owed <- {o \in Offsets : o >= committed}
ImplementsAtLeastOnce == Delivery!Spec
=============================================================================
