--------------------------- MODULE QueueProducer ---------------------------
(***************************************************************************)
(* The producers (queue/kafka, nats and rabbitmq: producer.py): an object  *)
(* that tasks start(), close() and publish with.  A client is the driver's *)
(* producer or connection.  Object o refers to it by client[o] (_producer, *)
(* _nc, _connection) and, on NATS and RabbitMQ, by chan[o] (_js, _channel),*)
(* through which it publishes.  Spec is the life of one object that is     *)
(* used directly; QueuePlugin makes one for each initialize().             *)
(*                                                                         *)
(*           `client` is stored     `chan` is stored    close()            *)
(* kafka     before it is started   --                  one await          *)
(* nats      when connected         with it             one await, then    *)
(*                                                      clears both        *)
(* rabbitmq  when connected         when it is open     the channel, then  *)
(*                                                      the connection     *)
(***************************************************************************)
EXTENDS Naturals, FiniteSets

CONSTANTS
  Brokers,     \* a subset of {"kafka", "nats", "rabbitmq"}
  Tasks,       \* tasks that call start() and close()
  Calls,       \* calls of publish() (one message) and publish_batch()
  Size,        \* Size[c]: the number of messages of a call
  MaxClients   \* bound: calls of start()

ASSUME ProducerAssumption ==
  /\ Brokers \subseteq {"kafka", "nats", "rabbitmq"}
  /\ Size \in [Calls -> Nat \ {0}]
  /\ MaxClients \in Nat \ {0}

VARIABLES
  broker,     \* which of the three this is
  client,     \* client[o]: the driver's client object o refers to, or 0
  chan,       \* chan[o]: the one it publishes through, or 0
  state,      \* state[h]: state of client h
  at, held,   \* where a task of start() or close() is suspended, on which
  self,       \* client, and the object whose method it runs
  callee,     \* callee[c]: the object a call publishes with, 0 if none yet
  phase,      \* phase[c]: "new", "sending", "flushing" or "done"
  attempted,  \* attempted[c]: messages handed to the driver
  accepted,   \* accepted[c]: messages the broker has accepted
  result,     \* result[c]: whether it returned or raised, and whether what it
              \* raised is the AttributeError of a method of None
  contended,  \* history: clients of overlapping or repeated calls of start()
              \* and close()
  faulted     \* history: clients whose start() or close() failed

lifecycle == <<broker, client, chan, state, at, held, self, contended, faulted>>
publishing == <<callee, phase, attempted, accepted, result>>
vars == <<lifecycle, publishing>>

Clients == 1 .. MaxClients
Objects == Clients          \* at most one object for each call of start()
Direct == 1                 \* the object of Spec
Suspended == {"connecting", "settingUp", "closingChannel", "closing"}
Results == {"none", "returned", "raised", "builtin"}

TypeOK ==
  /\ broker \in Brokers
  /\ client \in [Objects -> Clients \union {0}]
  /\ chan \in [Objects -> Clients \union {0}]
  /\ state \in [Clients -> {"absent", "connecting", "up", "closed"}]
  /\ at \in [Tasks -> Suspended \union {"idle"}]
  /\ held \in [Tasks -> Clients \union {0}]
  /\ self \in [Tasks -> Objects \union {0}]
  /\ callee \in [Calls -> Objects \union {0}]
  /\ phase \in [Calls -> {"new", "sending", "flushing", "done"}]
  /\ \A c \in Calls : attempted[c] \in 0 .. Size[c] /\ accepted[c] \in 0 .. Size[c]
  /\ result \in [Calls -> Results]
  /\ contended \subseteq Clients /\ faulted \subseteq Clients

Unused ==
  /\ client = [o \in Objects |-> 0] /\ chan = [o \in Objects |-> 0]
  /\ state = [h \in Clients |-> "absent"]
  /\ at = [t \in Tasks |-> "idle"]
  /\ held = [t \in Tasks |-> 0] /\ self = [t \in Tasks |-> 0]
  /\ phase = [c \in Calls |-> "new"]
  /\ attempted = [c \in Calls |-> 0] /\ accepted = [c \in Calls |-> 0]
  /\ result = [c \in Calls |-> "none"]
  /\ contended = {} /\ faulted = {}

Fresh == broker \in Brokers /\ Unused

Init == Fresh /\ callee = [c \in Calls |-> Direct]

Suspend(t, s, o, h) ==
  /\ at' = [at EXCEPT ![t] = s]
  /\ held' = [held EXCEPT ![t] = h]
  /\ self' = [self EXCEPT ![t] = o]
Resume(t) == Suspend(t, "idle", 0, 0)
SetState(h, s) == state' = [state EXCEPT ![h] = s]
SetClient(o, h) == client' = [client EXCEPT ![o] = h]
SetChan(o, h) == chan' = [chan EXCEPT ![o] = h]

(* The field that publish() tests and publishes through.                   *)
Sender(o) == IF broker = "kafka" THEN client[o] ELSE chan[o]

(* The clients that a start() or close() beginning now may interfere with. *)
InFlight == {held[t] : t \in {u \in Tasks : at[u] # "idle"}}
Referred(o) == {client[o], chan[o]} \ {0}

-----------------------------------------------------------------------------
(* start()                                                                 *)

StartOn(t, o, h) ==
  /\ at[t] = "idle"
  /\ state[h] = "absent" /\ \A k \in 1 .. h - 1 : state[k] # "absent"
  /\ SetState(h, "connecting")
  /\ IF broker = "kafka" THEN SetClient(o, h) ELSE UNCHANGED client
  /\ Suspend(t, "connecting", o, h)
  /\ UNCHANGED <<broker, chan, faulted, publishing>>

Start(t, h) ==
  /\ StartOn(t, Direct, h)
  /\ contended' = IF InFlight = {} /\ Referred(Direct) = {} THEN contended
                  ELSE contended \union {h} \union InFlight \union Referred(Direct)

(* A close() that stopped a Kafka producer in its start() has the last     *)
(* word about the producer, whatever start() returns.                      *)
Connected(t) ==
  LET h == held[t] IN
  /\ at[t] = "connecting" /\ broker # "kafka"
  /\ state' = [state EXCEPT ![h] = IF @ = "connecting" THEN "up" ELSE @]
  /\ SetClient(self[t], h)
  /\ IF broker = "nats" THEN SetChan(self[t], h) ELSE UNCHANGED chan
  /\ Suspend(t, "settingUp", self[t], h)
  /\ UNCHANGED <<broker, contended, faulted, publishing>>

KafkaStarted(t) ==
  /\ at[t] = "connecting" /\ broker = "kafka"
  /\ state' = [state EXCEPT ![held[t]] = IF @ = "connecting" THEN "up" ELSE @]
  /\ Resume(t)
  /\ UNCHANGED <<broker, client, chan, contended, faulted, publishing>>

(* The stream exists, or the channel is open: start() returns.             *)
SetUp(t) ==
  /\ at[t] = "settingUp" /\ state[held[t]] = "up"
  /\ IF broker = "rabbitmq" THEN SetChan(self[t], held[t]) ELSE UNCHANGED chan
  /\ Resume(t)
  /\ UNCHANGED <<broker, client, state, contended, faulted, publishing>>

(* start() raises.  The except clauses set the fields to None and leave    *)
(* the client alone; a cancellation passes them by.                        *)
StartFails(t, cleared) ==
  /\ at[t] \in {"connecting", "settingUp"}
  /\ IF cleared THEN SetClient(self[t], 0) /\ SetChan(self[t], 0)
     ELSE UNCHANGED <<client, chan>>
  /\ \/ UNCHANGED state
     \/ at[t] = "connecting" /\ SetState(held[t], "closed")
  /\ faulted' = faulted \union {held[t]}
  /\ Resume(t)
  /\ UNCHANGED <<broker, contended, publishing>>

-----------------------------------------------------------------------------
(* close()                                                                 *)

CloseBegins(t, o) ==
  /\ at[t] = "idle" /\ Referred(o) # {}
  /\ IF broker = "rabbitmq" /\ chan[o] # 0
       THEN Suspend(t, "closingChannel", o, chan[o])
       ELSE client[o] # 0 /\ Suspend(t, "closing", o, client[o])
  /\ contended' = IF InFlight = {} THEN contended
                  ELSE contended \union InFlight \union Referred(o)
  /\ UNCHANGED <<broker, client, chan, state, faulted, publishing>>

(* The channel is closed, or its close() raised: on to the connection.     *)
ChannelClosed(t) ==
  LET o == self[t] IN
  /\ at[t] = "closingChannel"
  /\ SetChan(o, 0)
  /\ IF client[o] # 0 THEN Suspend(t, "closing", o, client[o]) ELSE Resume(t)
  /\ UNCHANGED <<broker, client, state, contended, faulted, publishing>>

(* Cancelled on the channel: the finally clause runs, the rest does not.   *)
ChannelCloseCancelled(t) ==
  /\ at[t] = "closingChannel"
  /\ SetChan(self[t], 0)
  /\ faulted' = faulted \union {held[t]}
  /\ Resume(t)
  /\ UNCHANGED <<broker, client, state, contended, publishing>>

(* The fields are cleared, whichever client they refer to by now.          *)
ClearFields(t) ==
  /\ at[t] = "closing"
  /\ SetClient(self[t], 0)
  /\ IF broker = "nats" THEN SetChan(self[t], 0) ELSE UNCHANGED chan
  /\ Resume(t)
  /\ UNCHANGED <<broker, contended, publishing>>

(* Variant of Closed: the client itself is left alone.                     *)
ClosedByName(t) == ClearFields(t) /\ UNCHANGED <<state, faulted>>

Closed(t) ==
  /\ ClearFields(t)
  /\ SetState(held[t], "closed")
  /\ UNCHANGED faulted

(* The driver raises, or the task is cancelled: the finally clause clears  *)
(* the fields all the same.                                                *)
CloseFails(t) ==
  /\ ClearFields(t)
  /\ faulted' = faulted \union {held[t]}
  /\ UNCHANGED state

CloseEnds(t) ==
  \/ ChannelClosed(t) \/ ChannelCloseCancelled(t)
  \/ Closed(t) \/ CloseFails(t)

-----------------------------------------------------------------------------
(* publish() and publish_batch()                                           *)

End(c, r) ==
  /\ phase' = [phase EXCEPT ![c] = "done"]
  /\ result' = [result EXCEPT ![c] = r]

(* Hands the next message to the driver: _serialise() may raise, and       *)
(* publish_batch() reads the field again, which may be None by now: None   *)
(* has no method to publish with, and no except clause catches that.       *)
SendNext(c) ==
  \/ End(c, "raised") /\ UNCHANGED attempted
  \/ Sender(callee[c]) = 0 /\ End(c, "builtin") /\ UNCHANGED attempted
  \/ /\ Sender(callee[c]) # 0
     /\ attempted' = [attempted EXCEPT ![c] = @ + 1]
     /\ phase' = [phase EXCEPT ![c] = "sending"]
     /\ UNCHANGED result

(* Variant of Publish: whether there is a client is not tested first.      *)
PublishUntested(c) ==
  /\ phase[c] = "new"
  /\ SendNext(c)
  /\ UNCHANGED <<callee, accepted, lifecycle>>

Publish(c) ==
  /\ phase[c] = "new"
  /\ IF Sender(callee[c]) = 0
       THEN End(c, "raised") /\ UNCHANGED attempted
       ELSE SendNext(c)
  /\ UNCHANGED <<callee, accepted, lifecycle>>

Accept(c) == accepted' = [accepted EXCEPT ![c] = @ + 1]

(* The broker acknowledged a message that is not the last of a batch.      *)
SentOne(c) ==
  /\ phase[c] = "sending" /\ attempted[c] < Size[c]
  /\ Accept(c)
  /\ SendNext(c)
  /\ UNCHANGED <<callee, lifecycle>>

(* The last message is acknowledged; Kafka's publish_batch() then flushes  *)
(* the producer, which the field has to refer to still.                    *)
SentLast(c) ==
  /\ phase[c] = "sending" /\ attempted[c] = Size[c]
  /\ Accept(c)
  /\ IF broker = "kafka" /\ Size[c] > 1
       THEN IF Sender(callee[c]) = 0 THEN End(c, "builtin")
            ELSE phase' = [phase EXCEPT ![c] = "flushing"] /\ UNCHANGED result
       ELSE End(c, "returned")
  /\ UNCHANGED <<callee, attempted, lifecycle>>

(* Variant of SendFails: the error of a message is dropped and the batch   *)
(* goes on with the next one.                                              *)
SendSkips(c) ==
  /\ phase[c] = "sending"
  /\ IF attempted[c] < Size[c] THEN SendNext(c)
     ELSE End(c, "returned") /\ UNCHANGED attempted
  /\ UNCHANGED <<callee, accepted, lifecycle>>

(* Variant of SendFails: the message is sent once more.                    *)
SendAgain(c) ==
  /\ phase[c] = "sending"
  /\ SendNext(c)
  /\ UNCHANGED <<callee, accepted, lifecycle>>

(* The driver raises, the timeout expires or the task is cancelled.  The   *)
(* message may have been accepted, or be accepted after the call.          *)
SendFails(c) ==
  /\ phase[c] = "sending"
  /\ End(c, "raised")
  /\ UNCHANGED <<callee, attempted, accepted, lifecycle>>

AcceptedLate(c) ==
  /\ phase[c] = "done" /\ accepted[c] < attempted[c]
  /\ Accept(c)
  /\ UNCHANGED <<callee, phase, attempted, result, lifecycle>>

FlushEnds(c) ==
  /\ phase[c] = "flushing"
  /\ \E r \in {"returned", "raised"} : End(c, r)
  /\ UNCHANGED <<callee, attempted, accepted, lifecycle>>

-----------------------------------------------------------------------------
PublishNext(c) ==
  \/ SentOne(c) \/ SentLast(c) \/ SendFails(c) \/ FlushEnds(c)

Next ==
  \/ \E t \in Tasks :
       \/ \E h \in Clients : Start(t, h)
       \/ Connected(t) \/ KafkaStarted(t) \/ SetUp(t)
       \/ \E cleared \in BOOLEAN : StartFails(t, cleared)
       \/ CloseBegins(t, Direct) \/ CloseEnds(t)
  \/ \E c \in Calls : Publish(c) \/ PublishNext(c) \/ AcceptedLate(c)

Spec == Init /\ [][Next]_vars

(* Every awaited call of the driver ends: operation_timeout bounds a       *)
(* publish, and close() waits for one answer of the driver.                *)
FairSpec ==
  /\ Spec
  /\ \A t \in Tasks : WF_vars(CloseEnds(t))
  /\ \A c \in Calls : WF_vars(PublishNext(c))

-----------------------------------------------------------------------------
(* Properties                                                              *)

Promised == INSTANCE Outbox

(* publish() and publish_batch() keep the promise of Outbox, whatever      *)
(* start() and close() do meanwhile: no gap, no call that returns before   *)
(* the broker has all of its messages, at most one message in doubt.       *)
ImplementsOutbox == Promised!Spec

(* A client that is up is known to the producer, or to the task that is    *)
(* starting or closing it, unless calls of start() and close() overlapped, *)
(* start() was called twice, or one of them failed.                        *)
LiveClientIsKnown ==
  \A h \in Clients \ (contended \union faulted) :
    state[h] = "up" => h \in {client[o] : o \in Objects} \union InFlight

(* A call that ends in an AttributeError, since a close() has taken the    *)
(* client from it, has had a message accepted, and leaves none in doubt:   *)
(* every message it has handed over is with the broker.                    *)
LostDuringBatch ==
  \A c \in Calls :
    result[c] = "builtin" => 0 < accepted[c] /\ accepted[c] = attempted[c]
=============================================================================
