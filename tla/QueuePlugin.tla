---------------------------- MODULE QueuePlugin ----------------------------
(***************************************************************************)
(* The plugins of the three brokers (queue/kafka, nats, rabbitmq:          *)
(* plugin.py) and the producer objects they manage.  initialize() makes a  *)
(* new object and starts it, shutdown() closes the one the plugin refers   *)
(* to, and callers publish with the object get_producer() gave them, which *)
(* may be an older one by then.                                            *)
(*                                                                         *)
(* A producer is either `managed` by its plugin or used directly; Init     *)
(* chooses.  A fresh object is numbered after the client it will start.    *)
(***************************************************************************)
EXTENDS QueueProducer

VARIABLES
  managed,   \* whether the producers are those of a plugin
  status,    \* _status
  producer   \* _producer: the object the plugin refers to, 0 for None

plugin == <<status, producer>>
pvars == <<managed, plugin, vars>>

Statuses ==
  {"REGISTERED", "INITIALIZED", "READY", "FAILED", "STOPPING", "STOPPED"}

PluginTypeOK ==
  /\ TypeOK
  /\ managed \in BOOLEAN /\ status \in Statuses
  /\ producer \in Objects \union {0}
  /\ ~managed => status = "REGISTERED" /\ producer = 0

PluginInit ==
  /\ status = "REGISTERED" /\ producer = 0
  /\ \/ managed = FALSE /\ Init
     \/ managed = TRUE /\ Fresh /\ callee = [c \in Calls |-> 0]

(* What health() reports and get_producer() requires.                      *)
Ready == producer # 0 /\ status = "READY"

-----------------------------------------------------------------------------
(* initialize()                                                            *)

(* It runs up to the await in the start() of a fresh object.  The object   *)
(* it replaces, if any, keeps its client.                                  *)
Initialize(t) ==
  \E h \in Clients :
    /\ StartOn(t, h, h)
    /\ status' = "INITIALIZED" /\ producer' = h
    /\ contended' = contended
         \union (IF producer = 0 THEN {} ELSE Referred(producer))
         \union (IF InFlight = {} THEN {} ELSE InFlight \union {h})

(* Variant of Initialized: READY as soon as the broker has answered.       *)
InitializedEarly(t) ==
  /\ Connected(t) \/ KafkaStarted(t) \/ SetUp(t)
  /\ status' = "READY"
  /\ UNCHANGED producer

(* start() returns.  The status is set, whatever it has become meanwhile.  *)
Initialized(t) ==
  /\ \/ Connected(t) /\ UNCHANGED status
     \/ (KafkaStarted(t) \/ SetUp(t)) /\ status' = "READY"
  /\ UNCHANGED producer

(* An Exception is recorded and raised again; a cancellation passes by.    *)
InitializeFails(t) ==
  /\ \E cleared \in BOOLEAN :
       /\ StartFails(t, cleared)
       /\ status' = "FAILED" \/ (~cleared /\ UNCHANGED status)
  /\ UNCHANGED producer

-----------------------------------------------------------------------------
(* shutdown()                                                              *)

(* Variant of Shutdown: closes only a READY producer, having just set the  *)
(* status to STOPPING.                                                     *)
ShutdownUnclosed(t) ==
  /\ at[t] = "idle"
  /\ status' = "STOPPED"
  /\ UNCHANGED <<producer, vars>>

(* close() returns at once when the object has no client (yet).            *)
Shutdown(t) ==
  /\ at[t] = "idle"
  /\ IF producer # 0 /\ Referred(producer) # {}
       THEN CloseBegins(t, producer) /\ status' = "STOPPING"
       ELSE /\ status' = "STOPPED"
            /\ contended' = contended \union InFlight
            /\ UNCHANGED <<broker, client, chan, state, at, held, self, faulted,
                           publishing>>
  /\ UNCHANGED producer

(* Variant of ShutdownEnds: no finally clause.                             *)
ShutdownEndsUnlessRaised(t) ==
  /\ CloseEnds(t)
  /\ status' = IF at'[t] = "idle" /\ faulted' = faulted THEN "STOPPED" ELSE status
  /\ UNCHANGED producer

(* The finally clause: STOPPED, also when close() was cancelled.           *)
ShutdownEnds(t) ==
  /\ CloseEnds(t)
  /\ status' = IF at'[t] = "idle" THEN "STOPPED" ELSE status
  /\ UNCHANGED producer

-----------------------------------------------------------------------------
(* get_producer(): the caller keeps the object it got.                     *)
GetProducer(c) ==
  /\ phase[c] = "new" /\ callee[c] = 0
  /\ IF Ready
       THEN /\ callee' = [callee EXCEPT ![c] = producer]
            /\ UNCHANGED <<phase, result>>
       ELSE End(c, "raised") /\ UNCHANGED callee
  /\ UNCHANGED <<plugin, attempted, accepted, lifecycle>>

Publishing(c) ==
  \/ Publish(c) \/ PublishNext(c) \/ AcceptedLate(c)

PluginNext ==
  /\ UNCHANGED managed
  /\ \/ ~managed /\ Next /\ UNCHANGED plugin
     \/ /\ managed
        /\ \/ \E t \in Tasks :
                \/ Initialize(t) \/ Initialized(t) \/ InitializeFails(t)
                \/ Shutdown(t) \/ ShutdownEnds(t)
           \/ \E c \in Calls :
                \/ GetProducer(c)
                \/ callee[c] # 0 /\ Publishing(c) /\ UNCHANGED plugin

(* The fairness of QueueProducer, for the steps of the plugin's tasks.     *)
PluginSpec ==
  /\ PluginInit /\ [][PluginNext]_pvars
  /\ \A t \in Tasks :
       WF_pvars(IF managed THEN ShutdownEnds(t) /\ UNCHANGED managed
                ELSE CloseEnds(t) /\ UNCHANGED <<managed, plugin>>)
  /\ \A c \in Calls : WF_pvars(PublishNext(c) /\ UNCHANGED <<managed, plugin>>)

-----------------------------------------------------------------------------
(* Properties                                                              *)

(* A plugin that says it is READY has a producer that can publish, unless  *)
(* its initialize() overlapped another call or the client's shutdown       *)
(* failed: READY is not set before start() is done, and is taken back      *)
(* before close() gives up the first of the driver's objects.              *)
ReadyCanPublish ==
  managed /\ Ready =>
    \/ Sender(producer) # 0 /\ state[Sender(producer)] = "up"
    \/ producer \in contended \union faulted

(* When the plugin has STOPPED, no client is up, also while calls are      *)
(* under way, except one whose initialize() overlapped a shutdown(), was   *)
(* replaced by a second initialize(), or failed: it stays up for good.     *)
StoppedLeavesNoClient ==
  managed /\ status = "STOPPED" =>
    \A h \in Clients \ (contended \union faulted) : state[h] # "up"

(* A shutdown() that waits for close() ends, and the plugin no longer says *)
(* STOPPING, also when close() raises or is cancelled.                     *)
StoppingEnds == status = "STOPPING" ~> status # "STOPPING"

(* The clients a later close() or shutdown() can reach, or a call that is  *)
(* under way.                                                              *)
Reachable ==
  InFlight \union
    (IF managed THEN IF producer = 0 THEN {} ELSE Referred(producer)
     ELSE Referred(Direct))

(* "Close the NATS connection and release resources" (nats/producer.py):   *)
(* when the last call of start() or close() under way ends, by returning   *)
(* or raising, it does not lose the reference to a client that is up, but  *)
(* in a close() of that client which the driver failed.                    *)
NoClientLost ==
  [][InFlight' = {} =>
       \A h \in Reachable :
         state'[h] = "up" =>
           \/ h \in Reachable'
           \/ \E t \in Tasks : at[t] \in {"closing", "closingChannel"} /\ held[t] = h
    ]_pvars
=============================================================================
