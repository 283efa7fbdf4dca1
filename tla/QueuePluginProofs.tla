-------------------------- MODULE QueuePluginProofs --------------------------
(***************************************************************************)
(* Theorems about QueueProducer and QueuePlugin for every broker, any      *)
(* number of tasks, clients and calls, and batches of any size.            *)
(*                                                                         *)
(* None of the properties is inductive.  They all rest on one argument:    *)
(* as long as the life of a client is neither overlapped nor failed (it is *)
(* not Spoilt), the task that starts or closes it is alone, and the fields *)
(* of its object are what that task has left there (FlightInv,             *)
(* OverlapInv).  AliasInv keeps the two fields of an object on the same    *)
(* client, and ManagedInv ties status and producer to that client.         *)
(* PublishInv says how far a call of publish_batch() is.                   *)
(***************************************************************************)
EXTENDS QueuePlugin, TLAPS

(* No client, or one whose start() or close() overlapped another call or   *)
(* failed.                                                                 *)
Spoilt(k) == k = 0 \/ k \in contended \/ k \in faulted

(* A task that starts or closes an object knows what its fields refer to.  *)
FlightInv ==
  \A t \in Tasks : at[t] # "idle" =>
    /\ held[t] \in Clients /\ self[t] \in Objects
    /\ at[t] # "closingChannel" =>
         client[self[t]] = held[t] \/ Spoilt(client[self[t]])
    /\ at[t] \in {"connecting", "settingUp"} =>
         chan[self[t]] = held[t] \/ Spoilt(chan[self[t]])
    /\ at[t] = "closing" /\ broker # "nats" => Spoilt(chan[self[t]])
    /\ \/ Spoilt(held[t])
       \/ /\ at[t] = "connecting" =>
               state[held[t]] = "connecting" /\
               (broker = "kafka" => client[self[t]] = held[t])
          /\ at[t] \in {"settingUp", "closingChannel"} =>
               client[self[t]] = held[t]
          /\ at[t] = "settingUp" /\ broker = "nats" =>
               chan[self[t]] = held[t]

(* Two tasks at once spoil both clients, and all that their objects refer  *)
(* to.                                                                     *)
OverlapInv ==
  \A t, u \in Tasks : t # u /\ at[t] # "idle" /\ at[u] # "idle" =>
    /\ Spoilt(held[t])
    /\ Spoilt(client[self[t]]) /\ Spoilt(chan[self[t]])

(* An object publishes through the client it refers to.                    *)
AliasInv ==
  \A o \in Objects :
    /\ Spoilt(chan[o]) \/ client[o] = chan[o]
    /\ broker = "kafka" => chan[o] = 0

(* A client that is up is its object's, or that of a task that starts or   *)
(* closes it.                                                              *)
KnownInv ==
  \A h \in Clients : state[h] = "up" =>
    \/ Spoilt(h)
    \/ \E o \in Objects : client[o] = h
    \/ \E t \in Tasks : at[t] # "idle" /\ held[t] = h

(* A producer used directly is one object.                                 *)
DirectInv == \A t \in Tasks : at[t] # "idle" => self[t] = Direct

(* The producers of a plugin: each has a client of its own, ...            *)
OwnInv == \A o \in Objects : client[o] \in {0, o} /\ chan[o] \in {0, o}

(* ... only the latest may be unspoilt, ...                                *)
LatestInv == \A h \in Clients : state[h] = "up" => h = producer \/ Spoilt(h)

(* ... a task of an unspoilt one has set the status, ...                   *)
TaskInv ==
  \A t \in Tasks : at[t] # "idle" =>
    /\ held[t] = self[t] /\ producer # 0
    /\ self[t] # producer => Spoilt(self[t]) /\ Spoilt(producer)
    /\ \/ Spoilt(self[t])
       \/ at[t] \in {"connecting", "settingUp"} /\ status = "INITIALIZED"
       \/ at[t] \in {"closingChannel", "closing"} /\ status = "STOPPING"

(* ... and the status tells what has become of it.                         *)
StatusInv ==
  \/ Spoilt(producer)
  \/ /\ status = "READY" =>
          Sender(producer) = producer /\ state[producer] = "up"
     /\ status = "STOPPED" => state[producer] # "up"

(* What holds of a producer used directly, and of one under a plugin.      *)
ManagedInv ==
  /\ ~managed => DirectInv
  /\ managed => OwnInv /\ LatestInv /\ TaskInv /\ StatusInv

(* The types of the variables of start() and close(), ...                  *)
LifecycleType ==
  /\ broker \in Brokers
  /\ client \in [Objects -> Clients \union {0}]
  /\ chan \in [Objects -> Clients \union {0}]
  /\ state \in [Clients -> {"absent", "connecting", "up", "closed"}]
  /\ at \in [Tasks -> Suspended \union {"idle"}]
  /\ held \in [Tasks -> Clients \union {0}]
  /\ self \in [Tasks -> Objects \union {0}]
  /\ contended \subseteq Clients /\ faulted \subseteq Clients

(* ... of those of the publishing calls, ...                               *)
PublishType ==
  /\ callee \in [Calls -> Objects \union {0}]
  /\ phase \in [Calls -> {"new", "sending", "flushing", "done"}]
  /\ attempted \in [Calls -> Nat] /\ accepted \in [Calls -> Nat]
  /\ result \in [Calls -> Results]

(* ... and of the plugin's.                                                *)
PluginType ==
  /\ managed \in BOOLEAN /\ status \in Statuses
  /\ producer \in Objects \union {0}
  /\ ~managed => status = "REGISTERED" /\ producer = 0

(* How far a call is: while it sends, exactly one message is in doubt.     *)
PublishInv ==
  \A c \in Calls :
    /\ phase[c] # "done" <=> result[c] = "none"
    /\ accepted[c] <= attempted[c] /\ attempted[c] <= Size[c]
    /\ phase[c] = "new" => attempted[c] = 0
    /\ phase[c] = "sending" => attempted[c] = accepted[c] + 1
    /\ phase[c] = "flushing" => accepted[c] = Size[c]
    /\ result[c] = "builtin" => 0 < accepted[c] /\ accepted[c] = attempted[c]

(* The inductive invariant.                                                *)
IInv ==
  /\ LifecycleType /\ PublishType /\ PluginType
  /\ FlightInv /\ OverlapInv /\ AliasInv /\ KnownInv /\ ManagedInv
  /\ PublishInv

USE ProducerAssumption

-----------------------------------------------------------------------------
(* Effects, task by task and object by object.                             *)

(* Where a task is after it has suspended, and the others.                 *)
LEMMA SuspendEffect ==
  ASSUME LifecycleType, NEW t \in Tasks, NEW s, NEW o, NEW h, Suspend(t, s, o, h)
  PROVE  /\ at'[t] = s /\ held'[t] = h /\ self'[t] = o
         /\ \A u \in Tasks : u # t =>
              at'[u] = at[u] /\ held'[u] = held[u] /\ self'[u] = self[u]
BY DEF LifecycleType, Suspend

(* An assignment to one object's first field, ...                          *)
LEMMA SetClientEffect ==
  ASSUME LifecycleType, NEW o \in Objects, NEW h, SetClient(o, h)
  PROVE  client'[o] = h /\ \A p \in Objects : p # o => client'[p] = client[p]
BY DEF LifecycleType, SetClient

(* ... to its second field, ...                                            *)
LEMMA SetChanEffect ==
  ASSUME LifecycleType, NEW o \in Objects, NEW h, SetChan(o, h)
  PROVE  chan'[o] = h /\ \A p \in Objects : p # o => chan'[p] = chan[p]
BY DEF LifecycleType, SetChan

(* ... and to the state of one client.                                     *)
LEMMA SetStateEffect ==
  ASSUME LifecycleType, NEW h \in Clients, NEW s, SetState(h, s)
  PROVE  state'[h] = s /\ \A k \in Clients : k # h => state'[k] = state[k]
BY DEF LifecycleType, SetState

(* 0 stands for no client.                                                 *)
LEMMA ClientsPositive == 0 \notin Clients
BY DEF Clients

-----------------------------------------------------------------------------
(* What a step of start() or close() does to the life of the clients.      *)
LifeInv == FlightInv /\ OverlapInv /\ AliasInv /\ KnownInv

(* start(): the driver has connected.                                      *)
LEMMA ConnectedStep ==
  ASSUME IInv, NEW t \in Tasks, Connected(t)
  PROVE  /\ LifeInv'
         /\ UNCHANGED <<managed, producer>>
            /\ UNCHANGED status => ManagedInv'
<1> DEFINE h == held[t]
           o == self[t]
<1>0. LifecycleType /\ LifeInv
  BY DEF IInv, LifeInv
<1>1. /\ h \in Clients /\ o \in Objects /\ at[t] = "connecting"
      /\ broker # "kafka" /\ h # 0
  BY <1>0, ClientsPositive DEF Connected, LifeInv, FlightInv
<1>2. /\ at'[t] = "settingUp" /\ held'[t] = h /\ self'[t] = o
      /\ \A u \in Tasks : u # t =>
           at'[u] = at[u] /\ held'[u] = held[u] /\ self'[u] = self[u]
  BY <1>0, SuspendEffect DEF Connected
<1>3. client'[o] = h /\ \A p \in Objects : p # o => client'[p] = client[p]
  BY <1>0, <1>1, SetClientEffect DEF Connected
<1>4. /\ chan'[o] = IF broker = "nats" THEN h ELSE chan[o]
      /\ \A p \in Objects : p # o => chan'[p] = chan[p]
  BY <1>0, <1>1, SetChanEffect DEF Connected
<1>5. /\ state'[h] = IF state[h] = "connecting" THEN "up" ELSE state[h]
      /\ \A k \in Clients : k # h => state'[k] = state[k]
  BY <1>0, <1>1 DEF Connected, LifecycleType
<1>6. UNCHANGED <<broker, contended, faulted>>
  BY DEF Connected
<1>m. ManagedInv /\ producer \in Objects \union {0}
  BY DEF IInv, PluginType
<1> HIDE DEF h, o
<1>h. h = held[t] /\ o = self[t]
  BY DEF h, o
<1> USE <1>1, <1>2, <1>3, <1>4, <1>5, <1>6, <1>h DEF Spoilt
<1>7. FlightInv'
  BY <1>0 DEF LifeInv, FlightInv, OverlapInv
<1>8. OverlapInv'
  BY <1>0 DEF LifeInv, FlightInv, OverlapInv
<1>9. AliasInv'
  BY <1>0 DEF LifeInv, FlightInv, AliasInv
<1>10. KnownInv'
  BY <1>0 DEF LifeInv, FlightInv, KnownInv
<1>11. ASSUME UNCHANGED <<managed, producer>>, UNCHANGED status
       PROVE  ManagedInv'
  <2>1. CASE ~managed
    BY <1>11, <2>1, <1>m DEF ManagedInv, DirectInv
  <2>2. CASE managed
    <3>0. OwnInv /\ LatestInv /\ TaskInv /\ StatusInv /\ OverlapInv /\ FlightInv
      BY <2>2, <1>m, <1>0 DEF ManagedInv, LifeInv
    <3> USE <1>11, <2>2, <3>0
    <3>1. OwnInv'
      BY DEF OwnInv, TaskInv
    <3>2. LatestInv'
      BY DEF LatestInv, TaskInv
    <3>3. TaskInv'
      <4>1. ASSUME NEW u \in Tasks, u # t, at[u] # "idle"
            PROVE  Spoilt(self[u]) /\ self'[u] = self[u] /\ held'[u] = self[u]
        BY <4>1 DEF TaskInv, OverlapInv
      <4>2. held[t] = self[t] /\ producer # 0
        BY DEF TaskInv
      <4> QED BY <4>1, <4>2 DEF TaskInv, OwnInv
    <3>4. StatusInv'
      BY <1>m DEF StatusInv, TaskInv, FlightInv, Sender
    <3> QED BY <3>1, <3>2, <3>3, <3>4 DEF ManagedInv
  <2> QED BY <2>1, <2>2
<1> QED BY <1>7, <1>8, <1>9, <1>10, <1>11 DEF LifeInv

(* start() returns, on Kafka ...                                           *)
LEMMA KafkaStartedStep ==
  ASSUME IInv, NEW t \in Tasks, KafkaStarted(t)
  PROVE  /\ LifeInv'
         /\ UNCHANGED <<managed, producer>>
            /\ (managed => status' = "READY") => ManagedInv'
<1> DEFINE h == held[t]
           o == self[t]
<1>0. LifecycleType /\ LifeInv
  BY DEF IInv, LifeInv
<1>1. /\ h \in Clients /\ o \in Objects /\ h # 0
      /\ at[t] = "connecting" /\ broker = "kafka"
  BY <1>0, ClientsPositive DEF KafkaStarted, LifeInv, FlightInv
<1>2. /\ at'[t] = "idle" /\ held'[t] = 0 /\ self'[t] = 0
      /\ \A u \in Tasks : u # t =>
           at'[u] = at[u] /\ held'[u] = held[u] /\ self'[u] = self[u]
  BY <1>0, SuspendEffect DEF KafkaStarted, Resume
<1>3. UNCHANGED client
  BY <1>0, <1>1, SetClientEffect DEF KafkaStarted
<1>4. UNCHANGED chan
  BY <1>0, <1>1, SetChanEffect DEF KafkaStarted
<1>5. /\ state'[h] = IF state[h] = "connecting" THEN "up" ELSE state[h]
      /\ \A k \in Clients : k # h => state'[k] = state[k]
  BY <1>0, <1>1, SetStateEffect DEF KafkaStarted, LifecycleType
<1>6. UNCHANGED <<broker, contended, faulted>>
  BY DEF KafkaStarted
<1>m. ManagedInv /\ producer \in Objects \union {0}
  BY DEF IInv, PluginType
<1> HIDE DEF h, o
<1>h. h = held[t] /\ o = self[t]
  BY DEF h, o
<1> USE <1>1, <1>2, <1>3, <1>4, <1>5, <1>6, <1>h DEF Spoilt
<1>7. FlightInv'
  BY <1>0 DEF LifeInv, FlightInv, OverlapInv, AliasInv
<1>8. OverlapInv'
  BY <1>0 DEF LifeInv, FlightInv, OverlapInv
<1>9. AliasInv'
  BY <1>0 DEF LifeInv, FlightInv, OverlapInv, AliasInv
<1>10. KnownInv'
  BY <1>0 DEF LifeInv, FlightInv, KnownInv
<1>11. ASSUME UNCHANGED <<managed, producer>>, (managed => status' = "READY")
       PROVE  ManagedInv'
  <2>1. CASE ~managed
    BY <1>11, <2>1, <1>m DEF ManagedInv, DirectInv
  <2>2. CASE managed
    <3>0. OwnInv /\ LatestInv /\ TaskInv /\ StatusInv /\ OverlapInv /\ FlightInv
      BY <2>2, <1>m, <1>0 DEF ManagedInv, LifeInv
    <3> USE <1>11, <2>2, <3>0
    <3>1. OwnInv'
      BY DEF OwnInv, TaskInv
    <3>2. LatestInv'
      BY DEF LatestInv, TaskInv
    <3>3. TaskInv'
      <4>1. ASSUME NEW u \in Tasks, u # t, at[u] # "idle"
            PROVE  Spoilt(self[u]) /\ self'[u] = self[u] /\ held'[u] = self[u]
        BY <4>1 DEF TaskInv, OverlapInv
      <4>2. held[t] = self[t] /\ producer # 0
        BY DEF TaskInv
      <4> QED BY <4>1, <4>2 DEF TaskInv, OwnInv
    <3>4. StatusInv'
      BY <1>m DEF StatusInv, TaskInv, FlightInv, Sender
    <3> QED BY <3>1, <3>2, <3>3, <3>4 DEF ManagedInv
  <2> QED BY <2>1, <2>2
<1> QED BY <1>7, <1>8, <1>9, <1>10, <1>11 DEF LifeInv

(* ... and on the others.                                                  *)
LEMMA SetUpStep ==
  ASSUME IInv, NEW t \in Tasks, SetUp(t)
  PROVE  /\ LifeInv'
         /\ UNCHANGED <<managed, producer>>
            /\ (managed => status' = "READY") => ManagedInv'
<1> DEFINE h == held[t]
           o == self[t]
<1>0. LifecycleType /\ LifeInv
  BY DEF IInv, LifeInv
<1>1. /\ h \in Clients /\ o \in Objects /\ h # 0
      /\ at[t] = "settingUp" /\ state[h] = "up"
  BY <1>0, ClientsPositive DEF SetUp, LifeInv, FlightInv
<1>2. /\ at'[t] = "idle" /\ held'[t] = 0 /\ self'[t] = 0
      /\ \A u \in Tasks : u # t =>
           at'[u] = at[u] /\ held'[u] = held[u] /\ self'[u] = self[u]
  BY <1>0, SuspendEffect DEF SetUp, Resume
<1>3. UNCHANGED client
  BY <1>0, <1>1, SetClientEffect DEF SetUp
<1>4. /\ chan'[o] = IF broker = "rabbitmq" THEN h ELSE chan[o]
      /\ \A p \in Objects : p # o => chan'[p] = chan[p]
  BY <1>0, <1>1, SetChanEffect DEF SetUp
<1>5. UNCHANGED state
  BY <1>0, <1>1, SetStateEffect DEF SetUp, LifecycleType
<1>6. UNCHANGED <<broker, contended, faulted>>
  BY DEF SetUp
<1>m. ManagedInv /\ producer \in Objects \union {0}
  BY DEF IInv, PluginType
<1> HIDE DEF h, o
<1>h. h = held[t] /\ o = self[t]
  BY DEF h, o
<1> USE <1>1, <1>2, <1>3, <1>4, <1>5, <1>6, <1>h DEF Spoilt
<1>7. FlightInv'
  BY <1>0 DEF LifeInv, FlightInv, OverlapInv, AliasInv
<1>8. OverlapInv'
  BY <1>0 DEF LifeInv, FlightInv, OverlapInv
<1>9. AliasInv'
  BY <1>0 DEF LifeInv, FlightInv, OverlapInv, AliasInv
<1>10. KnownInv'
  BY <1>0 DEF LifeInv, FlightInv, KnownInv
<1>11. ASSUME UNCHANGED <<managed, producer>>, (managed => status' = "READY")
       PROVE  ManagedInv'
  <2>1. CASE ~managed
    BY <1>11, <2>1, <1>m DEF ManagedInv, DirectInv
  <2>2. CASE managed
    <3>0. OwnInv /\ LatestInv /\ TaskInv /\ StatusInv /\ OverlapInv /\ FlightInv
      BY <2>2, <1>m, <1>0 DEF ManagedInv, LifeInv
    <3> USE <1>11, <2>2, <3>0
    <3>1. OwnInv'
      BY DEF OwnInv, TaskInv
    <3>2. LatestInv'
      BY DEF LatestInv, TaskInv
    <3>3. TaskInv'
      <4>1. ASSUME NEW u \in Tasks, u # t, at[u] # "idle"
            PROVE  Spoilt(self[u]) /\ self'[u] = self[u] /\ held'[u] = self[u]
        BY <4>1 DEF TaskInv, OverlapInv
      <4>2. held[t] = self[t] /\ producer # 0
        BY DEF TaskInv
      <4> QED BY <4>1, <4>2 DEF TaskInv, OwnInv
    <3>4. StatusInv'
      <4>1. broker \in {"kafka", "nats", "rabbitmq"}
        BY <1>0 DEF LifecycleType
      <4> QED BY <4>1, <1>m DEF StatusInv, TaskInv, FlightInv, Sender
    <3> QED BY <3>1, <3>2, <3>3, <3>4 DEF ManagedInv
  <2> QED BY <2>1, <2>2
<1> QED BY <1>7, <1>8, <1>9, <1>10, <1>11 DEF LifeInv

(* start() raises: its client is spoilt.                                   *)
LEMMA StartFailsStep ==
  ASSUME IInv, NEW t \in Tasks, NEW cleared \in BOOLEAN, StartFails(t, cleared)
  PROVE  /\ LifeInv'
         /\ UNCHANGED <<managed, producer>>
            /\ status' \in {status, "FAILED"} => ManagedInv'
<1> DEFINE h == held[t]
           o == self[t]
<1>0. LifecycleType /\ LifeInv
  BY DEF IInv, LifeInv
<1>1. /\ h \in Clients /\ o \in Objects /\ h # 0
      /\ at[t] \in {"connecting", "settingUp"}
  BY <1>0, ClientsPositive DEF StartFails, LifeInv, FlightInv
<1>2. /\ at'[t] = "idle" /\ held'[t] = 0 /\ self'[t] = 0
      /\ \A u \in Tasks : u # t =>
           at'[u] = at[u] /\ held'[u] = held[u] /\ self'[u] = self[u]
  BY <1>0, SuspendEffect DEF StartFails, Resume
<1>3. /\ client'[o] \in {0, client[o]}
      /\ \A p \in Objects : p # o => client'[p] = client[p]
  BY <1>0, <1>1, SetClientEffect DEF StartFails
<1>4. /\ chan'[o] \in {0, chan[o]}
      /\ \A p \in Objects : p # o => chan'[p] = chan[p]
  BY <1>0, <1>1, SetChanEffect DEF StartFails
<1>5. /\ state'[h] \in {state[h], "closed"}
      /\ \A k \in Clients : k # h => state'[k] = state[k]
  BY <1>0, <1>1, SetStateEffect DEF StartFails, LifecycleType
<1>6. UNCHANGED <<broker, contended>> /\ faulted' = faulted \union {h}
  BY DEF StartFails
<1>m. ManagedInv /\ producer \in Objects \union {0}
  BY DEF IInv, PluginType
<1> HIDE DEF h, o
<1>h. h = held[t] /\ o = self[t]
  BY DEF h, o
<1> USE <1>1, <1>2, <1>3, <1>4, <1>5, <1>6, <1>h DEF Spoilt
<1>7. FlightInv'
  BY <1>0 DEF LifeInv, FlightInv, OverlapInv, AliasInv
<1>8. OverlapInv'
  BY <1>0 DEF LifeInv, FlightInv, OverlapInv
<1>9. AliasInv'
  BY <1>0 DEF LifeInv, FlightInv, OverlapInv, AliasInv
<1>10. KnownInv'
  BY <1>0 DEF LifeInv, FlightInv, KnownInv
<1>11. ASSUME UNCHANGED <<managed, producer>>, status' \in {status, "FAILED"}
       PROVE  ManagedInv'
  <2>1. CASE ~managed
    BY <1>11, <2>1, <1>m DEF ManagedInv, DirectInv
  <2>2. CASE managed
    <3>0. OwnInv /\ LatestInv /\ TaskInv /\ StatusInv /\ OverlapInv /\ FlightInv
      BY <2>2, <1>m, <1>0 DEF ManagedInv, LifeInv
    <3> USE <1>11, <2>2, <3>0
    <3>1. OwnInv'
      BY DEF OwnInv, TaskInv
    <3>2. LatestInv'
      BY DEF LatestInv, TaskInv
    <3>3. TaskInv'
      <4>1. ASSUME NEW u \in Tasks, u # t, at[u] # "idle"
            PROVE  Spoilt(self[u]) /\ self'[u] = self[u] /\ held'[u] = self[u]
        BY <4>1 DEF TaskInv, OverlapInv
      <4>2. held[t] = self[t] /\ producer # 0
        BY DEF TaskInv
      <4> QED BY <4>1, <4>2 DEF TaskInv, OwnInv
    <3>4. StatusInv'
      BY <1>m DEF StatusInv, TaskInv, FlightInv, Sender
    <3> QED BY <3>1, <3>2, <3>3, <3>4 DEF ManagedInv
  <2> QED BY <2>1, <2>2
<1> QED BY <1>7, <1>8, <1>9, <1>10, <1>11 DEF LifeInv

(* close() goes on from the channel to the connection.                     *)
LEMMA ChannelClosedStep ==
  ASSUME IInv, NEW t \in Tasks, ChannelClosed(t)
  PROVE  /\ LifeInv'
         /\ UNCHANGED <<managed, producer>>
            /\ (managed =>
                  status' = IF at'[t] = "idle" THEN "STOPPED" ELSE status)
            => ManagedInv'
<1> DEFINE h == held[t]
           o == self[t]
<1>0. LifecycleType /\ LifeInv
  BY DEF IInv, LifeInv
<1>1. /\ h \in Clients /\ o \in Objects /\ h # 0
      /\ at[t] = "closingChannel"
  BY <1>0, ClientsPositive DEF ChannelClosed, LifeInv, FlightInv
<1>2. /\ IF client[o] # 0
           THEN at'[t] = "closing" /\ held'[t] = client[o] /\ self'[t] = o
           ELSE at'[t] = "idle" /\ held'[t] = 0 /\ self'[t] = 0
      /\ \A u \in Tasks : u # t =>
           at'[u] = at[u] /\ held'[u] = held[u] /\ self'[u] = self[u]
  <2>1. CASE client[o] # 0
    BY <1>0, <2>1, SuspendEffect DEF ChannelClosed
  <2>2. CASE client[o] = 0
    BY <1>0, <2>2, SuspendEffect DEF ChannelClosed, Resume
  <2> QED BY <2>1, <2>2
<1>3. UNCHANGED client /\ client[o] \in Clients \union {0}
  BY <1>0, <1>1 DEF ChannelClosed, LifecycleType
<1>4. chan'[o] = 0 /\ \A p \in Objects : p # o => chan'[p] = chan[p]
  BY <1>0, <1>1, SetChanEffect DEF ChannelClosed
<1>5. UNCHANGED state
  BY <1>0, <1>1, SetStateEffect DEF ChannelClosed, LifecycleType
<1>6. UNCHANGED <<broker, contended, faulted>>
  BY DEF ChannelClosed
<1>m. ManagedInv /\ producer \in Objects \union {0}
  BY DEF IInv, PluginType
<1> HIDE DEF h, o
<1>h. h = held[t] /\ o = self[t]
  BY DEF h, o
<1> USE <1>1, <1>2, <1>3, <1>4, <1>5, <1>6, <1>h DEF Spoilt
<1>7. FlightInv'
  BY <1>0 DEF LifeInv, FlightInv, OverlapInv, AliasInv
<1>8. OverlapInv'
  BY <1>0 DEF LifeInv, FlightInv, OverlapInv
<1>9. AliasInv'
  BY <1>0 DEF LifeInv, FlightInv, OverlapInv, AliasInv
<1>10. KnownInv'
  BY <1>0 DEF LifeInv, FlightInv, KnownInv
<1>11. ASSUME UNCHANGED <<managed, producer>>,
              managed => status' = IF at'[t] = "idle" THEN "STOPPED" ELSE status
       PROVE  ManagedInv'
  <2>1. CASE ~managed
    BY <1>11, <2>1, <1>m DEF ManagedInv, DirectInv
  <2>2. CASE managed
    <3>0. OwnInv /\ LatestInv /\ TaskInv /\ StatusInv /\ OverlapInv /\ FlightInv
      BY <2>2, <1>m, <1>0 DEF ManagedInv, LifeInv
    <3> USE <1>11, <2>2, <3>0
    <3>1. OwnInv'
      BY DEF OwnInv, TaskInv
    <3>2. LatestInv'
      BY DEF LatestInv, TaskInv
    <3>3. TaskInv'
      <4>1. ASSUME NEW u \in Tasks, u # t, at[u] # "idle"
            PROVE  Spoilt(self[u]) /\ self'[u] = self[u] /\ held'[u] = self[u]
        BY <4>1 DEF TaskInv, OverlapInv
      <4>2. held[t] = self[t] /\ producer # 0
        BY DEF TaskInv
      <4> QED BY <4>1, <4>2 DEF TaskInv, OwnInv
    <3>4. StatusInv'
      BY <1>m DEF StatusInv, TaskInv, FlightInv, Sender
    <3> QED BY <3>1, <3>2, <3>3, <3>4 DEF ManagedInv
  <2> QED BY <2>1, <2>2
<1> QED BY <1>7, <1>8, <1>9, <1>10, <1>11 DEF LifeInv

(* close() is cancelled on the channel: the client is spoilt.              *)
LEMMA ChannelCloseCancelledStep ==
  ASSUME IInv, NEW t \in Tasks, ChannelCloseCancelled(t)
  PROVE  /\ LifeInv'
         /\ UNCHANGED <<managed, producer>>
            /\ (managed =>
                  status' = IF at'[t] = "idle" THEN "STOPPED" ELSE status)
            => ManagedInv'
<1> DEFINE h == held[t]
           o == self[t]
<1>0. LifecycleType /\ LifeInv
  BY DEF IInv, LifeInv
<1>1. /\ h \in Clients /\ o \in Objects /\ h # 0
      /\ at[t] = "closingChannel"
  BY <1>0, ClientsPositive DEF ChannelCloseCancelled, LifeInv, FlightInv
<1>2. /\ at'[t] = "idle" /\ held'[t] = 0 /\ self'[t] = 0
      /\ \A u \in Tasks : u # t =>
           at'[u] = at[u] /\ held'[u] = held[u] /\ self'[u] = self[u]
  BY <1>0, SuspendEffect DEF ChannelCloseCancelled, Resume
<1>3. UNCHANGED client
  BY <1>0, <1>1, SetClientEffect DEF ChannelCloseCancelled
<1>4. chan'[o] = 0 /\ \A p \in Objects : p # o => chan'[p] = chan[p]
  BY <1>0, <1>1, SetChanEffect DEF ChannelCloseCancelled
<1>5. UNCHANGED state
  BY <1>0, <1>1, SetStateEffect DEF ChannelCloseCancelled, LifecycleType
<1>6. UNCHANGED <<broker, contended>> /\ faulted' = faulted \union {h}
  BY DEF ChannelCloseCancelled
<1>m. ManagedInv /\ producer \in Objects \union {0}
  BY DEF IInv, PluginType
<1> HIDE DEF h, o
<1>h. h = held[t] /\ o = self[t]
  BY DEF h, o
<1> USE <1>1, <1>2, <1>3, <1>4, <1>5, <1>6, <1>h DEF Spoilt
<1>7. FlightInv'
  BY <1>0 DEF LifeInv, FlightInv, OverlapInv, AliasInv
<1>8. OverlapInv'
  BY <1>0 DEF LifeInv, FlightInv, OverlapInv
<1>9. AliasInv'
  BY <1>0 DEF LifeInv, FlightInv, OverlapInv, AliasInv
<1>10. KnownInv'
  BY <1>0 DEF LifeInv, FlightInv, KnownInv
<1>11. ASSUME UNCHANGED <<managed, producer>>,
              managed => status' = IF at'[t] = "idle" THEN "STOPPED" ELSE status
       PROVE  ManagedInv'
  <2>1. CASE ~managed
    BY <1>11, <2>1, <1>m DEF ManagedInv, DirectInv
  <2>2. CASE managed
    <3>0. OwnInv /\ LatestInv /\ TaskInv /\ StatusInv /\ OverlapInv /\ FlightInv
      BY <2>2, <1>m, <1>0 DEF ManagedInv, LifeInv
    <3> USE <1>11, <2>2, <3>0
    <3>1. OwnInv'
      BY DEF OwnInv, TaskInv
    <3>2. LatestInv'
      BY DEF LatestInv, TaskInv
    <3>3. TaskInv'
      <4>1. ASSUME NEW u \in Tasks, u # t, at[u] # "idle"
            PROVE  Spoilt(self[u]) /\ self'[u] = self[u] /\ held'[u] = self[u]
        BY <4>1 DEF TaskInv, OverlapInv
      <4>2. held[t] = self[t] /\ producer # 0
        BY DEF TaskInv
      <4> QED BY <4>1, <4>2 DEF TaskInv, OwnInv
    <3>4. StatusInv'
      BY <1>m DEF StatusInv, TaskInv, FlightInv, Sender
    <3> QED BY <3>1, <3>2, <3>3, <3>4 DEF ManagedInv
  <2> QED BY <2>1, <2>2
<1> QED BY <1>7, <1>8, <1>9, <1>10, <1>11 DEF LifeInv

(* close() has closed the client it took, and clears the fields.           *)
LEMMA ClosedStep ==
  ASSUME IInv, NEW t \in Tasks, Closed(t)
  PROVE  /\ LifeInv'
         /\ UNCHANGED <<managed, producer>>
            /\ (managed =>
                  status' = IF at'[t] = "idle" THEN "STOPPED" ELSE status)
            => ManagedInv'
<1> DEFINE h == held[t]
           o == self[t]
<1>0. LifecycleType /\ LifeInv
  BY DEF IInv, LifeInv
<1>1. /\ h \in Clients /\ o \in Objects /\ h # 0
      /\ at[t] = "closing"
  BY <1>0, ClientsPositive DEF Closed, ClearFields, LifeInv, FlightInv
<1>2. /\ at'[t] = "idle" /\ held'[t] = 0 /\ self'[t] = 0
      /\ \A u \in Tasks : u # t =>
           at'[u] = at[u] /\ held'[u] = held[u] /\ self'[u] = self[u]
  BY <1>0, SuspendEffect DEF Closed, ClearFields, Resume
<1>3. client'[o] = 0 /\ \A p \in Objects : p # o => client'[p] = client[p]
  BY <1>0, <1>1, SetClientEffect DEF Closed, ClearFields
<1>4. /\ chan'[o] = IF broker = "nats" THEN 0 ELSE chan[o]
      /\ \A p \in Objects : p # o => chan'[p] = chan[p]
  BY <1>0, <1>1, SetChanEffect DEF Closed, ClearFields
<1>5. state'[h] = "closed" /\ \A k \in Clients : k # h => state'[k] = state[k]
  BY <1>0, <1>1, SetStateEffect DEF Closed, ClearFields, LifecycleType
<1>6. UNCHANGED <<broker, contended, faulted>>
  BY DEF Closed, ClearFields
<1>m. ManagedInv /\ producer \in Objects \union {0}
  BY DEF IInv, PluginType
<1> HIDE DEF h, o
<1>h. h = held[t] /\ o = self[t]
  BY DEF h, o
<1> USE <1>1, <1>2, <1>3, <1>4, <1>5, <1>6, <1>h DEF Spoilt
<1>7. FlightInv'
  BY <1>0 DEF LifeInv, FlightInv, OverlapInv, AliasInv
<1>8. OverlapInv'
  BY <1>0 DEF LifeInv, FlightInv, OverlapInv
<1>9. AliasInv'
  BY <1>0 DEF LifeInv, FlightInv, OverlapInv, AliasInv
<1>10. KnownInv'
  BY <1>0 DEF LifeInv, FlightInv, KnownInv
<1>11. ASSUME UNCHANGED <<managed, producer>>,
              managed => status' = IF at'[t] = "idle" THEN "STOPPED" ELSE status
       PROVE  ManagedInv'
  <2>1. CASE ~managed
    BY <1>11, <2>1, <1>m DEF ManagedInv, DirectInv
  <2>2. CASE managed
    <3>0. OwnInv /\ LatestInv /\ TaskInv /\ StatusInv /\ OverlapInv /\ FlightInv
      BY <2>2, <1>m, <1>0 DEF ManagedInv, LifeInv
    <3> USE <1>11, <2>2, <3>0
    <3>1. OwnInv'
      BY DEF OwnInv, TaskInv
    <3>2. LatestInv'
      BY DEF LatestInv, TaskInv
    <3>3. TaskInv'
      <4>1. ASSUME NEW u \in Tasks, u # t, at[u] # "idle"
            PROVE  Spoilt(self[u]) /\ self'[u] = self[u] /\ held'[u] = self[u]
        BY <4>1 DEF TaskInv, OverlapInv
      <4>2. held[t] = self[t] /\ producer # 0
        BY DEF TaskInv
      <4> QED BY <4>1, <4>2 DEF TaskInv, OwnInv
    <3>4. StatusInv'
      BY <1>m DEF StatusInv, TaskInv, FlightInv, Sender
    <3> QED BY <3>1, <3>2, <3>3, <3>4 DEF ManagedInv
  <2> QED BY <2>1, <2>2
<1> QED BY <1>7, <1>8, <1>9, <1>10, <1>11 DEF LifeInv

(* close() raises: the client is spoilt.                                   *)
LEMMA CloseFailsStep ==
  ASSUME IInv, NEW t \in Tasks, CloseFails(t)
  PROVE  /\ LifeInv'
         /\ UNCHANGED <<managed, producer>>
            /\ (managed =>
                  status' = IF at'[t] = "idle" THEN "STOPPED" ELSE status)
            => ManagedInv'
<1> DEFINE h == held[t]
           o == self[t]
<1>0. LifecycleType /\ LifeInv
  BY DEF IInv, LifeInv
<1>1. /\ h \in Clients /\ o \in Objects /\ h # 0
      /\ at[t] = "closing"
  BY <1>0, ClientsPositive DEF CloseFails, ClearFields, LifeInv, FlightInv
<1>2. /\ at'[t] = "idle" /\ held'[t] = 0 /\ self'[t] = 0
      /\ \A u \in Tasks : u # t =>
           at'[u] = at[u] /\ held'[u] = held[u] /\ self'[u] = self[u]
  BY <1>0, SuspendEffect DEF CloseFails, ClearFields, Resume
<1>3. client'[o] = 0 /\ \A p \in Objects : p # o => client'[p] = client[p]
  BY <1>0, <1>1, SetClientEffect DEF CloseFails, ClearFields
<1>4. /\ chan'[o] = IF broker = "nats" THEN 0 ELSE chan[o]
      /\ \A p \in Objects : p # o => chan'[p] = chan[p]
  BY <1>0, <1>1, SetChanEffect DEF CloseFails, ClearFields
<1>5. UNCHANGED state
  BY <1>0, <1>1, SetStateEffect DEF CloseFails, ClearFields, LifecycleType
<1>6. UNCHANGED <<broker, contended>> /\ faulted' = faulted \union {h}
  BY DEF CloseFails, ClearFields
<1>m. ManagedInv /\ producer \in Objects \union {0}
  BY DEF IInv, PluginType
<1> HIDE DEF h, o
<1>h. h = held[t] /\ o = self[t]
  BY DEF h, o
<1> USE <1>1, <1>2, <1>3, <1>4, <1>5, <1>6, <1>h DEF Spoilt
<1>7. FlightInv'
  BY <1>0 DEF LifeInv, FlightInv, OverlapInv, AliasInv
<1>8. OverlapInv'
  BY <1>0 DEF LifeInv, FlightInv, OverlapInv
<1>9. AliasInv'
  BY <1>0 DEF LifeInv, FlightInv, OverlapInv, AliasInv
<1>10. KnownInv'
  BY <1>0 DEF LifeInv, FlightInv, KnownInv
<1>11. ASSUME UNCHANGED <<managed, producer>>,
              managed => status' = IF at'[t] = "idle" THEN "STOPPED" ELSE status
       PROVE  ManagedInv'
  <2>1. CASE ~managed
    BY <1>11, <2>1, <1>m DEF ManagedInv, DirectInv
  <2>2. CASE managed
    <3>0. OwnInv /\ LatestInv /\ TaskInv /\ StatusInv /\ OverlapInv /\ FlightInv
      BY <2>2, <1>m, <1>0 DEF ManagedInv, LifeInv
    <3> USE <1>11, <2>2, <3>0
    <3>1. OwnInv'
      BY DEF OwnInv, TaskInv
    <3>2. LatestInv'
      BY DEF LatestInv, TaskInv
    <3>3. TaskInv'
      <4>1. ASSUME NEW u \in Tasks, u # t, at[u] # "idle"
            PROVE  Spoilt(self[u]) /\ self'[u] = self[u] /\ held'[u] = self[u]
        BY <4>1 DEF TaskInv, OverlapInv
      <4>2. held[t] = self[t] /\ producer # 0
        BY DEF TaskInv
      <4> QED BY <4>1, <4>2 DEF TaskInv, OwnInv
    <3>4. StatusInv'
      BY <1>m DEF StatusInv, TaskInv, FlightInv, Sender
    <3> QED BY <3>1, <3>2, <3>3, <3>4 DEF ManagedInv
  <2> QED BY <2>1, <2>2
<1> QED BY <1>7, <1>8, <1>9, <1>10, <1>11 DEF LifeInv

(* The client a task starts or closes is in flight.                        *)
LEMMA InFlightHeld ==
  ASSUME NEW t \in Tasks, at[t] # "idle"
  PROVE  held[t] \in InFlight
BY DEF InFlight

(* start() begins, when it spoils what it overlaps and what it replaces.   *)
LEMMA StartOnStep ==
  ASSUME IInv, NEW t \in Tasks, NEW h \in Clients, NEW o \in Objects,
         StartOn(t, o, h), contended \subseteq contended',
         InFlight # {} => InFlight \union {h} \subseteq contended',
         {client[o], chan[o]} \subseteq contended' \union {0, h},
         \A u \in Tasks : at[u] # "idle" =>
           {client[self[u]], chan[self[u]]} \subseteq contended' \union faulted \union {0}
  PROVE  LifeInv'
<1>0. LifecycleType /\ LifeInv
  BY DEF IInv, LifeInv
<1>1. at[t] = "idle" /\ state[h] = "absent" /\ h # 0
  BY ClientsPositive DEF StartOn
<1>2. /\ at'[t] = "connecting" /\ held'[t] = h /\ self'[t] = o
      /\ \A u \in Tasks : u # t =>
           at'[u] = at[u] /\ held'[u] = held[u] /\ self'[u] = self[u]
  BY <1>0, SuspendEffect DEF StartOn
<1>3. /\ client'[o] = IF broker = "kafka" THEN h ELSE client[o]
      /\ \A p \in Objects : p # o => client'[p] = client[p]
  BY <1>0, SetClientEffect DEF StartOn
<1>4. state'[h] = "connecting" /\ \A k \in Clients : k # h => state'[k] = state[k]
  BY <1>0, SetStateEffect DEF StartOn
<1>5. UNCHANGED <<broker, chan, faulted>>
  BY DEF StartOn
<1>6. \A u \in Tasks : at[u] # "idle" =>
        held[u] \in contended' /\ h \in contended'
  BY InFlightHeld
<1> USE <1>1, <1>2, <1>3, <1>4, <1>5, <1>6 DEF Spoilt
<1>7. FlightInv'
  BY <1>0 DEF LifeInv, FlightInv, AliasInv
<1>8. OverlapInv'
  BY <1>0 DEF LifeInv, OverlapInv, FlightInv
<1>9. AliasInv'
  BY <1>0 DEF LifeInv, AliasInv
<1>10. KnownInv'
  BY <1>0 DEF LifeInv, KnownInv
<1> QED BY <1>7, <1>8, <1>9, <1>10 DEF LifeInv

(* close() begins, when it is the only one that others may be closing.     *)
LEMMA CloseBeginsStep ==
  ASSUME IInv, NEW t \in Tasks, NEW o \in Objects, CloseBegins(t, o),
         \A u \in Tasks : at[u] # "idle" /\ self[u] # o =>
           Spoilt(client[self[u]]) /\ Spoilt(chan[self[u]])
  PROVE  LifeInv'
<1> DEFINE h == held'[t]
<1>0. LifecycleType /\ LifeInv
  BY DEF IInv, LifeInv
<1>1. at[t] = "idle"
  BY DEF CloseBegins
<1>2. /\ \/ /\ at'[t] = "closingChannel" /\ h = chan[o]
            /\ broker = "rabbitmq"
         \/ /\ at'[t] = "closing" /\ h = client[o]
            /\ ~(broker = "rabbitmq" /\ chan[o] # 0)
      /\ self'[t] = o /\ h \in Clients /\ h # 0
      /\ \A u \in Tasks : u # t =>
           at'[u] = at[u] /\ held'[u] = held[u] /\ self'[u] = self[u]
  <2>1. {client[o], chan[o]} \subseteq Clients \union {0}
    BY <1>0 DEF LifecycleType
  <2>2. CASE broker = "rabbitmq" /\ chan[o] # 0
    BY <1>0, <2>1, <2>2, SuspendEffect DEF CloseBegins
  <2>3. CASE ~(broker = "rabbitmq" /\ chan[o] # 0)
    BY <1>0, <2>1, <2>3, SuspendEffect DEF CloseBegins
  <2> QED BY <2>2, <2>3
<1>3. UNCHANGED <<broker, client, chan, state, faulted>> /\ broker \in Brokers
  BY <1>0 DEF CloseBegins, LifecycleType
<1>4. contended \subseteq contended'
  BY DEF CloseBegins
<1>5. ASSUME NEW u \in Tasks, at[u] # "idle"
      PROVE  /\ held[u] \in contended'
             /\ {client[o], chan[o]} \subseteq contended' \union {0}
  BY <1>5, InFlightHeld DEF CloseBegins, Referred
<1> HIDE DEF h
<1>h. h = held'[t]
  BY DEF h
<1>6. broker \in {"kafka", "nats", "rabbitmq"}
  BY <1>3
<1> USE <1>1, <1>2, <1>3, <1>4, <1>5, <1>6, <1>h DEF Spoilt
<1>7. FlightInv'
  BY <1>0 DEF LifeInv, FlightInv, AliasInv
<1>8. OverlapInv'
  BY <1>0 DEF LifeInv, OverlapInv, FlightInv
<1>9. AliasInv'
  BY <1>0 DEF LifeInv, AliasInv
<1>10. KnownInv'
  BY <1>0 DEF LifeInv, KnownInv
<1> QED BY <1>7, <1>8, <1>9, <1>10 DEF LifeInv

(* Nothing but the histories changes.                                      *)
LEMMA SpoilingStep ==
  ASSUME IInv, UNCHANGED <<broker, client, chan, state, at, held, self, faulted>>,
         contended \subseteq contended'
  PROVE  LifeInv'
<1>0. FlightInv /\ OverlapInv /\ AliasInv /\ KnownInv
  BY DEF IInv
<1> USE <1>0 DEF Spoilt
<1>1. FlightInv'
  BY DEF FlightInv
<1>2. OverlapInv'
  BY DEF OverlapInv
<1>3. AliasInv'
  BY DEF AliasInv
<1>4. KnownInv'
  BY DEF KnownInv
<1> QED BY <1>1, <1>2, <1>3, <1>4 DEF LifeInv

-----------------------------------------------------------------------------
(* start() of a producer used directly spoils whatever it overlaps.        *)
LEMMA StartStep ==
  ASSUME IInv, NEW t \in Tasks, NEW h \in Clients, Start(t, h),
         ~managed, UNCHANGED managed
  PROVE  LifeInv' /\ ManagedInv'
<1>0. LifecycleType /\ DirectInv
  BY DEF IInv, ManagedInv
<1>1. StartOn(t, Direct, h) /\ Direct \in Objects /\ at[t] = "idle"
  <2>1. Direct \in Objects
    BY DEF Direct, Objects, Clients
  <2> QED BY <2>1 DEF Start, StartOn
<1>2. /\ contended \subseteq contended'
      /\ InFlight # {} \/ Referred(Direct) # {} =>
           {h} \union InFlight \union Referred(Direct) \subseteq contended'
  BY DEF Start
<1>3. {client[Direct], chan[Direct]} \subseteq contended' \union {0, h}
  BY <1>2 DEF Referred
<1>4. ASSUME NEW u \in Tasks, at[u] # "idle"
      PROVE  {client[self[u]], chan[self[u]]} \subseteq contended' \union faulted \union {0}
  <2>1. InFlight # {} /\ self[u] = Direct
    BY <1>4, <1>0, InFlightHeld DEF DirectInv
  <2> QED BY <2>1, <1>2 DEF Referred
<1>5. LifeInv'
  BY <1>1, <1>2, <1>3, <1>4, StartOnStep
<1>6. DirectInv'
  BY <1>0, <1>1, SuspendEffect DEF StartOn, DirectInv
<1> QED BY <1>5, <1>6 DEF ManagedInv

(* initialize() spoils what it overlaps and the client it replaces.        *)
LEMMA InitializeStep ==
  ASSUME IInv, NEW t \in Tasks, Initialize(t), managed, UNCHANGED managed
  PROVE  LifeInv' /\ ManagedInv'
<1>0. /\ LifecycleType /\ OwnInv /\ LatestInv /\ TaskInv /\ KnownInv
      /\ producer \in Objects \union {0}
  BY DEF IInv, ManagedInv, PluginType
<1>1. PICK h \in Clients :
        /\ StartOn(t, h, h)
        /\ status' = "INITIALIZED" /\ producer' = h
        /\ contended' = contended
             \union (IF producer = 0 THEN {} ELSE Referred(producer))
             \union (IF InFlight = {} THEN {} ELSE InFlight \union {h})
  BY DEF Initialize
<1>2. contended \subseteq contended' /\ h \in Objects /\ h # 0 /\ faulted' = faulted
  BY <1>1, ClientsPositive DEF StartOn, Objects
<1>3. \A u \in Tasks : at[u] # "idle" => held[u] \in contended' /\ h \in contended'
  BY <1>1, InFlightHeld
<1>4. {client[h], chan[h]} \subseteq {0, h}
  BY <1>0, <1>2 DEF OwnInv
<1>5. ASSUME NEW u \in Tasks, at[u] # "idle"
      PROVE  {client[self[u]], chan[self[u]]} \subseteq contended' \union faulted \union {0}
  <2>1. held[u] = self[u] /\ self[u] \in Objects
    BY <1>0, <1>5 DEF TaskInv, IInv, FlightInv
  <2> QED BY <2>1, <1>0, <1>3, <1>5 DEF OwnInv
<1>6. LifeInv'
  <2>1. InFlight # {} => InFlight \union {h} \subseteq contended'
    BY <1>1
  <2>2. {client[h], chan[h]} \subseteq contended' \union {0, h}
    BY <1>4
  <2> QED BY <2>1, <2>2, <1>1, <1>2, <1>5, StartOnStep
<1>7. /\ at[t] = "idle" /\ at'[t] = "connecting" /\ held'[t] = h /\ self'[t] = h
      /\ \A u \in Tasks : u # t =>
           at'[u] = at[u] /\ held'[u] = held[u] /\ self'[u] = self[u]
  BY <1>0, <1>1, SuspendEffect DEF StartOn
<1>8. state'[h] = "connecting" /\ \A k \in Clients : k # h => state'[k] = state[k]
  BY <1>0, <1>1, SetStateEffect DEF StartOn
<1>9. OwnInv'
  <2>1. client'[h] \in {client[h], h} /\ \A p \in Objects : p # h => client'[p] = client[p]
    BY <1>0, <1>1, <1>2, SetClientEffect DEF StartOn
  <2>2. chan' = chan
    BY <1>1 DEF StartOn
  <2> QED BY <2>1, <2>2, <1>0 DEF OwnInv
<1>10. LatestInv'
  <2> SUFFICES ASSUME NEW k \in Clients, state'[k] = "up", ~Spoilt(k)'
               PROVE  FALSE
    BY DEF LatestInv
  <2>1. state[k] = "up" /\ ~Spoilt(k) /\ k = producer /\ k # 0
    BY <1>0, <1>2, <1>8 DEF LatestInv, Spoilt
  <2>2. CASE \E u \in Tasks : at[u] # "idle" /\ held[u] = k
    BY <2>2, <1>3 DEF Spoilt
  <2>3. CASE \E o \in Objects : client[o] = k
    <3>1. client[producer] = producer
      BY <2>1, <2>3, <1>0 DEF OwnInv
    <3>2. producer \in contended'
      BY <3>1, <2>1, <1>1 DEF Referred
    <3> QED BY <3>2, <2>1 DEF Spoilt
  <2> QED BY <2>1, <2>2, <2>3, <1>0 DEF KnownInv
<1>11. TaskInv'
  <2>1. producer' = h /\ status' = "INITIALIZED"
    BY <1>1
  <2>2. ASSUME NEW u \in Tasks, u # t, at'[u] # "idle"
        PROVE  /\ held'[u] = self'[u]
               /\ self'[u] \in contended' /\ producer' \in contended'
    <3>1. held[u] = self[u]
      BY <2>2, <1>0, <1>7 DEF TaskInv
    <3> QED BY <3>1, <2>1, <2>2, <1>3, <1>7
  <2> QED BY <2>1, <2>2, <1>2, <1>7 DEF TaskInv, Spoilt
<1>12. StatusInv'
  BY <1>1 DEF StatusInv
<1> QED BY <1>6, <1>9, <1>10, <1>11, <1>12 DEF ManagedInv

(* close() of a producer used directly begins.                             *)
LEMMA CloseBeginsDirectStep ==
  ASSUME IInv, NEW t \in Tasks, CloseBegins(t, Direct), ~managed, UNCHANGED managed
  PROVE  LifeInv' /\ ManagedInv'
<1>0. LifecycleType /\ DirectInv
  BY DEF IInv, ManagedInv
<1>1. Direct \in Objects
  BY DEF Direct, Objects, Clients
<1>2. LifeInv'
  BY <1>0, <1>1, CloseBeginsStep DEF DirectInv
<1>3. DirectInv'
  <2>1. self'[t] = Direct /\ \A u \in Tasks : u # t =>
          at'[u] = at[u] /\ self'[u] = self[u]
    BY <1>0, SuspendEffect DEF CloseBegins
  <2> QED BY <2>1, <1>0 DEF DirectInv
<1> QED BY <1>2, <1>3 DEF ManagedInv

(* shutdown() closes the latest producer, or finds nothing to close and    *)
(* spoils what is under way.                                               *)
LEMMA ShutdownStep ==
  ASSUME IInv, NEW t \in Tasks, Shutdown(t), managed, UNCHANGED managed
  PROVE  LifeInv' /\ ManagedInv'
<1>0. /\ LifecycleType /\ OwnInv /\ LatestInv /\ TaskInv /\ KnownInv
      /\ StatusInv /\ producer \in Objects \union {0}
  BY DEF IInv, ManagedInv, PluginType
<1>1. UNCHANGED <<producer, client, chan, state, broker, faulted>>
      /\ contended \subseteq contended'
  BY DEF Shutdown, CloseBegins
<1>s. contended \subseteq contended' /\ faulted' = faulted
  BY <1>1
<1>t. \A u \in Tasks : at[u] # "idle" =>
        /\ held[u] = self[u] /\ producer # 0
        /\ self[u] # producer => Spoilt(producer)
  BY <1>0 DEF TaskInv
<1>2. OwnInv' /\ LatestInv'
  BY <1>0, <1>1 DEF OwnInv, LatestInv, Spoilt
<1>3. CASE producer # 0 /\ Referred(producer) # {}
  <2>1. CloseBegins(t, producer) /\ status' = "STOPPING" /\ producer \in Objects
    BY <1>0, <1>3 DEF Shutdown
  <2>2. ASSUME NEW u \in Tasks, at[u] # "idle", self[u] # producer
        PROVE  Spoilt(client[self[u]]) /\ Spoilt(chan[self[u]])
    <3>1. Spoilt(self[u]) /\ self[u] \in Objects
      BY <2>2, <1>0 DEF TaskInv, IInv, FlightInv
    <3> QED BY <3>1, <1>0 DEF OwnInv, Spoilt
  <2>3. LifeInv'
    BY <2>1, <2>2, CloseBeginsStep
  <2>4. /\ at'[t] \in {"closingChannel", "closing"}
        /\ held'[t] \in Referred(producer) /\ self'[t] = producer
        /\ \A u \in Tasks : u # t =>
             at'[u] = at[u] /\ held'[u] = held[u] /\ self'[u] = self[u]
    <3>1. CASE broker = "rabbitmq" /\ chan[producer] # 0
      BY <3>1, <2>1, <1>0, SuspendEffect DEF CloseBegins, Referred
    <3>2. CASE ~(broker = "rabbitmq" /\ chan[producer] # 0)
      BY <3>2, <2>1, <1>0, SuspendEffect DEF CloseBegins, Referred
    <3> QED BY <3>1, <3>2
  <2>5. \A u \in Tasks : at[u] # "idle" => held[u] \in contended'
    BY <2>1, InFlightHeld DEF CloseBegins
  <2>6. held'[t] = producer
    BY <2>4, <2>1, <1>0 DEF Referred, OwnInv
  <2>7. TaskInv'
    <3>1. ASSUME NEW u \in Tasks, u # t, at'[u] # "idle"
          PROVE  held'[u] = self'[u] /\ self'[u] \in contended'
                 /\ (self'[u] # producer => Spoilt(producer))
      BY <3>1, <2>4, <2>5, <1>t
    <3>2. producer' = producer /\ producer # 0 /\ status' = "STOPPING"
      BY <2>1, <1>1, <1>3
    <3> QED BY <3>1, <3>2, <2>4, <2>6, <1>s DEF TaskInv, Spoilt
  <2>8. StatusInv'
    BY <2>1, <1>1 DEF StatusInv
  <2> QED BY <2>3, <1>2, <2>7, <2>8 DEF ManagedInv
<1>4. CASE ~(producer # 0 /\ Referred(producer) # {})
  <2>1. /\ status' = "STOPPED" /\ contended' = contended \union InFlight
        /\ UNCHANGED <<at, held, self>>
    BY <1>4 DEF Shutdown
  <2>2. LifeInv'
    BY <2>1, <1>1, SpoilingStep
  <2>3. \A u \in Tasks : at[u] # "idle" => held[u] \in contended'
    BY <2>1, InFlightHeld
  <2>4. TaskInv'
    <3>1. ASSUME NEW u \in Tasks, at[u] # "idle"
          PROVE  /\ held[u] = self[u] /\ producer # 0 /\ self[u] \in contended'
                 /\ self[u] # producer => Spoilt(producer)
      BY <3>1, <2>3, <1>t
    <3>2. UNCHANGED <<producer, at, held, self>>
      BY <2>1, <1>1
    <3> QED BY <3>1, <3>2, <1>s DEF TaskInv, Spoilt
  <2>5. StatusInv'
    <3> SUFFICES ASSUME ~Spoilt(producer)' PROVE state[producer] # "up"
      BY <2>1, <1>1 DEF StatusInv
    <3>1. producer \in Clients /\ ~Spoilt(producer) /\ client[producer] = 0
      BY <1>0, <1>1, <1>4 DEF Spoilt, Objects, Referred
    <3>2. \A o \in Objects : client[o] # producer
      BY <3>1, <1>0 DEF OwnInv, Spoilt
    <3>3. \A u \in Tasks : at[u] # "idle" => held[u] # producer
      BY <2>3, <1>1 DEF Spoilt
    <3> QED BY <3>1, <3>2, <3>3, <1>0 DEF KnownInv
  <2> QED BY <2>2, <1>2, <2>4, <2>5 DEF ManagedInv
<1> QED BY <1>3, <1>4

-----------------------------------------------------------------------------
(* Types                                                                   *)
LEMMA SuspendType ==
  ASSUME LifecycleType, NEW t \in Tasks, NEW s \in Suspended \union {"idle"},
         NEW o \in Objects \union {0}, NEW h \in Clients \union {0},
         Suspend(t, s, o, h)
  PROVE  /\ at' \in [Tasks -> Suspended \union {"idle"}]
         /\ held' \in [Tasks -> Clients \union {0}]
         /\ self' \in [Tasks -> Objects \union {0}]
BY DEF LifecycleType, Suspend

(* An assignment to a field keeps its type, ...                            *)
LEMMA FieldType ==
  ASSUME LifecycleType, NEW o \in Objects, NEW h \in Clients \union {0}
  PROVE  /\ SetClient(o, h) => client' \in [Objects -> Clients \union {0}]
         /\ SetChan(o, h) => chan' \in [Objects -> Clients \union {0}]
BY DEF LifecycleType, SetClient, SetChan

(* ... one to the state of a client too, ...                               *)
LEMMA StateType ==
  ASSUME LifecycleType, NEW h \in Clients,
         NEW s \in {"absent", "connecting", "up", "closed"}
  PROVE  /\ SetState(h, s) =>
              state' \in [Clients -> {"absent", "connecting", "up", "closed"}]
         /\ state' = [state EXCEPT ![h] = IF @ = "connecting" THEN s ELSE @] =>
              state' \in [Clients -> {"absent", "connecting", "up", "closed"}]
BY DEF LifecycleType, SetState

(* ... and what start() and close() mark are clients.                      *)
LEMMA HistoryType ==
  ASSUME LifecycleType, NEW o \in Objects
  PROVE  InFlight \subseteq Clients \union {0} /\ Referred(o) \subseteq Clients
BY DEF LifecycleType, InFlight, Referred

(* What a start() or close() under way changes has its type.               *)
LEMMA FlightTypeStep ==
  ASSUME LifecycleType, FlightInv, NEW t \in Tasks,
         \/ Connected(t) \/ KafkaStarted(t) \/ SetUp(t)
         \/ \E cleared \in BOOLEAN : StartFails(t, cleared)
         \/ CloseEnds(t)
  PROVE  LifecycleType'
<1>1. at[t] # "idle" /\ held[t] \in Clients /\ self[t] \in Objects
  <2>1. at[t] # "idle"
    BY DEF Connected, KafkaStarted, SetUp, StartFails, CloseEnds, ChannelClosed,
           ChannelCloseCancelled, Closed, CloseFails, ClearFields
  <2> QED BY <2>1 DEF FlightInv
<1>2. /\ at' \in [Tasks -> Suspended \union {"idle"}]
      /\ held' \in [Tasks -> Clients \union {0}]
      /\ self' \in [Tasks -> Objects \union {0}]
  <2>1. PICK s \in Suspended \union {"idle"}, o \in Objects \union {0},
             h \in Clients \union {0} : Suspend(t, s, o, h)
    <3>1. client[self[t]] \in Clients \union {0}
      BY <1>1 DEF LifecycleType
    <3> QED
      BY <1>1, <3>1 DEF Connected, KafkaStarted, SetUp, StartFails, CloseEnds,
           ChannelClosed, ChannelCloseCancelled, Closed, CloseFails, ClearFields,
           Resume, Suspended
  <2> QED BY <2>1, SuspendType
<1>3. client' \in [Objects -> Clients \union {0}]
      /\ chan' \in [Objects -> Clients \union {0}]
  <2>1. /\ client' = client \/ \E h \in Clients \union {0} : SetClient(self[t], h)
        /\ chan' = chan \/ \E h \in Clients \union {0} : SetChan(self[t], h)
    BY <1>1 DEF Connected, KafkaStarted, SetUp, StartFails, CloseEnds,
         ChannelClosed, ChannelCloseCancelled, Closed, CloseFails, ClearFields
  <2> QED BY <2>1, <1>1, FieldType DEF LifecycleType
<1>4. state' \in [Clients -> {"absent", "connecting", "up", "closed"}]
  <2>1. \/ state' = state \/ SetState(held[t], "closed")
        \/ state' = [state EXCEPT ![held[t]] = IF @ = "connecting" THEN "up" ELSE @]
    BY <1>1 DEF Connected, KafkaStarted, SetUp, StartFails, CloseEnds,
         ChannelClosed, ChannelCloseCancelled, Closed, CloseFails, ClearFields
  <2> QED BY <2>1, <1>1, StateType DEF LifecycleType
<1>5. UNCHANGED <<broker, contended>> /\ faulted' \subseteq faulted \union {held[t]}
  BY DEF Connected, KafkaStarted, SetUp, StartFails, CloseEnds,
       ChannelClosed, ChannelCloseCancelled, Closed, CloseFails, ClearFields
<1> QED BY <1>1, <1>2, <1>3, <1>4, <1>5 DEF LifecycleType

(* start() keeps the types, ...                                            *)
LEMMA StartOnType ==
  ASSUME LifecycleType, NEW t \in Tasks, NEW o \in Objects, NEW h \in Clients,
         StartOn(t, o, h), contended' \subseteq Clients
  PROVE  LifecycleType'
<1>1. /\ at' \in [Tasks -> Suspended \union {"idle"}]
      /\ held' \in [Tasks -> Clients \union {0}]
      /\ self' \in [Tasks -> Objects \union {0}]
  BY SuspendType DEF StartOn, Suspended
<1>2. client' \in [Objects -> Clients \union {0}]
  <2>1. client' = client \/ SetClient(o, h)
    BY DEF StartOn
  <2> QED BY <2>1, FieldType DEF LifecycleType
<1>3. state' \in [Clients -> {"absent", "connecting", "up", "closed"}]
  BY StateType DEF StartOn
<1>4. UNCHANGED <<broker, chan, faulted>>
  BY DEF StartOn
<1> QED BY <1>1, <1>2, <1>3, <1>4 DEF LifecycleType

(* ... and so does close().                                                *)
LEMMA CloseBeginsType ==
  ASSUME LifecycleType, FlightInv, NEW t \in Tasks, NEW o \in Objects,
         CloseBegins(t, o)
  PROVE  LifecycleType'
<1>1. PICK s \in Suspended, h \in {client[o], chan[o]} : Suspend(t, s, o, h)
  BY DEF CloseBegins, Suspended
<1>2. h \in Clients \union {0}
  BY DEF LifecycleType
<1>3. /\ at' \in [Tasks -> Suspended \union {"idle"}]
      /\ held' \in [Tasks -> Clients \union {0}]
      /\ self' \in [Tasks -> Objects \union {0}]
  BY <1>1, <1>2, SuspendType
<1>4. InFlight \subseteq Clients
  BY DEF InFlight, FlightInv
<1>5. contended' \subseteq Clients
  BY <1>4, HistoryType DEF CloseBegins, LifecycleType
<1>6. UNCHANGED <<broker, client, chan, state, faulted>>
  BY DEF CloseBegins
<1> QED BY <1>3, <1>5, <1>6 DEF LifecycleType

-----------------------------------------------------------------------------
(* publish() and publish_batch()                                           *)

(* A step of one call that keeps its part of the invariant keeps it all.   *)
LEMMA CallStep ==
  ASSUME PublishInv, NEW c \in Calls,
         \A d \in Calls : d # c =>
           /\ attempted'[d] = attempted[d] /\ accepted'[d] = accepted[d]
           /\ phase'[d] = phase[d] /\ result'[d] = result[d],
         phase'[c] # "done" <=> result'[c] = "none",
         accepted'[c] <= attempted'[c] /\ attempted'[c] <= Size[c],
         phase'[c] = "new" => attempted'[c] = 0,
         phase'[c] = "sending" => attempted'[c] = accepted'[c] + 1,
         phase'[c] = "flushing" => accepted'[c] = Size[c],
         result'[c] = "builtin" => 0 < accepted'[c] /\ accepted'[c] = attempted'[c]
  PROVE  PublishInv'
BY DEF PublishInv

(* What the steps of a call do, in the terms of CallStep and of Outbox.    *)
CallKeeps == PublishType' /\ PublishInv' /\ [Promised!Next]_(Promised!ovars)

(* publish() hands over its first message, or raises.                      *)
LEMMA PublishStep ==
  ASSUME PublishType, PublishInv, NEW c \in Calls, Publish(c)
  PROVE  CallKeeps
<1>0. /\ phase[c] = "new" /\ result[c] = "none" /\ attempted[c] = 0
      /\ accepted[c] = 0 /\ Size[c] \in Nat \ {0}
      /\ accepted' = accepted /\ callee' = callee
  BY ProducerAssumption DEF Publish, PublishInv, PublishType
<1>1. CASE End(c, "raised") /\ UNCHANGED attempted
  <2>1. PublishType' /\ PublishInv'
    <3>1. PublishType'
      BY <1>0, <1>1 DEF PublishType, End, Results
    <3>2. /\ attempted'[c] \in Nat /\ accepted'[c] \in Nat
          /\ \A d \in Calls : d # c =>
               /\ attempted'[d] = attempted[d] /\ accepted'[d] = accepted[d]
               /\ phase'[d] = phase[d] /\ result'[d] = result[d]
      BY <1>0, <1>1 DEF PublishType, End
    <3>3. /\ phase'[c] # "done" <=> result'[c] = "none"
          /\ accepted'[c] <= attempted'[c] /\ attempted'[c] <= Size[c]
          /\ phase'[c] = "new" => attempted'[c] = 0
          /\ phase'[c] = "sending" => attempted'[c] = accepted'[c] + 1
          /\ phase'[c] = "flushing" => accepted'[c] = Size[c]
          /\ result'[c] = "builtin" => 0 < accepted'[c] /\ accepted'[c] = attempted'[c]
      BY <1>0, <1>1 DEF PublishType, End
    <3> QED BY <3>1, <3>2, <3>3, CallStep
  <2>2. Promised!Raise(c)
    BY <1>0, <1>1 DEF End, Promised!Raise
  <2> QED BY <2>1, <2>2 DEF CallKeeps, Promised!Next
<1>2. CASE /\ attempted' = [attempted EXCEPT ![c] = @ + 1]
           /\ phase' = [phase EXCEPT ![c] = "sending"] /\ UNCHANGED result
  <2>1. attempted' = [attempted EXCEPT ![c] = 1]
    BY <1>0, <1>2
  <2>2. PublishType' /\ PublishInv'
    <3>1. PublishType'
      BY <1>0, <1>2, <2>1 DEF PublishType, End, Results
    <3>2. /\ attempted'[c] \in Nat /\ accepted'[c] \in Nat
          /\ \A d \in Calls : d # c =>
               /\ attempted'[d] = attempted[d] /\ accepted'[d] = accepted[d]
               /\ phase'[d] = phase[d] /\ result'[d] = result[d]
      BY <1>0, <1>2, <2>1 DEF PublishType, End
    <3>3. /\ phase'[c] # "done" <=> result'[c] = "none"
          /\ accepted'[c] <= attempted'[c] /\ attempted'[c] <= Size[c]
          /\ phase'[c] = "new" => attempted'[c] = 0
          /\ phase'[c] = "sending" => attempted'[c] = accepted'[c] + 1
          /\ phase'[c] = "flushing" => accepted'[c] = Size[c]
          /\ result'[c] = "builtin" => 0 < accepted'[c] /\ accepted'[c] = attempted'[c]
      BY <1>0, <1>2, <2>1 DEF PublishType, End
    <3> QED BY <3>1, <3>2, <3>3, CallStep
  <2>3. Promised!Attempt(c)
    BY <1>0, <1>2 DEF Promised!Attempt
  <2> QED BY <2>2, <2>3 DEF CallKeeps, Promised!Next
<1> QED BY <1>1, <1>2 DEF Publish, SendNext

(* One message of a batch is accepted and the next handed over.            *)
LEMMA SentOneStep ==
  ASSUME PublishType, PublishInv, NEW c \in Calls, SentOne(c)
  PROVE  CallKeeps
<1>0. /\ phase[c] = "sending" /\ result[c] = "none"
      /\ attempted[c] = accepted[c] + 1 /\ attempted[c] < Size[c]
      /\ accepted[c] \in Nat /\ attempted[c] \in Nat /\ Size[c] \in Nat
      /\ accepted' = [accepted EXCEPT ![c] = accepted[c] + 1]
      /\ callee' = callee
  BY ProducerAssumption DEF SentOne, Accept, PublishInv, PublishType
<1>1. ASSUME NEW r \in {"raised", "builtin"}, End(c, r) /\ UNCHANGED attempted
      PROVE  CallKeeps
  <2>1. PublishType' /\ PublishInv'
    <3>1. PublishType'
      BY <1>0, <1>1 DEF PublishType, End, Results
    <3>2. /\ attempted'[c] \in Nat /\ accepted'[c] \in Nat
          /\ \A d \in Calls : d # c =>
               /\ attempted'[d] = attempted[d] /\ accepted'[d] = accepted[d]
               /\ phase'[d] = phase[d] /\ result'[d] = result[d]
      BY <1>0, <1>1 DEF PublishType, End
    <3>3. /\ phase'[c] # "done" <=> result'[c] = "none"
          /\ accepted'[c] <= attempted'[c] /\ attempted'[c] <= Size[c]
          /\ phase'[c] = "new" => attempted'[c] = 0
          /\ phase'[c] = "sending" => attempted'[c] = accepted'[c] + 1
          /\ phase'[c] = "flushing" => accepted'[c] = Size[c]
          /\ result'[c] = "builtin" => 0 < accepted'[c] /\ accepted'[c] = attempted'[c]
      BY <1>0, <1>1 DEF PublishType, End
    <3> QED BY <3>1, <3>2, <3>3, CallStep
  <2>2. Promised!Raise(c)
    <3>1. \E error \in {"raised", "builtin"} :
            result' = [result EXCEPT ![c] = error]
      BY <1>1 DEF End
    <3>2. /\ result[c] = "none" /\ UNCHANGED attempted
          /\ accepted[c] < attempted[c]
          /\ accepted' = [accepted EXCEPT ![c] = @ + 1]
      BY <1>0, <1>1
    <3> QED BY <3>1, <3>2, Zenon DEF Promised!Raise
  <2> QED BY <2>1, <2>2 DEF CallKeeps, Promised!Next
<1>2. CASE /\ attempted' = [attempted EXCEPT ![c] = attempted[c] + 1]
           /\ phase' = [phase EXCEPT ![c] = "sending"] /\ UNCHANGED result
  <2>1. PublishType' /\ PublishInv'
    <3>1. PublishType'
      BY <1>0, <1>2 DEF PublishType, End, Results
    <3>2. /\ attempted'[c] \in Nat /\ accepted'[c] \in Nat
          /\ \A d \in Calls : d # c =>
               /\ attempted'[d] = attempted[d] /\ accepted'[d] = accepted[d]
               /\ phase'[d] = phase[d] /\ result'[d] = result[d]
      BY <1>0, <1>2 DEF PublishType, End
    <3>3. /\ phase'[c] # "done" <=> result'[c] = "none"
          /\ accepted'[c] <= attempted'[c] /\ attempted'[c] <= Size[c]
          /\ phase'[c] = "new" => attempted'[c] = 0
          /\ phase'[c] = "sending" => attempted'[c] = accepted'[c] + 1
          /\ phase'[c] = "flushing" => accepted'[c] = Size[c]
          /\ result'[c] = "builtin" => 0 < accepted'[c] /\ accepted'[c] = attempted'[c]
      BY <1>0, <1>2 DEF PublishType, End
    <3> QED BY <3>1, <3>2, <3>3, CallStep
  <2>2. Promised!AcceptThenAttempt(c)
    BY <1>0, <1>2 DEF Promised!AcceptThenAttempt
  <2> QED BY <2>1, <2>2 DEF CallKeeps, Promised!Next
<1> QED BY <1>1, <1>2 DEF SentOne, SendNext

(* The last message is accepted.                                           *)
LEMMA SentLastStep ==
  ASSUME PublishType, PublishInv, NEW c \in Calls, SentLast(c)
  PROVE  CallKeeps
<1>0. /\ phase[c] = "sending" /\ result[c] = "none"
      /\ attempted[c] = accepted[c] + 1 /\ attempted[c] = Size[c]
      /\ accepted[c] \in Nat /\ attempted[c] \in Nat /\ Size[c] \in Nat
      /\ accepted' = [accepted EXCEPT ![c] = accepted[c] + 1]
      /\ attempted' = attempted /\ callee' = callee
  BY ProducerAssumption DEF SentLast, Accept, PublishInv, PublishType
<1>1. accepted'[c] = Size[c]
  BY <1>0 DEF PublishType
<1>2. CASE End(c, "builtin")
  <2>1. PublishType' /\ PublishInv'
    <3>1. PublishType'
      BY <1>0, <1>2 DEF PublishType, End, Results
    <3>2. /\ attempted'[c] \in Nat /\ accepted'[c] \in Nat
          /\ \A d \in Calls : d # c =>
               /\ attempted'[d] = attempted[d] /\ accepted'[d] = accepted[d]
               /\ phase'[d] = phase[d] /\ result'[d] = result[d]
      BY <1>0, <1>2 DEF PublishType, End
    <3>3. /\ phase'[c] # "done" <=> result'[c] = "none"
          /\ accepted'[c] <= attempted'[c] /\ attempted'[c] <= Size[c]
          /\ phase'[c] = "new" => attempted'[c] = 0
          /\ phase'[c] = "sending" => attempted'[c] = accepted'[c] + 1
          /\ phase'[c] = "flushing" => accepted'[c] = Size[c]
          /\ result'[c] = "builtin" => 0 < accepted'[c] /\ accepted'[c] = attempted'[c]
      BY <1>0, <1>2 DEF PublishType, End
    <3> QED BY <3>1, <3>2, <3>3, CallStep
  <2>2. Promised!Raise(c)
    BY <1>0, <1>2 DEF End, Promised!Raise
  <2> QED BY <2>1, <2>2 DEF CallKeeps, Promised!Next
<1>3. CASE End(c, "returned")
  <2>1. PublishType' /\ PublishInv'
    <3>1. PublishType'
      BY <1>0, <1>3 DEF PublishType, End, Results
    <3>2. /\ attempted'[c] \in Nat /\ accepted'[c] \in Nat
          /\ \A d \in Calls : d # c =>
               /\ attempted'[d] = attempted[d] /\ accepted'[d] = accepted[d]
               /\ phase'[d] = phase[d] /\ result'[d] = result[d]
      BY <1>0, <1>3 DEF PublishType, End
    <3>3. /\ phase'[c] # "done" <=> result'[c] = "none"
          /\ accepted'[c] <= attempted'[c] /\ attempted'[c] <= Size[c]
          /\ phase'[c] = "new" => attempted'[c] = 0
          /\ phase'[c] = "sending" => attempted'[c] = accepted'[c] + 1
          /\ phase'[c] = "flushing" => accepted'[c] = Size[c]
          /\ result'[c] = "builtin" => 0 < accepted'[c] /\ accepted'[c] = attempted'[c]
      BY <1>0, <1>3 DEF PublishType, End
    <3> QED BY <3>1, <3>2, <3>3, CallStep
  <2>2. Promised!Return(c)
    BY <1>0, <1>1, <1>3 DEF End, Promised!Return
  <2> QED BY <2>1, <2>2 DEF CallKeeps, Promised!Next
<1>4. CASE phase' = [phase EXCEPT ![c] = "flushing"] /\ UNCHANGED result
  <2>1. PublishType' /\ PublishInv'
    <3>1. PublishType'
      BY <1>0, <1>4 DEF PublishType, End, Results
    <3>2. /\ attempted'[c] \in Nat /\ accepted'[c] \in Nat
          /\ \A d \in Calls : d # c =>
               /\ attempted'[d] = attempted[d] /\ accepted'[d] = accepted[d]
               /\ phase'[d] = phase[d] /\ result'[d] = result[d]
      BY <1>0, <1>4 DEF PublishType, End
    <3>3. /\ phase'[c] # "done" <=> result'[c] = "none"
          /\ accepted'[c] <= attempted'[c] /\ attempted'[c] <= Size[c]
          /\ phase'[c] = "new" => attempted'[c] = 0
          /\ phase'[c] = "sending" => attempted'[c] = accepted'[c] + 1
          /\ phase'[c] = "flushing" => accepted'[c] = Size[c]
          /\ result'[c] = "builtin" => 0 < accepted'[c] /\ accepted'[c] = attempted'[c]
      BY <1>0, <1>4 DEF PublishType, End
    <3> QED BY <3>1, <3>2, <3>3, CallStep
  <2>2. Promised!Accept(c)
    BY <1>0, <1>4 DEF Promised!Accept
  <2> QED BY <2>1, <2>2 DEF CallKeeps, Promised!Next
<1> QED BY <1>2, <1>3, <1>4 DEF SentLast

(* A send fails, or its caller stops waiting for it.                       *)
LEMMA SendFailsStep ==
  ASSUME PublishType, PublishInv, NEW c \in Calls, SendFails(c)
  PROVE  CallKeeps
<1>0. /\ phase[c] = "sending" /\ result[c] = "none"
      /\ accepted[c] <= attempted[c] /\ attempted[c] <= Size[c]
      /\ accepted[c] \in Nat /\ attempted[c] \in Nat
      /\ UNCHANGED <<callee, attempted, accepted>> /\ End(c, "raised")
  BY DEF SendFails, PublishInv, PublishType
<1>1. PublishType' /\ PublishInv'
  <2>1. PublishType'
    BY <1>0 DEF PublishType, End, Results
  <2>2. /\ attempted'[c] \in Nat /\ accepted'[c] \in Nat
        /\ \A d \in Calls : d # c =>
             /\ attempted'[d] = attempted[d] /\ accepted'[d] = accepted[d]
             /\ phase'[d] = phase[d] /\ result'[d] = result[d]
    BY <1>0 DEF PublishType, End
  <2>3. /\ phase'[c] # "done" <=> result'[c] = "none"
        /\ accepted'[c] <= attempted'[c] /\ attempted'[c] <= Size[c]
        /\ phase'[c] = "new" => attempted'[c] = 0
        /\ phase'[c] = "sending" => attempted'[c] = accepted'[c] + 1
        /\ phase'[c] = "flushing" => accepted'[c] = Size[c]
        /\ result'[c] = "builtin" => 0 < accepted'[c] /\ accepted'[c] = attempted'[c]
    BY <1>0 DEF PublishType, End
  <2> QED BY <2>1, <2>2, <2>3, CallStep
<1>2. Promised!Raise(c)
  BY <1>0 DEF End, Promised!Raise
<1> QED BY <1>1, <1>2 DEF CallKeeps, Promised!Next

(* The wait for the broker's answers ends.                                 *)
LEMMA FlushEndsStep ==
  ASSUME PublishType, PublishInv, NEW c \in Calls, FlushEnds(c)
  PROVE  CallKeeps
<1>0. /\ phase[c] = "flushing" /\ result[c] = "none"
      /\ accepted[c] <= attempted[c] /\ attempted[c] <= Size[c]
      /\ accepted[c] = Size[c]
      /\ accepted[c] \in Nat /\ attempted[c] \in Nat
      /\ UNCHANGED <<callee, attempted, accepted>>
  BY DEF FlushEnds, PublishInv, PublishType
<1>1. PICK r \in {"returned", "raised"} : End(c, r)
  BY DEF FlushEnds
<1>2. PublishType' /\ PublishInv'
  <2>1. PublishType'
    BY <1>0, <1>1 DEF PublishType, End, Results
  <2>2. /\ attempted'[c] \in Nat /\ accepted'[c] \in Nat
        /\ \A d \in Calls : d # c =>
             /\ attempted'[d] = attempted[d] /\ accepted'[d] = accepted[d]
             /\ phase'[d] = phase[d] /\ result'[d] = result[d]
    BY <1>0, <1>1 DEF PublishType, End
  <2>3. /\ phase'[c] # "done" <=> result'[c] = "none"
        /\ accepted'[c] <= attempted'[c] /\ attempted'[c] <= Size[c]
        /\ phase'[c] = "new" => attempted'[c] = 0
        /\ phase'[c] = "sending" => attempted'[c] = accepted'[c] + 1
        /\ phase'[c] = "flushing" => accepted'[c] = Size[c]
        /\ result'[c] = "builtin" => 0 < accepted'[c] /\ accepted'[c] = attempted'[c]
    BY <1>0, <1>1 DEF PublishType, End
  <2> QED BY <2>1, <2>2, <2>3, CallStep
<1>3. Promised!Return(c) \/ Promised!Raise(c)
  BY <1>0, <1>1 DEF End, Promised!Return, Promised!Raise
<1> QED BY <1>2, <1>3 DEF CallKeeps, Promised!Next

(* A message in doubt is accepted after its call has raised.               *)
LEMMA AcceptedLateStep ==
  ASSUME PublishType, PublishInv, NEW c \in Calls, AcceptedLate(c)
  PROVE  CallKeeps
<1>0. /\ phase[c] = "done" /\ result[c] \notin {"none", "builtin"}
      /\ accepted[c] < attempted[c] /\ attempted[c] <= Size[c]
      /\ accepted[c] \in Nat /\ attempted[c] \in Nat /\ result[c] \in Results
      /\ accepted' = [accepted EXCEPT ![c] = accepted[c] + 1]
      /\ UNCHANGED <<callee, attempted, phase, result>>
  BY DEF AcceptedLate, Accept, PublishInv, PublishType
<1>1. PublishType' /\ PublishInv'
  <2>1. PublishType'
    BY <1>0 DEF PublishType, End, Results
  <2>2. /\ attempted'[c] \in Nat /\ accepted'[c] \in Nat
        /\ \A d \in Calls : d # c =>
             /\ attempted'[d] = attempted[d] /\ accepted'[d] = accepted[d]
             /\ phase'[d] = phase[d] /\ result'[d] = result[d]
    BY <1>0 DEF PublishType, End
  <2>3. /\ phase'[c] # "done" <=> result'[c] = "none"
        /\ accepted'[c] <= attempted'[c] /\ attempted'[c] <= Size[c]
        /\ phase'[c] = "new" => attempted'[c] = 0
        /\ phase'[c] = "sending" => attempted'[c] = accepted'[c] + 1
        /\ phase'[c] = "flushing" => accepted'[c] = Size[c]
        /\ result'[c] = "builtin" => 0 < accepted'[c] /\ accepted'[c] = attempted'[c]
    BY <1>0 DEF PublishType, End
  <2> QED BY <2>1, <2>2, <2>3, CallStep
<1>2. Promised!Accept(c)
  BY <1>0 DEF Promised!Accept
<1> QED BY <1>1, <1>2 DEF CallKeeps, Promised!Next

(* A caller gets the producer it will publish with.                        *)
LEMMA GetProducerStep ==
  ASSUME PublishType, PublishInv, PluginType, NEW c \in Calls, GetProducer(c)
  PROVE  CallKeeps
<1>0. /\ phase[c] = "new" /\ result[c] = "none"
      /\ attempted[c] = 0 /\ accepted[c] <= attempted[c] /\ attempted[c] <= Size[c]
      /\ accepted[c] \in Nat /\ attempted[c] \in Nat
      /\ UNCHANGED <<attempted, accepted>>
  BY DEF GetProducer, PublishInv, PublishType
<1>1. CASE Ready
  <2>1. callee' = [callee EXCEPT ![c] = producer]
        /\ UNCHANGED <<phase, result>>
    BY <1>1 DEF GetProducer
  <2>2. producer \in Objects \union {0}
    BY DEF PluginType
  <2>3. PublishType' /\ PublishInv'
    BY <1>0, <2>1, <2>2 DEF PublishType, PublishInv
  <2> QED BY <1>0, <2>1, <2>3 DEF CallKeeps, Promised!ovars
<1>2. CASE ~Ready
  <2>1. End(c, "raised") /\ callee' = callee
    BY <1>2 DEF GetProducer
  <2>2. PublishType' /\ PublishInv'
    <3>1. PublishType'
      BY <1>0, <2>1 DEF PublishType, End, Results
    <3>2. /\ attempted'[c] \in Nat /\ accepted'[c] \in Nat
          /\ \A d \in Calls : d # c =>
               /\ attempted'[d] = attempted[d] /\ accepted'[d] = accepted[d]
               /\ phase'[d] = phase[d] /\ result'[d] = result[d]
      BY <1>0, <2>1 DEF PublishType, End
    <3>3. /\ phase'[c] # "done" <=> result'[c] = "none"
          /\ accepted'[c] <= attempted'[c] /\ attempted'[c] <= Size[c]
          /\ phase'[c] = "new" => attempted'[c] = 0
          /\ phase'[c] = "sending" => attempted'[c] = accepted'[c] + 1
          /\ phase'[c] = "flushing" => accepted'[c] = Size[c]
          /\ result'[c] = "builtin" => 0 < accepted'[c] /\ accepted'[c] = attempted'[c]
      BY <1>0, <2>1 DEF PublishType, End
    <3> QED BY <3>1, <3>2, <3>3, CallStep
  <2>3. Promised!Raise(c)
    BY <1>0, <2>1 DEF End, Promised!Raise
  <2> QED BY <2>2, <2>3 DEF CallKeeps, Promised!Next
<1> QED BY <1>1, <1>2

-----------------------------------------------------------------------------
(* The steps of the specification                                          *)

(* No client is there and no call under way at first.                      *)
LEMMA InitIInv == PluginInit => IInv
<1> SUFFICES ASSUME PluginInit PROVE IInv
  OBVIOUS
<1>0. Unused /\ broker \in Brokers /\ callee \in [Calls -> Objects \union {0}]
  <2>1. Direct \in Objects
    BY DEF Direct, Objects, Clients
  <2> QED BY <2>1 DEF PluginInit, Init, Fresh
<1>1. LifecycleType
  BY <1>0 DEF Unused, LifecycleType
<1>2. PublishType
  BY <1>0 DEF Unused, PublishType, Results
<1>3. PluginType
  BY DEF PluginInit, PluginType, Statuses
<1>4. /\ \A t \in Tasks : at[t] = "idle"
      /\ \A o \in Objects : client[o] = 0 /\ chan[o] = 0
      /\ \A h \in Clients : state[h] = "absent"
      /\ status = "REGISTERED" /\ producer = 0
  BY <1>0 DEF Unused, PluginInit
<1>5. FlightInv /\ OverlapInv
  BY <1>4 DEF FlightInv, OverlapInv
<1>6. AliasInv /\ KnownInv
  BY <1>4 DEF AliasInv, KnownInv, Spoilt
<1>7. ManagedInv
  BY <1>4 DEF ManagedInv, DirectInv, OwnInv, LatestInv, TaskInv, StatusInv, Spoilt
<1>8. PublishInv
  BY <1>0, ProducerAssumption DEF Unused, PublishInv
<1> QED BY <1>1, <1>2, <1>3, <1>5, <1>6, <1>7, <1>8 DEF IInv

(* A start() or close() under way goes on.                                 *)
LEMMA FlightStep ==
  ASSUME IInv, NEW t \in Tasks, UNCHANGED <<managed, producer>>,
         \/ Connected(t) /\ UNCHANGED status
         \/ (KafkaStarted(t) \/ SetUp(t)) /\ (managed => status' = "READY")
         \/ \E cleared \in BOOLEAN : StartFails(t, cleared)
                                     /\ status' \in {status, "FAILED"}
         \/ CloseEnds(t)
            /\ (managed => status' = IF at'[t] = "idle" THEN "STOPPED" ELSE status)
  PROVE  LifecycleType' /\ LifeInv' /\ ManagedInv'
<1>1. LifecycleType'
  BY FlightTypeStep DEF IInv
<1>2. LifeInv' /\ ManagedInv'
  <2>1. CASE Connected(t) /\ UNCHANGED status
    BY <2>1, ConnectedStep
  <2>2. CASE KafkaStarted(t) /\ (managed => status' = "READY")
    BY <2>2, KafkaStartedStep
  <2>3. CASE SetUp(t) /\ (managed => status' = "READY")
    BY <2>3, SetUpStep
  <2>4. ASSUME NEW cleared \in BOOLEAN, StartFails(t, cleared),
               status' \in {status, "FAILED"}
        PROVE  LifeInv' /\ ManagedInv'
    BY <2>4, StartFailsStep
  <2>5. CASE CloseEnds(t)
             /\ (managed => status' = IF at'[t] = "idle" THEN "STOPPED" ELSE status)
    <3>1. CASE ChannelClosed(t)
      BY <2>5, <3>1, ChannelClosedStep
    <3>2. CASE ChannelCloseCancelled(t)
      BY <2>5, <3>2, ChannelCloseCancelledStep
    <3>3. CASE Closed(t)
      BY <2>5, <3>3, ClosedStep
    <3>4. CASE CloseFails(t)
      BY <2>5, <3>4, CloseFailsStep
    <3> QED BY <2>5, <3>1, <3>2, <3>3, <3>4 DEF CloseEnds
  <2> QED BY <2>1, <2>2, <2>3, <2>4, <2>5
<1> QED BY <1>1, <1>2

(* Nothing that these invariants are about changes.                        *)
LEMMA QuietStep ==
  ASSUME IInv, UNCHANGED <<lifecycle, managed, plugin>>
  PROVE  LifecycleType' /\ LifeInv' /\ ManagedInv'
<1> USE DEF lifecycle, plugin
<1>1. LifecycleType'
  BY DEF IInv, LifecycleType
<1>2. LifeInv'
  BY SpoilingStep
<1>3. ManagedInv'
  BY DEF IInv, ManagedInv, DirectInv, OwnInv, LatestInv, TaskInv, StatusInv,
         Sender, Spoilt
<1> QED BY <1>1, <1>2, <1>3

(* The steps of a task or of a call of publish() leave each other's        *)
(* variables alone.                                                        *)
LEMMA CallsStep ==
  ASSUME IInv, NEW c \in Calls, Publishing(c) \/ GetProducer(c)
  PROVE  CallKeeps /\ UNCHANGED lifecycle
<1>1. CallKeeps
  BY PublishStep, SentOneStep, SentLastStep, SendFailsStep, FlushEndsStep,
     AcceptedLateStep, GetProducerStep DEF IInv, Publishing, PublishNext
<1>2. UNCHANGED lifecycle
  BY DEF Publishing, PublishNext, Publish, SentOne, SentLast, SendFails,
         FlushEnds, AcceptedLate, GetProducer
<1> QED BY <1>1, <1>2

(* start() and close() leave the publishing calls alone.                   *)
LEMMA TaskStep ==
  ASSUME NEW t \in Tasks,
         \/ \E h \in Clients : Start(t, h)
         \/ Connected(t) \/ KafkaStarted(t) \/ SetUp(t)
         \/ \E cleared \in BOOLEAN : StartFails(t, cleared)
         \/ CloseBegins(t, Direct) \/ CloseEnds(t)
         \/ Initialize(t) \/ Initialized(t) \/ InitializeFails(t)
         \/ Shutdown(t) \/ ShutdownEnds(t)
  PROVE  UNCHANGED publishing
<1>1. CloseEnds(t) => UNCHANGED publishing
  BY DEF CloseEnds, ChannelClosed, ChannelCloseCancelled, Closed, CloseFails,
         ClearFields
<1>2. \A o, h : StartOn(t, o, h) \/ CloseBegins(t, o) => UNCHANGED publishing
  BY DEF StartOn, CloseBegins
<1>3. /\ Connected(t) \/ KafkaStarted(t) \/ SetUp(t) => UNCHANGED publishing
      /\ \A cleared : StartFails(t, cleared) => UNCHANGED publishing
  BY DEF Connected, KafkaStarted, SetUp, StartFails
<1> QED
  BY <1>1, <1>2, <1>3 DEF Start, Initialize, Initialized, InitializeFails,
     Shutdown, ShutdownEnds

(* A step of a producer that is used directly.                             *)
LEMMA DirectStep ==
  ASSUME IInv, ~managed, UNCHANGED managed, Next, UNCHANGED plugin
  PROVE  /\ LifecycleType' /\ LifeInv' /\ ManagedInv'
         /\ CallKeeps \/ UNCHANGED publishing
<1> USE DEF plugin
<1>0. LifecycleType /\ FlightInv
  BY DEF IInv
<1>1. ASSUME NEW t \in Tasks, NEW h \in Clients, Start(t, h)
      PROVE  LifecycleType' /\ LifeInv' /\ ManagedInv' /\ UNCHANGED publishing
  <2>1. Direct \in Objects
    BY DEF Direct, Objects, Clients
  <2>2. contended' \subseteq Clients
    BY <1>0, <1>1, <2>1, HistoryType DEF Start, LifecycleType, InFlight, FlightInv
  <2>3. LifecycleType'
    BY <1>0, <1>1, <2>1, <2>2, StartOnType DEF Start
  <2> QED BY <1>1, <2>3, StartStep, TaskStep
<1>2. ASSUME NEW t \in Tasks, CloseBegins(t, Direct)
      PROVE  LifecycleType' /\ LifeInv' /\ ManagedInv' /\ UNCHANGED publishing
  <2>1. Direct \in Objects
    BY DEF Direct, Objects, Clients
  <2> QED BY <1>0, <1>2, <2>1, CloseBeginsType, CloseBeginsDirectStep, TaskStep
<1>3. ASSUME NEW t \in Tasks,
             \/ Connected(t) \/ KafkaStarted(t) \/ SetUp(t)
             \/ \E cleared \in BOOLEAN : StartFails(t, cleared)
             \/ CloseEnds(t)
      PROVE  LifecycleType' /\ LifeInv' /\ ManagedInv' /\ UNCHANGED publishing
  BY <1>3, FlightStep, TaskStep
<1>4. ASSUME NEW c \in Calls, Publishing(c)
      PROVE  LifecycleType' /\ LifeInv' /\ ManagedInv' /\ CallKeeps
  BY <1>4, CallsStep, QuietStep
<1> QED BY <1>1, <1>2, <1>3, <1>4 DEF Next, Publishing

(* A step of a producer that a plugin manages.                             *)
LEMMA ManagedStep ==
  ASSUME IInv, managed, UNCHANGED managed,
         \/ \E t \in Tasks :
              \/ Initialize(t) \/ Initialized(t) \/ InitializeFails(t)
              \/ Shutdown(t) \/ ShutdownEnds(t)
         \/ \E c \in Calls :
              \/ GetProducer(c)
              \/ callee[c] # 0 /\ Publishing(c) /\ UNCHANGED plugin
  PROVE  /\ LifecycleType' /\ PluginType' /\ LifeInv' /\ ManagedInv'
         /\ CallKeeps \/ UNCHANGED publishing
<1> USE DEF plugin
<1>0. LifecycleType /\ FlightInv /\ PluginType
  BY DEF IInv
<1>1. ASSUME NEW t \in Tasks, Initialize(t)
      PROVE  LifecycleType' /\ PluginType' /\ LifeInv' /\ ManagedInv' /\ UNCHANGED publishing
  <2>1. PICK h \in Clients :
          /\ StartOn(t, h, h)
          /\ status' = "INITIALIZED" /\ producer' = h
          /\ contended' = contended
               \union (IF producer = 0 THEN {} ELSE Referred(producer))
               \union (IF InFlight = {} THEN {} ELSE InFlight \union {h})
    BY <1>1 DEF Initialize
  <2>2. InFlight \subseteq Clients
    BY <1>0 DEF InFlight, FlightInv
  <2>3. producer # 0 => Referred(producer) \subseteq Clients
    BY <1>0, HistoryType DEF PluginType
  <2>4. contended' \subseteq Clients /\ h \in Objects
    BY <1>0, <2>1, <2>2, <2>3 DEF LifecycleType, Objects
  <2>5. LifecycleType'
    BY <1>0, <2>1, <2>4, StartOnType
  <2>6. PluginType'
    BY <1>0, <2>1, <2>4 DEF PluginType, Statuses
  <2> QED BY <1>1, <2>5, <2>6, InitializeStep, TaskStep
<1>2. ASSUME NEW t \in Tasks, Initialized(t) \/ InitializeFails(t) \/ ShutdownEnds(t)
      PROVE  LifecycleType' /\ PluginType' /\ LifeInv' /\ ManagedInv' /\ UNCHANGED publishing
  <2>1. LifecycleType' /\ LifeInv' /\ ManagedInv'
    <3>1. UNCHANGED <<managed, producer>>
      BY <1>2 DEF Initialized, InitializeFails, ShutdownEnds
    <3>2. CASE Initialized(t)
      BY <3>1, <3>2, FlightStep DEF Initialized
    <3>3. CASE InitializeFails(t)
      BY <3>1, <3>3, FlightStep DEF InitializeFails
    <3>4. CASE ShutdownEnds(t)
      BY <3>1, <3>4, FlightStep DEF ShutdownEnds
    <3> QED BY <1>2, <3>2, <3>3, <3>4
  <2>2. PluginType'
    BY <1>0, <1>2 DEF Initialized, InitializeFails, ShutdownEnds, PluginType, Statuses
  <2> QED BY <1>2, <2>1, <2>2, TaskStep
<1>3. ASSUME NEW t \in Tasks, Shutdown(t)
      PROVE  LifecycleType' /\ PluginType' /\ LifeInv' /\ ManagedInv' /\ UNCHANGED publishing
  <2>1. PluginType'
    BY <1>0, <1>3 DEF Shutdown, PluginType, Statuses
  <2>2. LifecycleType'
    <3>1. CASE producer # 0 /\ Referred(producer) # {}
      BY <1>0, <1>3, <3>1, CloseBeginsType DEF Shutdown, PluginType
    <3>2. CASE ~(producer # 0 /\ Referred(producer) # {})
      <4>1. InFlight \subseteq Clients
        BY <1>0 DEF InFlight, FlightInv
      <4> QED BY <1>0, <1>3, <3>2, <4>1 DEF Shutdown, LifecycleType
    <3> QED BY <3>1, <3>2
  <2> QED BY <1>3, <2>1, <2>2, ShutdownStep, TaskStep
<1>4. ASSUME NEW c \in Calls,
             GetProducer(c) \/ (Publishing(c) /\ UNCHANGED plugin)
      PROVE  LifecycleType' /\ PluginType' /\ LifeInv' /\ ManagedInv' /\ CallKeeps
  <2>1. UNCHANGED plugin
    BY <1>4 DEF GetProducer
  <2>2. PluginType'
    BY <1>0, <2>1 DEF PluginType
  <2> QED BY <1>4, <2>1, <2>2, CallsStep, QuietStep
<1> QED BY <1>1, <1>2, <1>3, <1>4

(* Every step keeps the invariant and is a step of the promise.            *)
LEMMA PluginStep ==
  IInv /\ [PluginNext]_pvars => IInv' /\ [Promised!Next]_(Promised!ovars)
<1> SUFFICES ASSUME IInv, [PluginNext]_pvars
             PROVE  IInv' /\ [Promised!Next]_(Promised!ovars)
  OBVIOUS
<1>1. /\ LifecycleType' /\ PluginType' /\ LifeInv' /\ ManagedInv'
      /\ CallKeeps \/ UNCHANGED publishing
  <2>1. CASE ~managed /\ UNCHANGED managed /\ Next /\ UNCHANGED plugin
    <3>1. PluginType'
      BY <2>1 DEF IInv, PluginType, plugin
    <3> QED BY <2>1, <3>1, DirectStep
  <2>2. CASE managed /\ UNCHANGED managed /\ PluginNext
    BY <2>2, ManagedStep DEF PluginNext
  <2>3. CASE UNCHANGED pvars
    <3>1. UNCHANGED <<lifecycle, managed, plugin>> /\ UNCHANGED publishing
      BY <2>3 DEF pvars, vars
    <3>2. PluginType'
      BY <3>1 DEF IInv, PluginType, plugin
    <3> QED BY <3>1, <3>2, QuietStep
  <2> QED BY <2>1, <2>2, <2>3 DEF PluginNext
<1>2. CASE CallKeeps
  BY <1>1, <1>2 DEF CallKeeps, IInv, LifeInv
<1>3. CASE UNCHANGED publishing
  <2>1. PublishType' /\ PublishInv'
    BY <1>3 DEF IInv, publishing, PublishType, PublishInv
  <2> QED BY <1>1, <1>3, <2>1 DEF IInv, LifeInv, publishing, Promised!ovars
<1> QED BY <1>1, <1>2, <1>3

(* The invariant the other theorems rest on.                               *)
THEOREM Invariance == PluginSpec => []IInv
BY InitIInv, PluginStep, PTL DEF PluginSpec

-----------------------------------------------------------------------------
(* The variables hold values of their types, and no call hands over or     *)
(* gets accepted more messages than it was given.                          *)
THEOREM TypeCorrect == PluginSpec => []PluginTypeOK
<1>1. IInv => PluginTypeOK
  <2> SUFFICES ASSUME IInv PROVE PluginTypeOK
    OBVIOUS
  <2>1. \A c \in Calls : attempted[c] \in 0 .. Size[c] /\ accepted[c] \in 0 .. Size[c]
    <3> SUFFICES ASSUME NEW c \in Calls
                 PROVE  attempted[c] \in 0 .. Size[c] /\ accepted[c] \in 0 .. Size[c]
      OBVIOUS
    <3>1. /\ attempted[c] \in Nat /\ accepted[c] \in Nat /\ Size[c] \in Nat
          /\ accepted[c] <= attempted[c] /\ attempted[c] <= Size[c]
      BY ProducerAssumption DEF IInv, PublishType, PublishInv
    <3> QED BY <3>1
  <2> QED BY <2>1 DEF IInv, LifecycleType, PublishType, PluginType, PluginTypeOK, TypeOK
<1> QED BY <1>1, Invariance, PTL

(* A client that is up is known to its producer or to the task that starts *)
(* or closes it, however start(), close() and the plugin's calls of them   *)
(* interleave, as long as none overlapped or failed for this client.       *)
THEOREM NoClientForgotten == PluginSpec => []LiveClientIsKnown
<1>1. IInv => LiveClientIsKnown
  <2> SUFFICES ASSUME IInv, NEW h \in Clients \ (contended \union faulted),
                      state[h] = "up"
               PROVE  h \in {client[o] : o \in Objects} \union InFlight
    BY DEF LiveClientIsKnown
  <2>1. ~Spoilt(h)
    BY ClientsPositive DEF Spoilt
  <2>2. CASE \E o \in Objects : client[o] = h
    BY <2>2
  <2>3. CASE \E t \in Tasks : at[t] # "idle" /\ held[t] = h
    BY <2>3 DEF InFlight
  <2> QED BY <2>1, <2>2, <2>3 DEF IInv, KnownInv
<1> QED BY <1>1, Invariance, PTL

(* A plugin that says READY can publish: the status is set only when       *)
(* start() is done and taken back before close() gives up anything.        *)
THEOREM ReadyMeansReady == PluginSpec => []ReadyCanPublish
<1>1. IInv => ReadyCanPublish
  <2> SUFFICES ASSUME IInv, managed, Ready, producer \notin contended \union faulted
               PROVE  Sender(producer) # 0 /\ state[Sender(producer)] = "up"
    BY DEF ReadyCanPublish
  <2>1. StatusInv /\ ~Spoilt(producer) /\ producer # 0 /\ status = "READY"
    BY DEF IInv, ManagedInv, Ready, Spoilt
  <2> QED BY <2>1 DEF StatusInv
<1> QED BY <1>1, Invariance, PTL

(* A STOPPED plugin has left no client up, call under way or not, except   *)
(* one whose initialize() overlapped, was repeated or failed.              *)
THEOREM StoppedMeansStopped == PluginSpec => []StoppedLeavesNoClient
<1>1. IInv => StoppedLeavesNoClient
  <2> SUFFICES ASSUME IInv, managed, status = "STOPPED",
                      NEW h \in Clients \ (contended \union faulted),
                      state[h] = "up"
               PROVE  FALSE
    BY DEF StoppedLeavesNoClient
  <2>1. ~Spoilt(h)
    BY ClientsPositive DEF Spoilt
  <2>2. h = producer
    BY <2>1 DEF IInv, ManagedInv, LatestInv
  <2> QED BY <2>1, <2>2 DEF IInv, ManagedInv, StatusInv
<1> QED BY <1>1, Invariance, PTL

(* A call ends in an AttributeError only after a message was accepted, and *)
(* with none in doubt.                                                     *)
THEOREM AttributeErrorIsSettled == PluginSpec => []LostDuringBatch
<1>1. IInv => LostDuringBatch
  BY DEF IInv, PublishInv, LostDuringBatch
<1> QED BY <1>1, Invariance, PTL

(* publish() and publish_batch() keep the promise of Outbox: no gap, no    *)
(* early return, at most one message in doubt.                             *)
THEOREM Refinement == PluginSpec => ImplementsOutbox
<1>1. PluginInit => Promised!Init
  BY DEF PluginInit, Init, Fresh, Unused, Promised!Init
<1> QED
  BY <1>1, PluginStep, Invariance, PTL DEF PluginSpec, ImplementsOutbox, Promised!Spec
=============================================================================
