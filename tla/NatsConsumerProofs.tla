------------------------- MODULE NatsConsumerProofs -------------------------
(***************************************************************************)
(* Theorems about NatsConsumer for every set of messages and of closing    *)
(* tasks, any max_deliver and any number of sessions.                      *)
(*                                                                         *)
(* EndedSessionIsClosed is not inductive: SessionInv says which session    *)
(* may hold a live subscription, and that self._nc still refers to its     *)
(* connection.  DeliveryInv ties the server's view of a message to the     *)
(* handler's; the abstract promise follows from it step by step.           *)
(***************************************************************************)
EXTENDS NatsConsumer, TLAPS

(* The session's connection has, or had, its subscription.                 *)
Bound(h) == conn[h] \in {"subscribed", "unsubscribed"}

(* Only the session that is in its loop or its finally block has a         *)
(* subscription, and as long as its connection is not closed the field     *)
(* refers to it - unless a close() of another session interfered.          *)
SessionInv ==
  /\ task # "idle" => loop \in Handles
  /\ ~crossed => \A h \in Handles :
       Bound(h) => h = loop /\ nc = h /\ task \in Looping \union Leaving
  /\ ~crossed /\ task \in {"ensuring", "subscribing"} =>
       (Connected(loop) => nc = loop)

(* A message is acknowledged only after its handler has returned, given up *)
(* only after the last delivery, and ready only while one is left.         *)
DeliveryInv ==
  /\ task \in {"handling", "acking", "nacking"} => msg \in Messages
  /\ task = "acking" => msg \in handled
  /\ \A m \in Messages :
       /\ state[m] = "acked" => m \in handled
       /\ state[m] = "dead" => deliveries[m] = MaxDeliver
       /\ state[m] = "ready" => deliveries[m] < MaxDeliver

(* The inductive invariant.                                                *)
IInv == TypeOK /\ SessionInv /\ DeliveryInv

USE NatsAssumption, NoneAssumption

(* No session has begun and every message is ready at first.               *)
LEMMA InitIInv == Init => IInv
<1> SUFFICES ASSUME Init PROVE IInv
  OBVIOUS
<1>1. TypeOK
  <2>1. NotClosing \in [at : {"idle", "unsubscribing", "closing"},
                        target : Handles \union {0}]
    BY DEF NotClosing
  <2>2. 0 \in 0 .. MaxDeliver
    OBVIOUS
  <2> QED BY <2>1, <2>2 DEF Init, TypeOK
<1>2. SessionInv
  BY DEF Init, SessionInv, Bound
<1>3. DeliveryInv
  BY DEF Init, DeliveryInv
<1> QED BY <1>1, <1>2, <1>3 DEF IInv

(* Every step keeps the types.                                             *)
LEMMA TypeStep == IInv /\ [Next]_vars => TypeOK'
<1> SUFFICES ASSUME IInv, [Next]_vars PROVE TypeOK'
  OBVIOUS
<1>0. TypeOK /\ (task # "idle" => loop \in Handles)
  BY DEF IInv, SessionInv
<1>a. task \in {"handling", "acking", "nacking"} => msg \in Messages
  BY DEF IInv, DeliveryInv
<1> USE <1>0 DEF TypeOK, Handles, Setup, Looping, Leaving
<1>b. \A h \in Handles \union {0} :
        Unsubscribed(h) =>
          conn' \in [Handles -> {"new", "open", "subscribed", "unsubscribed", "closed"}]
  BY DEF Unsubscribed
<1>c. \A m \in Messages : Expired(m) \in {"ready", "dead"}
  BY DEF Expired
<1>d. \A h \in Handles \union {0} :
        {NotClosing, [at |-> "unsubscribing", target |-> h],
         [at |-> "closing", target |-> h]}
          \subseteq [at : {"idle", "unsubscribing", "closing"},
                     target : Handles \union {0}]
  BY DEF NotClosing
<1>1. CASE Subscribe BY <1>1 DEF Subscribe, fields, server
<1>2. CASE ConnectReturns BY <1>2 DEF ConnectReturns, server
<1>3. CASE EnsureReturns BY <1>3 DEF EnsureReturns, fields, server
<1>4. CASE SubscribeReturns BY <1>4 DEF SubscribeReturns, server
<1>5. CASE SetupFails BY <1>5 DEF SetupFails, server
<1>6. CASE HandlerReturns BY <1>6, <1>a DEF HandlerReturns, fields, server
<1>7. CASE HandlerRaises BY <1>7 DEF HandlerRaises, fields, server
<1>8. CASE AckEnds BY <1>8, <1>a DEF AckEnds, fields
<1>9. CASE NakEnds BY <1>9, <1>a, <1>c DEF NakEnds, fields
<1>10. CASE IteratorEnds BY <1>10 DEF IteratorEnds, Leave, fields, server
<1>11. CASE Cancel BY <1>11 DEF Cancel, Leave, fields, server
<1>12. CASE UnsubscribeEnds
  BY <1>12, <1>b DEF UnsubscribeEnds, fields, server
<1>13. CASE CloseConnectionEnds BY <1>13 DEF CloseConnectionEnds, server
<1>14. CASE Crash BY <1>14 DEF Crash, server, NotClosing
<1>15. ASSUME NEW m \in Messages, Take(m) PROVE TypeOK'
  BY <1>15 DEF Take, Leave, fields, server
<1>16. ASSUME NEW m \in Messages, Deliver(m) PROVE TypeOK'
  <2>1. deliveries[m] + 1 \in 0 .. MaxDeliver
    BY <1>16 DEF Deliver, IInv, DeliveryInv
  <2>2. buffer' \subseteq Messages
    BY <1>16 DEF Deliver
  <2> QED BY <2>1, <2>2, <1>16 DEF Deliver, fields, local
<1>17. ASSUME NEW m \in Messages, AckWaitElapses(m) PROVE TypeOK'
  BY <1>17, <1>c DEF AckWaitElapses, fields, local
<1>18. ASSUME NEW c \in Closers, Close(c) PROVE TypeOK'
  <2> DEFINE Closing == [at : {"idle", "unsubscribing", "closing"},
                         target : Handles \union {0}]
  <2>1. \E r \in Closing : closer' = [closer EXCEPT ![c] = r]
    BY <1>18, <1>d DEF Close, ThenClose
  <2>2. closer' \in [Closers -> Closing]
    BY <2>1
  <2> QED BY <2>2, <1>18 DEF Close, local, server
<1>19. ASSUME NEW c \in Closers, CloseUnsubscribed(c) PROVE TypeOK'
  <2>1. closer[c].target \in Handles \union {0}
    OBVIOUS
  <2> QED
    BY <2>1, <1>19, <1>b DEF CloseUnsubscribed, ThenClose, NotClosing, Crosses,
       fields, local, server
<1>20. ASSUME NEW c \in Closers, CloseEnds(c) PROVE TypeOK'
  BY <1>20 DEF CloseEnds, NotClosing, Crosses, local, server
<1>21. CASE UNCHANGED vars
  BY <1>21 DEF vars, fields, local, server
<1> QED
  BY <1>1, <1>2, <1>3, <1>4, <1>5, <1>6, <1>7, <1>8, <1>9, <1>10, <1>11,
     <1>12, <1>13, <1>14, <1>15, <1>16, <1>17, <1>18, <1>19, <1>20, <1>21
  DEF Next

(* Every step keeps the subscriptions accounted for.  A close() that ends  *)
(* clears the field of the session it closed, or it has crossed.           *)
LEMMA SessionStep == IInv /\ [Next]_vars => SessionInv'
<1> SUFFICES ASSUME IInv, [Next]_vars PROVE SessionInv'
  OBVIOUS
<1>0. TypeOK /\ SessionInv
  BY DEF IInv
<1> USE <1>0 DEF TypeOK, SessionInv, Bound, Connected, Handles, Setup, Looping,
                 Leaving
<1>1. CASE Subscribe BY <1>1 DEF Subscribe, fields
<1>2. CASE ConnectReturns BY <1>2 DEF ConnectReturns
<1>3. CASE EnsureReturns BY <1>3 DEF EnsureReturns, fields
<1>4. CASE SubscribeReturns BY <1>4 DEF SubscribeReturns
<1>5. CASE SetupFails BY <1>5 DEF SetupFails
<1>6. CASE HandlerReturns BY <1>6 DEF HandlerReturns, fields
<1>7. CASE HandlerRaises BY <1>7 DEF HandlerRaises, fields
<1>8. CASE AckEnds BY <1>8 DEF AckEnds, fields
<1>9. CASE NakEnds BY <1>9 DEF NakEnds, fields
<1>10. CASE IteratorEnds BY <1>10 DEF IteratorEnds, Leave, fields
<1>11. CASE Cancel BY <1>11 DEF Cancel, Leave, fields
<1>12. CASE UnsubscribeEnds
  BY <1>12 DEF UnsubscribeEnds, Unsubscribed, fields
<1>13. CASE CloseConnectionEnds BY <1>13 DEF CloseConnectionEnds
<1>14. CASE Crash BY <1>14 DEF Crash
<1>15. ASSUME NEW m \in Messages, Take(m) PROVE SessionInv'
  BY <1>15 DEF Take, Leave, fields
<1>16. ASSUME NEW m \in Messages, Deliver(m) PROVE SessionInv'
  BY <1>16 DEF Deliver, fields, local
<1>17. ASSUME NEW m \in Messages, AckWaitElapses(m) PROVE SessionInv'
  BY <1>17 DEF AckWaitElapses, fields, local
<1>18. ASSUME NEW c \in Closers, Close(c) PROVE SessionInv'
  BY <1>18 DEF Close, local
<1>19. ASSUME NEW c \in Closers, CloseUnsubscribed(c) PROVE SessionInv'
  <2>1. /\ \A h \in Handles : Bound(h)' <=> Bound(h)
        /\ \A h \in Handles : Connected(h)' <=> Connected(h)
        /\ UNCHANGED <<nc, task, loop>> /\ (crossed => crossed')
    BY <1>19 DEF CloseUnsubscribed, Unsubscribed, fields, local
  <2> QED BY <2>1
<1>20. ASSUME NEW c \in Closers, CloseEnds(c) PROVE SessionInv'
  <2> DEFINE target == closer[c].target
  <2>1. /\ UNCHANGED <<task, loop>> /\ nc' = 0
        /\ conn' = [conn EXCEPT ![target] = "closed"]
        /\ ~crossed' => ~crossed /\ nc \in {0, target}
    BY <1>20 DEF CloseEnds, Crosses, local
  <2>2. target \in Handles \union {0}
    OBVIOUS
  <2> QED BY <2>1, <2>2
<1>21. CASE UNCHANGED vars
  BY <1>21 DEF vars, fields, local
<1> QED
  BY <1>1, <1>2, <1>3, <1>4, <1>5, <1>6, <1>7, <1>8, <1>9, <1>10, <1>11,
     <1>12, <1>13, <1>14, <1>15, <1>16, <1>17, <1>18, <1>19, <1>20, <1>21
  DEF Next

(* Every step keeps what the server knows in step with the handlers.       *)
LEMMA DeliveryStep == IInv /\ [Next]_vars => DeliveryInv'
<1> SUFFICES ASSUME IInv, [Next]_vars PROVE DeliveryInv'
  OBVIOUS
<1>0. TypeOK /\ DeliveryInv
  BY DEF IInv
<1> USE <1>0 DEF TypeOK, DeliveryInv
<1>1. CASE Subscribe BY <1>1 DEF Subscribe, server
<1>2. CASE ConnectReturns BY <1>2 DEF ConnectReturns, server
<1>3. CASE EnsureReturns BY <1>3 DEF EnsureReturns, server
<1>4. CASE SubscribeReturns BY <1>4 DEF SubscribeReturns, server
<1>5. CASE SetupFails BY <1>5 DEF SetupFails, server
<1>6. CASE HandlerReturns BY <1>6 DEF HandlerReturns, server
<1>7. CASE HandlerRaises BY <1>7 DEF HandlerRaises, server
<1>8. CASE AckEnds BY <1>8 DEF AckEnds
<1>9. CASE NakEnds
  <2>1. /\ msg \in Messages /\ task' = "polling"
        /\ UNCHANGED <<deliveries, handled>>
    BY <1>9 DEF NakEnds
  <2>2. /\ Expired(msg) \in {"ready", "dead"}
        /\ Expired(msg) = "dead" => deliveries[msg] = MaxDeliver
        /\ Expired(msg) = "ready" => deliveries[msg] < MaxDeliver
    <3>1. deliveries[msg] \in 0 .. MaxDeliver /\ MaxDeliver \in Nat
      BY <2>1
    <3>2. deliveries[msg] < MaxDeliver \/ deliveries[msg] = MaxDeliver
      BY <3>1
    <3> QED BY <3>2, Zenon DEF Expired
  <2>3. UNCHANGED state \/ state' = [state EXCEPT ![msg] = Expired(msg)]
    BY <1>9 DEF NakEnds
  <2>4. CASE UNCHANGED state
    BY <2>1, <2>4
  <2>5. CASE state' = [state EXCEPT ![msg] = Expired(msg)]
    <3>1. \A m \in Messages : state'[m] = IF m = msg THEN Expired(msg) ELSE state[m]
      BY <2>1, <2>5
    <3> QED BY <2>1, <2>2, <3>1
  <2> QED BY <2>3, <2>4, <2>5
<1>10. CASE IteratorEnds BY <1>10 DEF IteratorEnds, Leave, server
<1>11. CASE Cancel BY <1>11 DEF Cancel, Leave, server
<1>12. CASE UnsubscribeEnds BY <1>12 DEF UnsubscribeEnds, server
<1>13. CASE CloseConnectionEnds BY <1>13 DEF CloseConnectionEnds, server
<1>14. CASE Crash BY <1>14 DEF Crash, server
<1>15. ASSUME NEW m \in Messages, Take(m) PROVE DeliveryInv'
  BY <1>15 DEF Take, Leave, server
<1>16. ASSUME NEW m \in Messages, Deliver(m) PROVE DeliveryInv'
  BY <1>16 DEF Deliver, local
<1>17. ASSUME NEW m \in Messages, AckWaitElapses(m) PROVE DeliveryInv'
  BY <1>17 DEF AckWaitElapses, Expired, local
<1>18. ASSUME NEW c \in Closers, Close(c) PROVE DeliveryInv'
  BY <1>18 DEF Close, local, server
<1>19. ASSUME NEW c \in Closers, CloseUnsubscribed(c) PROVE DeliveryInv'
  BY <1>19 DEF CloseUnsubscribed, local, server
<1>20. ASSUME NEW c \in Closers, CloseEnds(c) PROVE DeliveryInv'
  BY <1>20 DEF CloseEnds, local, server
<1>21. CASE UNCHANGED vars
  BY <1>21 DEF vars, local, server
<1> QED
  BY <1>1, <1>2, <1>3, <1>4, <1>5, <1>6, <1>7, <1>8, <1>9, <1>10, <1>11,
     <1>12, <1>13, <1>14, <1>15, <1>16, <1>17, <1>18, <1>19, <1>20, <1>21
  DEF Next

(* The invariant the other theorems rest on.                               *)
THEOREM Invariance == Spec => []IInv
<1>1. IInv /\ [Next]_vars => IInv'
  BY TypeStep, SessionStep, DeliveryStep DEF IInv
<1> QED BY InitIInv, <1>1, PTL DEF Spec

-----------------------------------------------------------------------------
(* The variables hold values of their types.                               *)
THEOREM TypeCorrect == Spec => []TypeOK
BY Invariance, PTL DEF IInv

(* A session that has ended has closed its subscription and connection,    *)
(* however many tasks call close() and wherever they interrupt it.         *)
THEOREM EndedSessionClosed == Spec => []EndedSessionIsClosed
<1>1. IInv => EndedSessionIsClosed
  BY DEF IInv, SessionInv, Bound, EndedSessionIsClosed, Looping, Leaving
<1> QED BY <1>1, Invariance, PTL

(* The steps that change what the server owes, what it has given up or     *)
(* what was handled; every other step is a stutter of the promise.         *)
LEMMA QuietStep ==
  ASSUME [Next]_vars,
         ~(AckEnds \/ NakEnds \/ HandlerReturns),
         \A m \in Messages : ~Deliver(m) /\ ~AckWaitElapses(m)
  PROVE  UNCHANGED <<state, deliveries, handled>>
BY DEF Next, vars, fields, local, server, Subscribe, ConnectReturns,
       EnsureReturns, SubscribeReturns, SetupFails, HandlerRaises, IteratorEnds,
       Cancel, Leave, UnsubscribeEnds, CloseConnectionEnds, Crash, Take, Close,
       CloseUnsubscribed, CloseEnds

(* The consumer keeps the abstract delivery promise: the server stops owing *)
(* a message only after its handler has returned or every delivery that    *)
(* max_deliver allows has been made.                                       *)
THEOREM Refinement == Spec => ImplementsAtLeastOnce
<1> DEFINE Owed == {m \in Messages : state[m] \notin {"acked", "dead"}}
           Failed == {m \in Messages : deliveries[m] = MaxDeliver}
<1>1. Init => Delivery!Init
  BY DEF Init, Delivery!Init
<1>2. IInv /\ [Next]_vars => [Delivery!Next]_(Delivery!vars)
  <2> SUFFICES ASSUME IInv, [Next]_vars
               PROVE  Delivery!Next \/ UNCHANGED Delivery!vars
    OBVIOUS
  <2>0. TypeOK /\ DeliveryInv
    BY DEF IInv
  <2>a. ASSUME NEW m \in Messages, NEW s \in {"ready", "acked", "dead", "inflight"},
               state' = [state EXCEPT ![m] = s],
               UNCHANGED <<deliveries, handled>>,
               s = "acked" => m \in handled,
               s = "dead" => deliveries[m] = MaxDeliver,
               state[m] \in {"ready", "inflight"} \/ s \in {"acked", "dead"}
        PROVE  Delivery!Next \/ UNCHANGED Delivery!vars
    <3>1. \A n \in Messages : state'[n] = IF n = m THEN s ELSE state[n]
      BY <2>0, <2>a DEF TypeOK
    <3>2. Failed' = Failed /\ handled' = handled
      BY <2>a
    <3>3. CASE state[m] \notin {"acked", "dead"} /\ s \in {"acked", "dead"}
      <4>1. Owed' = Owed \ {m}
        BY <3>1, <3>3
      <4>2. m \in handled \union Failed /\ {m} \in SUBSET Owed
        BY <2>a, <3>3
      <4>3. \E T \in SUBSET Owed :
              T \subseteq handled \union Failed /\ Owed' = Owed \ T
        BY <4>1, <4>2
      <4> HIDE DEF Owed, Failed
      <4> QED BY <4>3, <3>2 DEF Delivery!Next, Delivery!Settle, Owed, Failed
    <3>4. CASE ~(state[m] \notin {"acked", "dead"} /\ s \in {"acked", "dead"})
      <4>1. Owed' = Owed
        BY <3>1, <3>4, <2>a, <2>0 DEF TypeOK
      <4> QED BY <4>1, <3>2 DEF Delivery!vars
    <3> QED BY <3>3, <3>4
  <2>1. CASE HandlerReturns
    <3>1. msg \in Messages
      BY <2>1, <2>0 DEF HandlerReturns, DeliveryInv
    <3>2. Delivery!Handle(msg)
      BY <2>1 DEF HandlerReturns, server, Delivery!Handle
    <3> QED BY <3>1, <3>2 DEF Delivery!Next
  <2>2. CASE AckEnds
    <3>1. msg \in Messages /\ msg \in handled
      BY <2>2, <2>0 DEF AckEnds, DeliveryInv
    <3>2. CASE UNCHANGED state
      BY <2>2, <3>2 DEF AckEnds, Delivery!vars
    <3>3. CASE state' = [state EXCEPT ![msg] = "acked"]
      BY <2>2, <3>1, <3>3, <2>a DEF AckEnds
    <3> QED BY <2>2, <3>2, <3>3 DEF AckEnds
  <2>3. CASE NakEnds
    <3>1. msg \in Messages
      BY <2>3, <2>0 DEF NakEnds, DeliveryInv
    <3>2. CASE UNCHANGED state
      BY <2>3, <3>2 DEF NakEnds, Delivery!vars
    <3>3. CASE /\ state[msg] = "inflight"
               /\ state' = [state EXCEPT ![msg] = Expired(msg)]
      <4>1. /\ Expired(msg) \in {"ready", "dead"}
            /\ Expired(msg) = "dead" => deliveries[msg] = MaxDeliver
        BY <3>1, <2>0 DEF Expired, TypeOK
      <4> QED BY <2>3, <3>1, <3>3, <4>1, <2>a DEF NakEnds
    <3> QED BY <2>3, <3>2, <3>3 DEF NakEnds
  <2>4. ASSUME NEW m \in Messages, Deliver(m)
        PROVE  Delivery!Next \/ UNCHANGED Delivery!vars
    <3>1. /\ \A n \in Messages : state'[n] = IF n = m THEN "inflight" ELSE state[n]
          /\ \A n \in Messages :
               deliveries'[n] = IF n = m THEN deliveries[m] + 1 ELSE deliveries[n]
          /\ state[m] = "ready" /\ handled' = handled
      BY <2>4, <2>0 DEF Deliver, TypeOK
    <3>2. Owed' = Owed
      BY <3>1
    <3>3. deliveries[m] < MaxDeliver /\ deliveries[m] \in Nat
      BY <3>1, <2>0 DEF DeliveryInv, TypeOK
    <3>4. CASE deliveries[m] + 1 = MaxDeliver
      <4>1. Failed' = Failed \union {m}
        BY <3>1, <3>4
      <4>2. Delivery!Fail(m)
        BY <3>1, <3>2, <4>1 DEF Delivery!Fail
      <4> QED BY <4>2 DEF Delivery!Next
    <3>5. CASE deliveries[m] + 1 # MaxDeliver
      <4>1. Failed' = Failed
        BY <3>1, <3>3, <3>5
      <4> QED BY <3>1, <3>2, <4>1 DEF Delivery!vars
    <3> QED BY <3>4, <3>5
  <2>5. ASSUME NEW m \in Messages, AckWaitElapses(m)
        PROVE  Delivery!Next \/ UNCHANGED Delivery!vars
    <3>1. /\ Expired(m) \in {"ready", "dead"}
          /\ Expired(m) = "dead" => deliveries[m] = MaxDeliver
      BY <2>0 DEF Expired, TypeOK
    <3> QED BY <2>5, <3>1, <2>a DEF AckWaitElapses
  <2>6. CASE UNCHANGED <<state, deliveries, handled>>
    BY <2>6 DEF Delivery!vars
  <2> QED BY <2>1, <2>2, <2>3, <2>4, <2>5, <2>6, QuietStep
<1> QED BY <1>1, <1>2, Invariance, PTL DEF Spec, ImplementsAtLeastOnce, Delivery!Spec
=============================================================================
