----------------------- MODULE RabbitmqConsumerProofs -----------------------
(***************************************************************************)
(* Theorems about RabbitmqConsumer for every set of messages and of        *)
(* closing tasks, any prefetch and any number of sessions.                 *)
(*                                                                         *)
(* NothingHeldBack is not inductive.  FreshInv says that nothing names a   *)
(* connection before there is one, HoldingInv that only a consuming        *)
(* channel holds messages, ChannelInv which session may consume and that   *)
(* self._channel still refers to it.  CursorInv ties the raw message that  *)
(* ack() acknowledges to the one the handler has returned for.             *)
(***************************************************************************)
EXTENDS RabbitmqConsumer, TLAPS

(* A session whose connection is not there yet is named by nothing.        *)
FreshInv ==
  /\ \A h \in Handles :
       h > loop \/ (h = loop /\ task = "connecting") => conn[h] = "new"
  /\ connection # 0 => conn[connection] # "new"
  /\ channel # 0 => conn[channel] # "new"
  /\ \A c \in Closers :
       closer[c].target # 0 => conn[closer[c].target] # "new"

(* A message is unacked only on a channel that consumes.                   *)
HoldingInv ==
  \A m \in Messages : holder[m] # 0 => conn[holder[m]] = "consuming"

(* Only the current session consumes, and while its channel is open the    *)
(* field refers to it - unless a close() of another session interfered.    *)
ChannelInv ==
  /\ task # "idle" => loop \in Handles
  /\ ~crossed => \A h \in Handles :
       conn[h] = "consuming" =>
         h = loop /\ task \in Looping \union {"leaving", "closing channel"}
  /\ ~crossed
     /\ task \in {"qos", "declaring", "leaving"} \union Looping
     /\ conn[loop] \in {"open", "consuming"} => channel = loop

(* The cursor is the message in the handler, and what is acknowledged has  *)
(* been handled.                                                           *)
CursorInv ==
  /\ task \in {"handling", "acking", "nacking"} => raw = msg /\ msg \in Messages
  /\ task = "acking" => msg \in handled
  /\ acked \subseteq handled

(* The inductive invariant.                                                *)
IInv == TypeOK /\ FreshInv /\ HoldingInv /\ ChannelInv /\ CursorInv

USE RabbitmqAssumption

(* No session has begun and no message is held at first.                   *)
LEMMA InitIInv == Init => IInv
<1> SUFFICES ASSUME Init PROVE IInv
  OBVIOUS
<1>1. TypeOK
  BY DEF Init, TypeOK
<1>2. HoldingInv
  BY DEF Init, HoldingInv
<1>3. ChannelInv
  BY DEF Init, ChannelInv, Looping
<1>4. CursorInv
  BY DEF Init, CursorInv
<1>5. FreshInv
  BY DEF Init, FreshInv, NotClosing
<1> QED BY <1>1, <1>2, <1>3, <1>4, <1>5 DEF IInv

-----------------------------------------------------------------------------
(* What closing a channel or a connection does to the broker.              *)
LEMMA RequeueEffect ==
  ASSUME TypeOK, NEW h \in Handles \union {0}, Requeue(h)
  PROVE  /\ holder' \in [Messages -> Handles \union {0}]
         /\ \A m \in Messages :
              holder'[m] = IF holder[m] = h THEN 0 ELSE holder[m]
         /\ rawValid' \in BOOLEAN
BY DEF TypeOK, Requeue

(* Closing a channel returns what it holds, ...                            *)
LEMMA CloseChannelEffect ==
  ASSUME TypeOK, NEW h \in Handles \union {0}, CloseChannel(h)
  PROVE  /\ conn' \in [Handles -> {"new", "open", "consuming", "no channel", "closed"}]
         /\ \A k \in Handles : k # h => conn'[k] = conn[k]
         /\ h \in Handles => conn'[h] \in {"no channel", "closed"}
         /\ Requeue(h)
BY DEF TypeOK, CloseChannel

(* ... and so does closing its connection.                                 *)
LEMMA CloseConnectionEffect ==
  ASSUME TypeOK, NEW h \in Handles \union {0}, CloseConnection(h)
  PROVE  /\ conn' \in [Handles -> {"new", "open", "consuming", "no channel", "closed"}]
         /\ \A k \in Handles : k # h => conn'[k] = conn[k]
         /\ h \in Handles => conn'[h] = "closed"
         /\ Requeue(h)
BY DEF TypeOK, CloseConnection

(* Either of them, connection by connection and message by message.        *)
LEMMA ClosesEffect ==
  ASSUME TypeOK, NEW h \in Handles \union {0},
         CloseChannel(h) \/ CloseConnection(h)
  PROVE  /\ \A k \in Handles : k # h => conn'[k] = conn[k]
         /\ h \in Handles => conn'[h] \in {"no channel", "closed"}
         /\ \A k \in Handles :
              \/ conn'[k] = conn[k]
              \/ k = h /\ conn'[k] \in {"no channel", "closed"}
         /\ \A m \in Messages :
              holder'[m] = IF holder[m] = h THEN 0 ELSE holder[m]
<1>1. CASE CloseChannel(h)
  BY <1>1, CloseChannelEffect, RequeueEffect
<1>2. CASE CloseConnection(h)
  BY <1>2, CloseConnectionEffect, RequeueEffect
<1> QED BY <1>1, <1>2

(* Where close() may be suspended, and on which session's fields.          *)
ClosingAt == [at : {"channel", "connection"}, target : Handles] \union {NotClosing}

(* A closing task waits for a session, or for nothing.                     *)
LEMMA CloserTarget ==
  ASSUME TypeOK, NEW c \in Closers
  PROVE  closer[c].target \in Handles \union {0}
<1>1. closer[c] \in ClosingAt
  BY DEF TypeOK, ClosingAt
<1> QED BY <1>1 DEF ClosingAt, NotClosing

(* A step of close() makes it wait for what a field refers to, or for      *)
(* nothing.                                                                *)
LEMMA CloserEffect ==
  ASSUME TypeOK, NEW c \in Closers,
         Close(c) \/ CloserChannelCloses(c) \/ CloserConnectionCloses(c)
  PROVE  /\ closer' \in [Closers -> ClosingAt]
         /\ \A d \in Closers : closer'[d].target \in
              {0, channel, connection, closer[d].target}
<1> DEFINE OnChannel == [at |-> "channel", target |-> channel]
           OnConnection == [at |-> "connection", target |-> connection]
<1>1. \/ closer' = [closer EXCEPT ![c] = NotClosing]
      \/ channel # 0 /\ closer' = [closer EXCEPT ![c] = OnChannel]
      \/ connection # 0 /\ closer' = [closer EXCEPT ![c] = OnConnection]
  <2>1. CASE CloserAtConnection(c)
    <3>1. CASE connection = 0
      BY <2>1, <3>1 DEF CloserAtConnection
    <3>2. CASE connection # 0
      BY <2>1, <3>2 DEF CloserAtConnection
    <3> QED BY <3>1, <3>2
  <2> QED BY <2>1 DEF Close, CloserChannelCloses, CloserConnectionCloses
<1>2. PICK r \in ClosingAt : /\ closer' = [closer EXCEPT ![c] = r]
                            /\ r.target \in {0, channel, connection}
  <2>1. NotClosing \in ClosingAt /\ NotClosing.target = 0
    BY DEF ClosingAt, NotClosing
  <2>2. channel # 0 => OnChannel \in ClosingAt
    BY DEF TypeOK, ClosingAt
  <2>3. connection # 0 => OnConnection \in ClosingAt
    BY DEF TypeOK, ClosingAt
  <2> HIDE DEF OnChannel, OnConnection
  <2>4. OnChannel.target = channel /\ OnConnection.target = connection
    BY DEF OnChannel, OnConnection
  <2> QED BY <1>1, <2>1, <2>2, <2>3, <2>4
<1>3. closer \in [Closers -> ClosingAt]
  BY DEF TypeOK, ClosingAt
<1>4. /\ closer' \in [Closers -> ClosingAt]
      /\ closer'[c] = r
      /\ \A d \in Closers : d # c => closer'[d] = closer[d]
  BY <1>2, <1>3
<1> QED BY <1>2, <1>4

(* What _close_connection() of the finally block does first.               *)
LEMMA FinallyEffect ==
  ASSUME ThenCloseChannel \/ ThenCloseConnection
  PROVE  /\ task' \in {"idle", "closing channel", "closing connection"}
         /\ running' \in {running, FALSE}
         /\ UNCHANGED connection
BY DEF ThenCloseChannel, ThenCloseConnection

(* Every step keeps the types.                                             *)
LEMMA TypeStep == IInv /\ [Next]_vars => TypeOK'
<1> SUFFICES ASSUME IInv, [Next]_vars PROVE TypeOK'
  OBVIOUS
<1>0. /\ TypeOK /\ (task # "idle" => loop \in Handles)
      /\ task \in {"handling", "acking", "nacking"} => raw = msg /\ msg \in Messages
  BY DEF IInv, ChannelInv, CursorInv
<1>a. \A h \in Handles \union {0} :
        /\ Requeue(h) \/ CloseChannel(h) \/ CloseConnection(h) =>
             /\ holder' \in [Messages -> Handles \union {0}]
             /\ rawValid' \in BOOLEAN
        /\ CloseChannel(h) \/ CloseConnection(h) =>
             conn' \in [Handles -> {"new", "open", "consuming", "no channel", "closed"}]
  BY <1>0, RequeueEffect, CloseChannelEffect, CloseConnectionEffect
<1>b. ASSUME NEW c \in Closers,
             Close(c) \/ CloserChannelCloses(c) \/ CloserConnectionCloses(c)
      PROVE  closer' \in [Closers -> [at : {"channel", "connection"}, target : Handles]
                                      \union {NotClosing}]
  BY <1>0, <1>b, CloserEffect DEF ClosingAt
<1> USE <1>0 DEF TypeOK, Setup, Looping, Leaving
<1>1. CASE Subscribe
  BY <1>1 DEF Subscribe, fields, local, broker
<1>2. CASE ConnectReturns
  BY <1>2 DEF ConnectReturns, fields, local, broker
<1>3. CASE ChannelReturns
  BY <1>3 DEF ChannelReturns, fields, local, broker
<1>4. CASE QosReturns
  BY <1>4 DEF QosReturns, fields, local, broker
<1>5. CASE DeclareReturns
  BY <1>5 DEF DeclareReturns, fields, local, broker
<1>6. CASE ConsumeReturns
  BY <1>6 DEF ConsumeReturns, fields, local, broker
<1>7. CASE ConsumeFails
  BY <1>7, FinallyEffect DEF ConsumeFails, fields, local, broker
<1>8. CASE SetupFails
  BY <1>8 DEF SetupFails, fields, local, broker
<1>9. CASE HandlerReturns
  BY <1>9 DEF HandlerReturns, fields, local, broker
<1>10. CASE HandlerRaises
  BY <1>10 DEF HandlerRaises, fields, local, broker
<1>11. CASE AckEnds
  BY <1>11 DEF AckEnds, fields, local, broker
<1>12. CASE NackEnds
  BY <1>12 DEF NackEnds, fields, local, broker
<1>13. CASE IteratorEnds
  BY <1>13 DEF IteratorEnds, Leave, fields, local, broker
<1>14. CASE Cancel
  BY <1>14 DEF Cancel, Leave, fields, local, broker
<1>15. CASE IteratorCloses
  BY <1>15, FinallyEffect DEF IteratorCloses, fields, local, broker
<1>16. CASE ChannelCloses
  <2>1. CloseChannel(loop) /\ task' \in {"idle", "closing connection"}
        /\ running' \in BOOLEAN /\ connection' = connection
    BY <1>16 DEF ChannelCloses, ThenCloseConnection
  <2> QED
    BY <2>1, <1>16, <1>a DEF ChannelCloses
<1>17. CASE ConnectionCloses
  BY <1>17, <1>a DEF ConnectionCloses
<1>18. CASE Reconnect
  BY <1>18, <1>a DEF Reconnect, local
<1>19. CASE Crash
  BY <1>19 DEF Crash
<1>20. ASSUME NEW m \in Messages, Push(m) PROVE TypeOK'
  <2>1. PICK h \in Handles : holder' = [holder EXCEPT ![m] = h]
    BY <1>20 DEF Push
  <2>2. holder' \in [Messages -> Handles \union {0}]
    BY <2>1
  <2> QED BY <2>2, <1>20 DEF Push, fields, local
<1>21. ASSUME NEW m \in Messages, Take(m) PROVE TypeOK'
  BY <1>21 DEF Take, Leave, fields, local, broker
<1>22. ASSUME NEW c \in Closers, Close(c) PROVE TypeOK'
  BY <1>22, <1>b DEF Close, local, broker
<1>23. ASSUME NEW c \in Closers, CloserChannelCloses(c) PROVE TypeOK'
  <2>1. closer[c].target \in Handles \union {0}
    BY CloserTarget
  <2> QED BY <2>1, <1>23, <1>a, <1>b DEF CloserChannelCloses, local
<1>24. ASSUME NEW c \in Closers, CloserConnectionCloses(c) PROVE TypeOK'
  <2>1. closer[c].target \in Handles \union {0}
    BY CloserTarget
  <2> QED BY <2>1, <1>24, <1>a, <1>b DEF CloserConnectionCloses, local
<1>25. CASE UNCHANGED vars
  BY <1>25 DEF vars, fields, local, broker
<1> QED
  BY <1>1, <1>2, <1>3, <1>4, <1>5, <1>6, <1>7, <1>8, <1>9, <1>10, <1>11,
     <1>12, <1>13, <1>14, <1>15, <1>16, <1>17, <1>18, <1>19, <1>20, <1>21,
     <1>22, <1>23, <1>24, <1>25 DEF Next

(* Every step keeps the connections named only once they are there.        *)
LEMMA FreshStep == IInv /\ [Next]_vars => FreshInv'
<1> SUFFICES ASSUME IInv, [Next]_vars PROVE FreshInv'
  OBVIOUS
<1>0. FreshInv /\ (task # "idle" => loop \in Handles)
  BY DEF IInv, ChannelInv
<1>t. /\ conn \in [Handles -> {"new", "open", "consuming", "no channel", "closed"}]
      /\ holder \in [Messages -> Handles \union {0}]
  BY DEF IInv, TypeOK
<1>d. \A c \in Closers : closer[c].target \in Handles \union {0}
  BY CloserTarget DEF IInv
<1>s. {connection, channel, loop} \subseteq Handles \union {0}
  BY DEF IInv, TypeOK
<1>m. \A h \in Handles : h \in Nat /\ h # 0
  BY DEF Handles
<1>n. loop \in Nat
  BY <1>s, <1>m
<1>g. ~(loop > loop)
  BY <1>n
<1>a. \A h \in Handles \union {0} :
        CloseChannel(h) \/ CloseConnection(h) =>
          /\ \A k \in Handles : k # h => conn'[k] = conn[k]
          /\ h \in Handles => conn'[h] \in {"no channel", "closed"}
          /\ \A m \in Messages :
               holder'[m] = IF holder[m] = h THEN 0 ELSE holder[m]
  BY ClosesEffect DEF IInv
<1>p. \A h \in Handles \union {0} :
        CloseChannel(h) \/ CloseConnection(h) =>
          \A k \in Handles :
            \/ conn'[k] = conn[k]
            \/ k = h /\ conn'[k] \in {"no channel", "closed"}
  BY ClosesEffect DEF IInv
<1> USE <1>0, <1>s, <1>m, <1>n DEF FreshInv, Setup, Looping, Leaving
<1>k. ASSUME NEW h \in Handles \union {0},
             h # 0 => ~(h > loop) /\ ~(h = loop /\ task = "connecting"),
             CloseChannel(h) \/ CloseConnection(h),
             loop' = loop, task' = "connecting" => task = "connecting",
             connection' \in {0, connection}, channel' \in {0, channel},
             \A c \in Closers : closer'[c].target \in
               {0, channel, connection, closer[c].target}
      PROVE  FreshInv'
  <2>1. \A k \in Handles :
          conn'[k] = conn[k] \/ (k = h /\ conn'[k] \in {"no channel", "closed"})
    BY <1>p, <1>k, Zenon
  <2>2. \A k \in Handles : conn[k] # "new" => conn'[k] # "new"
    BY <2>1
  <2>3. \A k \in Handles : k > loop' \/ (k = loop' /\ task' = "connecting") =>
                             conn'[k] = "new"
    BY <2>1, <1>k
  <2>4. /\ connection' # 0 => conn'[connection'] # "new"
        /\ channel' # 0 => conn'[channel'] # "new"
    BY <2>2, <1>k
  <2>5. ASSUME NEW c \in Closers, closer'[c].target # 0
        PROVE  conn'[closer'[c].target] # "new"
    <3>1. closer[c].target \in Handles \union {0}
      BY <1>d
    <3>2. closer'[c].target \in {channel, connection, closer[c].target}
      BY <1>k, <2>5
    <3>3. closer'[c].target \in Handles /\ conn[closer'[c].target] # "new"
      BY <3>1, <3>2, <2>5
    <3> QED BY <3>3, <2>2
  <2> QED BY <2>3, <2>4, <2>5
<1>e. ASSUME NEW c \in Closers,
             Close(c) \/ CloserChannelCloses(c) \/ CloserConnectionCloses(c)
      PROVE  /\ \A d \in Closers : closer'[d].target \in
                  {0, channel, connection, closer[d].target}
             /\ closer[c].target \in Handles \union {0}
             /\ closer[c].target # 0 => conn[closer[c].target] # "new"
  BY <1>e, <1>d, CloserEffect DEF IInv
<1>1. CASE Subscribe
  BY <1>1 DEF Subscribe, fields, local, broker
<1>2. CASE ConnectReturns
  <2>1. loop \in Handles /\ conn' = [conn EXCEPT ![loop] = "open"]
    BY <1>2 DEF ConnectReturns
  <2>2. conn'[loop] = "open" /\ \A k \in Handles : k # loop => conn'[k] = conn[k]
    BY <2>1, <1>t
  <2>3. \A c \in Closers :
          closer[c].target # 0 => conn'[closer[c].target] # "new"
    BY <2>2, <1>d
  <2> QED BY <1>2, <2>1, <2>2, <2>3 DEF ConnectReturns
<1>3. CASE ChannelReturns
  BY <1>3 DEF ChannelReturns, fields, local, broker
<1>4. CASE QosReturns
  BY <1>4 DEF QosReturns, fields, local, broker
<1>5. CASE DeclareReturns
  BY <1>5 DEF DeclareReturns, fields, local, broker
<1>6. CASE ConsumeReturns
  <2>1. loop \in Handles /\ conn' = [conn EXCEPT ![loop] = "consuming"]
    BY <1>6 DEF ConsumeReturns
  <2>2. conn'[loop] = "consuming" /\ \A k \in Handles : k # loop => conn'[k] = conn[k]
    BY <2>1, <1>t
  <2>3. \A c \in Closers :
          closer[c].target # 0 => conn'[closer[c].target] # "new"
    BY <2>2, <1>d
  <2> QED BY <1>6, <2>1, <2>2, <2>3 DEF ConsumeReturns, fields
<1>7. CASE ConsumeFails
  BY <1>7, FinallyEffect DEF ConsumeFails
<1>8. CASE SetupFails
  BY <1>8 DEF SetupFails, fields, local, broker
<1>9. CASE HandlerReturns
  BY <1>9 DEF HandlerReturns, fields, local, broker
<1>10. CASE HandlerRaises
  BY <1>10 DEF HandlerRaises, fields, local, broker
<1>11. CASE AckEnds
  BY <1>11 DEF AckEnds, fields, local, broker
<1>12. CASE NackEnds
  BY <1>12 DEF NackEnds, fields, local, broker
<1>13. CASE IteratorEnds
  BY <1>13 DEF IteratorEnds, Leave, fields, local, broker
<1>14. CASE Cancel
  BY <1>14 DEF Cancel, Leave, fields, local, broker
<1>15. CASE IteratorCloses
  BY <1>15, FinallyEffect DEF IteratorCloses
<1>16. CASE ChannelCloses
  <2>1. /\ CloseChannel(loop) /\ connection' = connection /\ channel' = 0
        /\ task' \in {"idle", "closing connection"}
        /\ UNCHANGED <<loop, closer, crossed>>
    BY <1>16 DEF ChannelCloses, ThenCloseConnection
  <2>2. task = "closing channel" /\ loop \in Handles
    BY <1>16 DEF ChannelCloses
  <2>3. loop # 0 => ~(loop > loop) /\ ~(loop = loop /\ task = "connecting")
    BY <1>g, <2>2
  <2>4. \A c \in Closers : closer'[c].target = closer[c].target
    BY <2>1
  <2> QED BY <2>1, <2>2, <2>3, <2>4, <1>k, <1>s
<1>17. CASE ConnectionCloses
  <2>1. /\ CloseConnection(loop) /\ connection' = 0 /\ channel' = channel
        /\ task' = "idle"
        /\ UNCHANGED <<loop, closer, crossed>>
    BY <1>17 DEF ConnectionCloses
  <2>2. task = "closing connection" /\ loop \in Handles
    BY <1>17 DEF ConnectionCloses
  <2>3. loop # 0 => ~(loop > loop) /\ ~(loop = loop /\ task = "connecting")
    BY <1>g, <2>2
  <2>4. \A c \in Closers : closer'[c].target = closer[c].target
    BY <2>1
  <2> QED BY <2>1, <2>2, <2>3, <2>4, <1>k, <1>s
<1>18. CASE Reconnect
  BY <1>18 DEF Reconnect, Requeue, local
<1>19. CASE Crash
  BY <1>19 DEF Crash, NotClosing
<1>20. ASSUME NEW m \in Messages, Push(m) PROVE FreshInv'
  BY <1>20 DEF Push, fields, local, broker
<1>21. ASSUME NEW m \in Messages, Take(m) PROVE FreshInv'
  BY <1>21 DEF Take, Leave, fields, local, broker
<1>22. ASSUME NEW c \in Closers, Close(c) PROVE FreshInv'
  <2>1. /\ UNCHANGED <<connection, channel, loop, task, conn>>
        /\ \A d \in Closers : closer'[d].target \in
             {0, channel, connection, closer[d].target}
    BY <1>22, <1>e DEF Close, local
  <2>2. ASSUME NEW d \in Closers, closer'[d].target # 0
        PROVE  conn'[closer'[d].target] # "new"
    <3>1. closer'[d].target \in {channel, connection, closer[d].target}
      BY <2>1, <2>2
    <3> QED BY <3>1, <2>1, <2>2
  <2> QED BY <2>1, <2>2
<1>23. ASSUME NEW c \in Closers, CloserChannelCloses(c) PROVE FreshInv'
  <2>1. /\ CloseChannel(closer[c].target)
        /\ connection' \in {0, connection} /\ channel' \in {0, channel}
        /\ UNCHANGED <<loop, task>>
    BY <1>23 DEF CloserChannelCloses, local
  <2>2. closer[c].target \in Handles \union {0}
        /\ (closer[c].target # 0 => conn[closer[c].target] # "new")
    BY <1>23, <1>e
  <2>3. closer[c].target # 0 =>
          ~(closer[c].target > loop) /\ ~(closer[c].target = loop /\ task = "connecting")
    BY <2>2
  <2> QED BY <2>1, <2>2, <2>3, <1>e, <1>23, <1>k
<1>24. ASSUME NEW c \in Closers, CloserConnectionCloses(c) PROVE FreshInv'
  <2>1. /\ CloseConnection(closer[c].target)
        /\ connection' \in {0, connection} /\ channel' \in {0, channel}
        /\ UNCHANGED <<loop, task>>
    BY <1>24 DEF CloserConnectionCloses, local
  <2>2. closer[c].target \in Handles \union {0}
        /\ (closer[c].target # 0 => conn[closer[c].target] # "new")
    BY <1>24, <1>e
  <2>3. closer[c].target # 0 =>
          ~(closer[c].target > loop) /\ ~(closer[c].target = loop /\ task = "connecting")
    BY <2>2
  <2> QED BY <2>1, <2>2, <2>3, <1>e, <1>24, <1>k
<1>25. CASE UNCHANGED vars
  BY <1>25 DEF vars, fields, local, broker
<1> QED
  BY <1>1, <1>2, <1>3, <1>4, <1>5, <1>6, <1>7, <1>8, <1>9, <1>10, <1>11,
     <1>12, <1>13, <1>14, <1>15, <1>16, <1>17, <1>18, <1>19, <1>20, <1>21,
     <1>22, <1>23, <1>24, <1>25 DEF Next

(* Every step keeps the unacked messages on consuming channels: closing a  *)
(* channel or a connection releases what it held.                          *)
LEMMA HoldingStep == IInv /\ [Next]_vars => HoldingInv'
<1> SUFFICES ASSUME IInv, [Next]_vars PROVE HoldingInv'
  OBVIOUS
<1>0. FreshInv /\ HoldingInv /\ (task # "idle" => loop \in Handles)
  BY DEF IInv, ChannelInv
<1>t. /\ conn \in [Handles -> {"new", "open", "consuming", "no channel", "closed"}]
      /\ holder \in [Messages -> Handles \union {0}]
  BY DEF IInv, TypeOK
<1>d. \A c \in Closers : closer[c].target \in Handles \union {0}
  BY CloserTarget DEF IInv
<1>s. {connection, channel, loop} \subseteq Handles \union {0}
  BY DEF IInv, TypeOK
<1>m. \A h \in Handles : h \in Nat /\ h # 0
  BY DEF Handles
<1>n. loop \in Nat
  BY <1>s, <1>m
<1>a. \A h \in Handles \union {0} :
        CloseChannel(h) \/ CloseConnection(h) =>
          /\ \A k \in Handles : k # h => conn'[k] = conn[k]
          /\ h \in Handles => conn'[h] \in {"no channel", "closed"}
          /\ \A m \in Messages :
               holder'[m] = IF holder[m] = h THEN 0 ELSE holder[m]
  BY ClosesEffect DEF IInv
<1> USE <1>0, <1>s, <1>m, <1>n DEF FreshInv, HoldingInv
<1>k. ASSUME NEW h \in Handles \union {0},
             CloseChannel(h) \/ CloseConnection(h)
      PROVE  HoldingInv'
  <2> SUFFICES ASSUME NEW m \in Messages, holder'[m] # 0
               PROVE  conn'[holder'[m]] = "consuming"
    OBVIOUS
  <2>1. holder'[m] = holder[m] /\ holder[m] # h
    BY <1>a, <1>k
  <2>2. holder[m] \in Handles
    BY <1>t, <2>1
  <2>3. conn'[holder[m]] = conn[holder[m]]
    BY <2>1, <2>2, <1>a, <1>k
  <2> QED BY <2>1, <2>2, <2>3
<1>r. ASSUME UNCHANGED conn,
             \A m \in Messages : holder'[m] \in {0, holder[m]}
      PROVE  HoldingInv'
  BY <1>r
<1>1. CASE Subscribe
  BY <1>1 DEF Subscribe, fields, local, broker
<1>2. CASE ConnectReturns
  <2>1. loop \in Handles /\ conn' = [conn EXCEPT ![loop] = "open"]
        /\ holder' = holder /\ conn[loop] = "new"
    BY <1>2 DEF ConnectReturns, broker
  <2>2. \A k \in Handles : k # loop => conn'[k] = conn[k]
    BY <2>1, <1>t
  <2>3. \A m \in Messages : holder[m] # 0 => holder[m] \in Handles /\ holder[m] # loop
    BY <1>t, <2>1
  <2> QED BY <2>1, <2>2, <2>3
<1>3. CASE ChannelReturns
  BY <1>3 DEF ChannelReturns, fields, local, broker
<1>4. CASE QosReturns
  BY <1>4 DEF QosReturns, fields, local, broker
<1>5. CASE DeclareReturns
  BY <1>5 DEF DeclareReturns, fields, local, broker
<1>6. CASE ConsumeReturns
  <2>1. loop \in Handles /\ conn' = [conn EXCEPT ![loop] = "consuming"]
        /\ holder' = holder
    BY <1>6 DEF ConsumeReturns, broker
  <2>2. conn'[loop] = "consuming" /\ \A k \in Handles : k # loop => conn'[k] = conn[k]
    BY <2>1, <1>t
  <2> QED BY <1>t, <2>1, <2>2
<1>7. CASE ConsumeFails
  BY <1>7 DEF ConsumeFails, broker
<1>8. CASE SetupFails
  BY <1>8 DEF SetupFails, fields, local, broker
<1>9. CASE HandlerReturns
  BY <1>9 DEF HandlerReturns, fields, local, broker
<1>10. CASE HandlerRaises
  BY <1>10 DEF HandlerRaises, fields, local, broker
<1>11. CASE AckEnds
  <2>1. conn' = conn /\ (holder' = holder \/ holder' = [holder EXCEPT ![raw] = 0])
    BY <1>11 DEF AckEnds, broker
  <2>2. \A m \in Messages : holder'[m] \in {0, holder[m]}
    BY <1>t, <2>1
  <2> QED BY <1>r, <2>1, <2>2
<1>12. CASE NackEnds
  <2>1. conn' = conn /\ (holder' = holder \/ holder' = [holder EXCEPT ![raw] = 0])
    BY <1>12 DEF NackEnds, broker
  <2>2. \A m \in Messages : holder'[m] \in {0, holder[m]}
    BY <1>t, <2>1
  <2> QED BY <1>r, <2>1, <2>2
<1>13. CASE IteratorEnds
  BY <1>13 DEF IteratorEnds, Leave, fields, local, broker
<1>14. CASE Cancel
  BY <1>14 DEF Cancel, Leave, fields, local, broker
<1>15. CASE IteratorCloses
  <2>1. conn' = conn /\ \A m \in Messages : holder'[m] \in {0, holder[m]}
    BY <1>15 DEF IteratorCloses
  <2> QED BY <1>r, <2>1
<1>16. CASE ChannelCloses
  BY <1>16, <1>k DEF ChannelCloses
<1>17. CASE ConnectionCloses
  BY <1>17, <1>k DEF ConnectionCloses
<1>18. CASE Reconnect
  BY <1>18 DEF Reconnect, Requeue, local
<1>19. CASE Crash
  BY <1>19 DEF Crash, NotClosing
<1>20. ASSUME NEW m \in Messages, Push(m) PROVE HoldingInv'
  BY <1>20 DEF Push, fields, local, broker
<1>21. ASSUME NEW m \in Messages, Take(m) PROVE HoldingInv'
  BY <1>21 DEF Take, Leave, fields, local, broker
<1>22. ASSUME NEW c \in Closers, Close(c) PROVE HoldingInv'
  BY <1>22 DEF Close, CloserAtConnection, NotClosing, local, broker
<1>23. ASSUME NEW c \in Closers, CloserChannelCloses(c) PROVE HoldingInv'
  BY <1>23, <1>d, <1>k DEF CloserChannelCloses
<1>24. ASSUME NEW c \in Closers, CloserConnectionCloses(c) PROVE HoldingInv'
  BY <1>24, <1>d, <1>k DEF CloserConnectionCloses
<1>25. CASE UNCHANGED vars
  BY <1>25 DEF vars, fields, local, broker
<1> QED
  BY <1>1, <1>2, <1>3, <1>4, <1>5, <1>6, <1>7, <1>8, <1>9, <1>10, <1>11,
     <1>12, <1>13, <1>14, <1>15, <1>16, <1>17, <1>18, <1>19, <1>20, <1>21,
     <1>22, <1>23, <1>24, <1>25 DEF Next

(* Every step keeps consuming to the current session: the channel field is *)
(* cleared only with the channel closed, or a close() has crossed.         *)
LEMMA ChannelStep == IInv /\ [Next]_vars => ChannelInv'
<1> SUFFICES ASSUME IInv, [Next]_vars PROVE ChannelInv'
  OBVIOUS
<1>0. ChannelInv
  BY DEF IInv
<1>d. \A c \in Closers : closer[c].target \in Handles \union {0}
  BY CloserTarget DEF IInv
<1>s. {connection, channel, loop} \subseteq Handles \union {0}
  BY DEF IInv, TypeOK
<1>m. \A h \in Handles : h \in Nat /\ h # 0
  BY DEF Handles
<1>n. loop \in Nat
  BY <1>s, <1>m
<1>a. \A h \in Handles \union {0} :
        CloseChannel(h) \/ CloseConnection(h) =>
          /\ \A k \in Handles : k # h => conn'[k] = conn[k]
          /\ h \in Handles => conn'[h] \in {"no channel", "closed"}
          /\ \A m \in Messages :
               holder'[m] = IF holder[m] = h THEN 0 ELSE holder[m]
  BY ClosesEffect DEF IInv
<1>p. \A h \in Handles \union {0} :
        CloseChannel(h) \/ CloseConnection(h) =>
          \A k \in Handles :
            \/ conn'[k] = conn[k]
            \/ k = h /\ conn'[k] \in {"no channel", "closed"}
  BY ClosesEffect DEF IInv
<1> USE <1>0, <1>s, <1>m, <1>n DEF ChannelInv, Setup, Looping, Leaving
<1>1. CASE Subscribe
  BY <1>1 DEF Subscribe, fields, local, broker
<1>2. CASE ConnectReturns
  BY <1>2 DEF ConnectReturns, fields, local, broker
<1>3. CASE ChannelReturns
  BY <1>3 DEF ChannelReturns, fields, local, broker
<1>4. CASE QosReturns
  BY <1>4 DEF QosReturns, fields, local, broker
<1>5. CASE DeclareReturns
  BY <1>5 DEF DeclareReturns, fields, local, broker
<1>6. CASE ConsumeReturns
  BY <1>6 DEF ConsumeReturns, fields, local, broker
<1>7. CASE ConsumeFails
  BY <1>7 DEF ConsumeFails, ThenCloseChannel, ThenCloseConnection
<1>8. CASE SetupFails
  BY <1>8 DEF SetupFails, fields, local, broker
<1>9. CASE HandlerReturns
  BY <1>9 DEF HandlerReturns, fields, local, broker
<1>10. CASE HandlerRaises
  BY <1>10 DEF HandlerRaises, fields, local, broker
<1>11. CASE AckEnds
  BY <1>11 DEF AckEnds, fields, local, broker
<1>12. CASE NackEnds
  BY <1>12 DEF NackEnds, fields, local, broker
<1>13. CASE IteratorEnds
  BY <1>13 DEF IteratorEnds, Leave, fields, local, broker
<1>14. CASE Cancel
  BY <1>14 DEF Cancel, Leave, fields, local, broker
<1>15. CASE IteratorCloses
  BY <1>15 DEF IteratorCloses, ThenCloseChannel, ThenCloseConnection
<1>16. CASE ChannelCloses
  <2>1. /\ CloseChannel(loop) /\ channel' = 0
        /\ task' \in {"idle", "closing connection"}
        /\ UNCHANGED <<loop, crossed>>
    BY <1>16 DEF ChannelCloses, ThenCloseConnection
  <2>2. \A k \in Handles : conn'[k] = "consuming" => k # loop /\ conn[k] = "consuming"
    BY <2>1, <1>a
  <2>3. loop \in Handles
    BY <1>16 DEF ChannelCloses
  <2> QED BY <2>1, <2>2, <2>3
<1>17. CASE ConnectionCloses
  <2>1. CloseConnection(loop) /\ task' = "idle" /\ UNCHANGED <<loop, crossed>>
    BY <1>17 DEF ConnectionCloses
  <2>2. \A k \in Handles : conn'[k] = "consuming" => k # loop /\ conn[k] = "consuming"
    BY <2>1, <1>a
  <2> QED BY <2>1, <2>2
<1>18. CASE Reconnect
  BY <1>18 DEF Reconnect, Requeue, local
<1>19. CASE Crash
  BY <1>19 DEF Crash, NotClosing
<1>20. ASSUME NEW m \in Messages, Push(m) PROVE ChannelInv'
  BY <1>20 DEF Push, fields, local, broker
<1>21. ASSUME NEW m \in Messages, Take(m) PROVE ChannelInv'
  BY <1>21 DEF Take, Leave, fields, local, broker
<1>22. ASSUME NEW c \in Closers, Close(c) PROVE ChannelInv'
  BY <1>22 DEF Close, CloserAtConnection, NotClosing, local, broker
<1>23. ASSUME NEW c \in Closers, CloserChannelCloses(c) PROVE ChannelInv'
  <2> DEFINE h == closer[c].target
  <2>1. h \in Handles \union {0}
    BY <1>d
  <2>2. /\ CloseChannel(h) /\ UNCHANGED <<loop, task>>
        /\ ~crossed' => ~crossed /\ channel \in {0, h}
    BY <1>23 DEF CloserChannelCloses, local
  <2>3. \A k \in Handles :
          conn'[k] = conn[k] \/ (k = h /\ conn'[k] \in {"no channel", "closed"})
    BY <2>1, <2>2, <1>p, Zenon
  <2>4. h \in Handles => conn'[h] \in {"no channel", "closed"}
    BY <2>1, <2>2, <1>a
  <2> HIDE DEF h
  <2> QED BY <2>1, <2>2, <2>3, <2>4
<1>24. ASSUME NEW c \in Closers, CloserConnectionCloses(c) PROVE ChannelInv'
  <2> DEFINE h == closer[c].target
  <2>1. h \in Handles \union {0}
    BY <1>d
  <2>2. /\ CloseConnection(h) /\ UNCHANGED <<loop, task, channel>>
        /\ ~crossed' => ~crossed
    BY <1>24 DEF CloserConnectionCloses, local
  <2>3. \A k \in Handles :
          conn'[k] = conn[k] \/ (k = h /\ conn'[k] \in {"no channel", "closed"})
    BY <2>1, <2>2, <1>p, Zenon
  <2> HIDE DEF h
  <2> QED BY <2>1, <2>2, <2>3
<1>25. CASE UNCHANGED vars
  BY <1>25 DEF vars, fields, local, broker
<1> QED
  BY <1>1, <1>2, <1>3, <1>4, <1>5, <1>6, <1>7, <1>8, <1>9, <1>10, <1>11,
     <1>12, <1>13, <1>14, <1>15, <1>16, <1>17, <1>18, <1>19, <1>20, <1>21,
     <1>22, <1>23, <1>24, <1>25 DEF Next

(* Every step keeps the cursor on the message in the handler.              *)
LEMMA CursorStep == IInv /\ [Next]_vars => CursorInv'
<1> SUFFICES ASSUME IInv, [Next]_vars PROVE CursorInv'
  OBVIOUS
<1>0. TypeOK /\ CursorInv
  BY DEF IInv
<1> USE <1>0 DEF TypeOK, CursorInv, Looping, Setup
<1>1. CASE Subscribe
  BY <1>1 DEF Subscribe, fields, local, broker
<1>2. CASE ConnectReturns
  BY <1>2 DEF ConnectReturns, fields, local, broker
<1>3. CASE ChannelReturns
  BY <1>3 DEF ChannelReturns, fields, local, broker
<1>4. CASE QosReturns
  BY <1>4 DEF QosReturns, fields, local, broker
<1>5. CASE DeclareReturns
  BY <1>5 DEF DeclareReturns, fields, local, broker
<1>6. CASE ConsumeReturns
  BY <1>6 DEF ConsumeReturns, fields, local, broker
<1>7. CASE ConsumeFails
  <2>1. task' \in {"idle", "closing channel", "closing connection"}
        /\ UNCHANGED <<acked, handled>>
    BY <1>7, FinallyEffect DEF ConsumeFails, broker
  <2> QED BY <2>1
<1>8. CASE SetupFails
  BY <1>8 DEF SetupFails, fields, local, broker
<1>9. CASE HandlerReturns
  BY <1>9 DEF HandlerReturns, fields, local, broker
<1>10. CASE HandlerRaises
  BY <1>10 DEF HandlerRaises, fields, local, broker
<1>11. CASE AckEnds
  BY <1>11 DEF AckEnds, fields, local, broker
<1>12. CASE NackEnds
  BY <1>12 DEF NackEnds, fields, local, broker
<1>13. CASE IteratorEnds
  BY <1>13 DEF IteratorEnds, Leave, fields, local, broker
<1>14. CASE Cancel
  BY <1>14 DEF Cancel, Leave, fields, local, broker
<1>15. CASE IteratorCloses
  BY <1>15, FinallyEffect DEF IteratorCloses
<1>16. CASE ChannelCloses
  BY <1>16 DEF ChannelCloses, ThenCloseConnection
<1>17. CASE ConnectionCloses
  BY <1>17 DEF ConnectionCloses
<1>18. CASE Reconnect
  BY <1>18 DEF Reconnect, local
<1>19. CASE Crash
  BY <1>19 DEF Crash
<1>20. ASSUME NEW m \in Messages, Push(m) PROVE CursorInv'
  BY <1>20 DEF Push, fields, local, broker
<1>21. ASSUME NEW m \in Messages, Take(m) PROVE CursorInv'
  BY <1>21 DEF Take, Leave, fields, local, broker
<1>22. ASSUME NEW c \in Closers, Close(c) PROVE CursorInv'
  BY <1>22 DEF Close, local, broker
<1>23. ASSUME NEW c \in Closers, CloserChannelCloses(c) PROVE CursorInv'
  BY <1>23 DEF CloserChannelCloses, local
<1>24. ASSUME NEW c \in Closers, CloserConnectionCloses(c) PROVE CursorInv'
  BY <1>24 DEF CloserConnectionCloses, local
<1>25. CASE UNCHANGED vars
  BY <1>25 DEF vars, fields, local, broker
<1> QED
  BY <1>1, <1>2, <1>3, <1>4, <1>5, <1>6, <1>7, <1>8, <1>9, <1>10, <1>11,
     <1>12, <1>13, <1>14, <1>15, <1>16, <1>17, <1>18, <1>19, <1>20, <1>21,
     <1>22, <1>23, <1>24, <1>25 DEF Next

(* The invariant the other theorems rest on.                               *)
THEOREM Invariance == Spec => []IInv
<1>1. IInv /\ [Next]_vars => IInv'
  BY TypeStep, FreshStep, HoldingStep, ChannelStep, CursorStep DEF IInv
<1> QED BY InitIInv, <1>1, PTL DEF Spec

-----------------------------------------------------------------------------
(* The variables hold values of their types.                               *)
THEOREM TypeCorrect == Spec => []TypeOK
BY Invariance, PTL DEF IInv

(* When subscribe() is over, no message stays unacked with a consumer that *)
(* is gone, however many tasks call close() and wherever they interrupt it.*)
THEOREM NoMessageHeldBack == Spec => []NothingHeldBack
<1>1. IInv => NothingHeldBack
  <2> SUFFICES ASSUME IInv, task = "idle", ~crossed,
                      NEW m \in Messages, holder[m] # 0
               PROVE  FALSE
    BY DEF NothingHeldBack
  <2>1. holder[m] \in Handles /\ conn[holder[m]] = "consuming"
    BY DEF IInv, TypeOK, HoldingInv
  <2> QED BY <2>1 DEF IInv, ChannelInv, Looping
<1> QED BY <1>1, Invariance, PTL

(* The steps that acknowledge or handle a message; every other step is a   *)
(* stutter of the promise.                                                 *)
LEMMA QuietStep ==
  ASSUME [Next]_vars, ~AckEnds, ~HandlerReturns
  PROVE  UNCHANGED <<acked, handled>>
BY DEF Next, vars, fields, local, broker, Subscribe, ConnectReturns,
       ChannelReturns, QosReturns, DeclareReturns, ConsumeReturns, ConsumeFails,
       SetupFails, HandlerRaises, NackEnds, IteratorEnds, Cancel,
       IteratorCloses, ChannelCloses, ConnectionCloses, Reconnect, Crash, Push,
       Take, Close, CloserChannelCloses, CloserConnectionCloses

(* The consumer delivers at least once: the broker stops owing a message   *)
(* only after its handler has returned, and none is ever given up.         *)
THEOREM Refinement == Spec => ImplementsAtLeastOnce
<1>1. Init => Delivery!Init
  BY DEF Init, Delivery!Init
<1>2. IInv /\ [Next]_vars => [Delivery!Next]_(Delivery!vars)
  <2> SUFFICES ASSUME IInv, [Next]_vars
               PROVE  Delivery!Next \/ UNCHANGED Delivery!vars
    OBVIOUS
  <2> DEFINE Owed == Messages \ acked
  <2>0. TypeOK /\ CursorInv
    BY DEF IInv
  <2>1. CASE HandlerReturns
    <3>1. msg \in Messages
      BY <2>1, <2>0 DEF HandlerReturns, CursorInv
    <3>2. Delivery!Handle(msg)
      BY <2>1 DEF HandlerReturns, broker, Delivery!Handle
    <3> QED BY <3>1, <3>2 DEF Delivery!Next
  <2>2. CASE AckEnds
    <3>1. raw \in Messages /\ raw \in handled /\ handled' = handled
      BY <2>2, <2>0 DEF AckEnds, CursorInv
    <3>2. CASE UNCHANGED acked
      BY <3>1, <3>2 DEF Delivery!vars
    <3>3. CASE acked' = acked \union {raw}
      <4>1. Owed' = Owed \ {raw}
        BY <3>3
      <4>2. CASE raw \in acked
        BY <3>1, <3>3, <4>2 DEF Delivery!vars
      <4>3. CASE raw \notin acked
        <5>1. \E T \in SUBSET Owed : T \subseteq handled /\ Owed' = Owed \ T
          BY <3>1, <4>1, <4>3
        <5> QED BY <5>1, <3>1 DEF Delivery!Next, Delivery!Settle
      <4> QED BY <4>2, <4>3
    <3> QED BY <2>2, <3>2, <3>3 DEF AckEnds, broker
  <2>3. CASE UNCHANGED <<acked, handled>>
    BY <2>3 DEF Delivery!vars
  <2> QED BY <2>1, <2>2, <2>3, QuietStep
<1> QED BY <1>1, <1>2, Invariance, PTL DEF Spec, ImplementsAtLeastOnce, Delivery!Spec
=============================================================================
