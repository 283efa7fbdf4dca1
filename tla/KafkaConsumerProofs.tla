------------------------ MODULE KafkaConsumerProofs ------------------------
(***************************************************************************)
(* Proofs about KafkaConsumer, for every log, every set of bad messages,   *)
(* any number of sessions and of closers.                                  *)
(***************************************************************************)
EXTENDS KafkaConsumer, TLAPS

USE KafkaAssumption

(* Sessions use their handles in order, and the handle a session is        *)
(* starting cannot own the partition yet.                                  *)
HandleInv ==
  /\ task # "idle" => loop # 0
  /\ \A h \in Handles : h > loop => handle[h] = "new"
  /\ \A c \in Closers : closer[c] <= loop
  /\ owner # 0 => handle[owner] \in {"up", "closing"}
  /\ task = "starting" => owner # loop /\ handle[loop] # "up"

(* Everything below the position of the session's client is settled, but   *)
(* for the message in the handler, and the committed offset is never ahead *)
(* of the owner's position.                                                *)
PositionInv ==
  /\ owner # 0 => committed <= pos
  /\ task \in {"polling", "handling", "committing"} /\ owner = loop =>
       \A o \in 1 .. pos - 1 : o = msg \/ o \in handled \union failed
  /\ task = "handling" => msg \in Offsets
  /\ task = "committing" => msg \in handled
  /\ task \notin {"handling", "committing"} => msg = 0

(* The inductive invariant.                                                *)
IInv == TypeOK /\ HandleInv /\ PositionInv /\ CommittedIsSettled

-----------------------------------------------------------------------------
(* No session has begun and nothing is committed at first.                 *)
LEMMA InitIInv == Init => IInv
<1> SUFFICES ASSUME Init PROVE IInv
  OBVIOUS
<1> USE DEF Init, Offsets, Handles, Tasks, HandleStates, Outcomes
<1>1. TypeOK
  <2>1. pos \in 1 .. LogEnd + 1 /\ committed \in 1 .. LogEnd + 1
    OBVIOUS
  <2>2. handle \in [Handles -> HandleStates]
    OBVIOUS
  <2>3. closer \in [Closers -> Handles \union {0}]
    OBVIOUS
  <2> QED BY <2>1, <2>2, <2>3 DEF TypeOK
<1>2. HandleInv
  BY DEF HandleInv
<1>3. PositionInv /\ CommittedIsSettled
  BY DEF PositionInv, CommittedIsSettled
<1> QED BY <1>1, <1>2, <1>3 DEF IInv

(* Every step keeps the types; HandlerReturns needs that the message in    *)
(* the handler is one of the log.                                          *)
LEMMA TypeStep == IInv /\ [Next]_vars => TypeOK'
<1> SUFFICES ASSUME IInv, [Next]_vars PROVE TypeOK'
  OBVIOUS
<1>0. TypeOK /\ (task = "handling" => msg \in Offsets)
  BY DEF IInv, PositionInv
<1> USE <1>0 DEF TypeOK, Offsets, Handles, Tasks, HandleStates, Outcomes
<1>a. Fetch => pos' \in 1 .. LogEnd + 1
  BY DEF Fetch
<1>b. ASSUME NEW how \in Outcomes, Leave(how)
      PROVE /\ consumer' \in Handles \union {0} /\ running' \in BOOLEAN
            /\ task' \in Tasks /\ msg' = 0 /\ outcome' \in Outcomes
            /\ handle' \in [Handles -> HandleStates]
            /\ UNCHANGED <<loop, closer, owner>>
  BY <1>b DEF Leave, BeginStop
<1>1. CASE Subscribe BY <1>1 DEF Subscribe, history
<1>2. CASE StartReturns BY <1>2 DEF StartReturns, history
<1>3. CASE StartFails BY <1>3 DEF StartFails, history
<1>4. CASE FetchAfterClose
  BY <1>4, <1>a, <1>b DEF FetchAfterClose, history
<1>5. CASE FetchGood 
  <2>1. msg' \in Offsets BY <1>5 DEF FetchGood, Fetch
  <2> QED BY <2>1, <1>5, <1>a DEF FetchGood, history
<1>6. CASE FetchPoison
  <2>1. CASE bound
    <3>1. failed' \subseteq Offsets BY <2>1, <1>6 DEF FetchPoison, Fetch
    <3> QED BY <3>1, <2>1, <1>6, <1>a DEF FetchPoison, code
  <2>2. CASE ~bound
    BY <2>2, <1>6, <1>a, <1>b DEF FetchPoison
  <2> QED BY <2>1, <2>2
<1>7. CASE HandlerReturns BY <1>7 DEF HandlerReturns, broker
<1>8. CASE HandlerRaises BY <1>8 DEF HandlerRaises, broker
<1>9. CASE CommitEnds BY <1>9 DEF CommitEnds, CommitEffect, history
<1>10. CASE IteratorStops
  BY <1>10, <1>b DEF IteratorStops, history
<1>11. CASE IteratorRaises
  BY <1>11, <1>b DEF IteratorRaises, history
<1>12. CASE StopEnds BY <1>12 DEF StopEnds, EndStop, history
<1>13. CASE CancelInLoop
  BY <1>13, <1>b DEF CancelInLoop, CommitEffect, history
<1>14. CASE CancelOutsideLoop
  BY <1>14 DEF CancelOutsideLoop, broker, history
<1>15. CASE Crash BY <1>15 DEF Crash, CommitEffect, history
<1>16. ASSUME NEW c \in Closers, Close(c) PROVE TypeOK'
  <2>1. CASE Stoppable(consumer)
    <3>1. /\ closer' = [closer EXCEPT ![c] = consumer]
          /\ handle' = [handle EXCEPT ![consumer] = "closing"]
          /\ running' = FALSE
          /\ UNCHANGED <<consumer, task, loop, msg, bound, outcome, owner,
                         pos, committed, handled, failed>>
      BY <2>1, <1>16 DEF Close, BeginStop, history
    <3>2. /\ closer' \in [Closers -> Handles \union {0}]
          /\ handle' \in [Handles -> HandleStates]
      BY <3>1
    <3> QED
      <4>1. consumer' \in Handles \union {0} /\ running' \in BOOLEAN
        BY <3>1
      <4> QED BY <3>1, <3>2, <4>1
  <2>2. CASE ~Stoppable(consumer)
    BY <2>2, <1>16 DEF Close, history
  <2> QED BY <2>1, <2>2
<1>17. ASSUME NEW c \in Closers, CloseEnds(c) PROVE TypeOK'
  BY <1>17 DEF CloseEnds, EndStop, history
<1>18. ASSUME NEW h \in Handles, Rebalance(h) PROVE TypeOK'
  BY <1>18 DEF Rebalance, code, history
<1>19. CASE UNCHANGED vars BY <1>19 DEF vars, code, broker, history
<1> QED
  BY <1>1, <1>2, <1>3, <1>4, <1>5, <1>6, <1>7, <1>8, <1>9, <1>10, <1>11,
     <1>12, <1>13, <1>14, <1>15, <1>16, <1>17, <1>18, <1>19 DEF Next

(* Every step keeps the handles in order.                                  *)
LEMMA HandleStep == IInv /\ [Next]_vars => HandleInv'
<1> SUFFICES ASSUME IInv, [Next]_vars PROVE HandleInv'
  OBVIOUS
<1>0. TypeOK /\ HandleInv
  BY DEF IInv
<1> USE <1>0 DEF TypeOK, HandleInv, Handles, HandleStates
<1>a. ASSUME NEW how, Leave(how)
      PROVE /\ task' \in {"idle", "stopping"} /\ UNCHANGED <<loop, closer, owner>>
            /\ \A h \in Handles : h > loop => handle'[h] = "new"
            /\ owner # 0 => handle'[owner] \in {"up", "closing"}
  BY <1>a DEF Leave, BeginStop, Stoppable
<1>1. CASE Subscribe BY <1>1 DEF Subscribe
<1>2. CASE StartReturns
  <2>1. task' \in {"idle", "polling"} /\ UNCHANGED <<loop, closer, owner>>
    BY <1>2 DEF StartReturns
  <2>2. \A h \in Handles \ {loop} : handle'[h] = handle[h]
    BY <1>2 DEF StartReturns
  <2>3. loop \in Handles /\ owner # loop
    BY <1>2 DEF StartReturns
  <2> QED BY <2>1, <2>2, <2>3
<1>3. CASE StartFails BY <1>3 DEF StartFails
<1>4. CASE FetchAfterClose
  BY <1>4, <1>a DEF FetchAfterClose, Fetch
<1>5. CASE FetchGood BY <1>5 DEF FetchGood, Fetch
<1>6. CASE FetchPoison
  BY <1>6, <1>a DEF FetchPoison, Fetch, code
<1>7. CASE HandlerReturns BY <1>7 DEF HandlerReturns, broker
<1>8. CASE HandlerRaises BY <1>8 DEF HandlerRaises, broker
<1>9. CASE CommitEnds BY <1>9 DEF CommitEnds
<1>10. CASE IteratorStops BY <1>10, <1>a DEF IteratorStops
<1>11. CASE IteratorRaises BY <1>11, <1>a DEF IteratorRaises
<1>12. CASE StopEnds BY <1>12 DEF StopEnds, EndStop
<1>13. CASE CancelInLoop BY <1>13, <1>a DEF CancelInLoop
<1>14. CASE CancelOutsideLoop BY <1>14 DEF CancelOutsideLoop, broker
<1>15. CASE Crash BY <1>15 DEF Crash
<1>16. ASSUME NEW c \in Closers, Close(c) PROVE HandleInv'
  <2>1. \A h \in Handles : h > loop => handle'[h] = "new"
    BY <1>16 DEF Close, BeginStop, Stoppable
  <2>2. \A d \in Closers : closer'[d] <= loop
    BY <1>16 DEF Close, Stoppable
  <2> QED BY <2>1, <2>2, <1>16 DEF Close, BeginStop, Stoppable
<1>17. ASSUME NEW c \in Closers, CloseEnds(c) PROVE HandleInv'
  BY <1>17 DEF CloseEnds, EndStop
<1>18. ASSUME NEW h \in Handles, Rebalance(h) PROVE HandleInv'
  BY <1>18 DEF Rebalance, code
<1>19. CASE UNCHANGED vars BY <1>19 DEF vars, code, broker
<1> QED
  BY <1>1, <1>2, <1>3, <1>4, <1>5, <1>6, <1>7, <1>8, <1>9, <1>10, <1>11,
     <1>12, <1>13, <1>14, <1>15, <1>16, <1>17, <1>18, <1>19 DEF Next

(* Every step keeps the positions settled: a fetch moves the position past *)
(* one message, the one in the handler, and only its handler's return or   *)
(* failure starts the next fetch.                                          *)
LEMMA PositionStep == IInv /\ [Next]_vars => PositionInv'
<1> SUFFICES ASSUME IInv, [Next]_vars PROVE PositionInv'
  OBVIOUS
<1>0. TypeOK /\ HandleInv /\ PositionInv /\ CommittedIsSettled
  BY DEF IInv
<1> USE <1>0 DEF TypeOK, PositionInv, Offsets, Handles
<1>a. ASSUME NEW how, Leave(how)
      PROVE task' \in {"idle", "stopping"} /\ msg' = 0 /\ UNCHANGED owner
  BY <1>a DEF Leave
<1>b. CommitEffect => committed' = committed \/ (owner = loop /\ committed' = pos)
  BY DEF CommitEffect
<1>1. CASE Subscribe
  BY <1>1 DEF Subscribe, history
<1>2. CASE StartReturns
  <2>1. /\ task' \in {"idle", "polling"} /\ owner # loop /\ msg' = msg
        /\ UNCHANGED <<loop, owner, pos, committed, handled, failed>>
    BY <1>2 DEF StartReturns, history, HandleInv
  <2>2. msg = 0
    BY <1>2 DEF StartReturns
  <2> QED BY <2>1, <2>2
<1>3. CASE StartFails BY <1>3 DEF StartFails, history
<1>4. CASE FetchAfterClose
  BY <1>4, <1>a DEF FetchAfterClose, Fetch, history
<1>5. CASE FetchGood
  <2>1. /\ pos \in Nat /\ pos' = pos + 1 /\ msg' = pos
        /\ task' = "handling" /\ owner' = owner /\ owner = loop /\ loop' = loop
        /\ UNCHANGED <<committed, handled, failed>> /\ msg = 0
        /\ pos \in Offsets
    BY <1>5 DEF FetchGood, Fetch, history
  <2>2. \A o \in 1 .. pos' - 1 : o = msg' \/ o \in handled' \union failed'
    <3> TAKE o \in 1 .. pos' - 1
    <3>1. o = pos \/ o \in 1 .. pos - 1
      BY <2>1
    <3> QED BY <3>1, <2>1, <1>5 DEF FetchGood, Fetch
  <2> QED BY <2>1, <2>2
<1>6. CASE FetchPoison
  <2>1. CASE bound
    <3>1. /\ pos \in Nat /\ pos' = pos + 1 /\ msg' = msg /\ msg = 0
          /\ task = "polling" /\ task' = task /\ owner' = owner /\ loop' = loop
          /\ owner = loop /\ failed' = failed \union {pos}
          /\ UNCHANGED <<committed, handled>>
      BY <2>1, <1>6 DEF FetchPoison, Fetch, code
    <3>2. \A o \in 1 .. pos' - 1 : o = msg' \/ o \in handled' \union failed'
      <4> TAKE o \in 1 .. pos' - 1
      <4>1. o = pos \/ o \in 1 .. pos - 1
        BY <3>1
      <4> QED BY <4>1, <3>1
    <3> QED BY <3>1, <3>2
  <2>2. CASE ~bound
    BY <2>2, <1>6, <1>a DEF FetchPoison, Fetch
  <2> QED BY <2>1, <2>2
<1>7. CASE HandlerReturns
  BY <1>7 DEF HandlerReturns, broker
<1>8. CASE HandlerRaises
  BY <1>8 DEF HandlerRaises, broker
<1>9. CASE CommitEnds
  BY <1>9, <1>b DEF CommitEnds, history
<1>10. CASE IteratorStops BY <1>10, <1>a DEF IteratorStops, history
<1>11. CASE IteratorRaises BY <1>11, <1>a DEF IteratorRaises, history
<1>12. CASE StopEnds BY <1>12 DEF StopEnds, EndStop, history
<1>13. CASE CancelInLoop
  BY <1>13, <1>a, <1>b DEF CancelInLoop, history
<1>14. CASE CancelOutsideLoop
  BY <1>14 DEF CancelOutsideLoop, broker, history
<1>15. CASE Crash BY <1>15 DEF Crash, history
<1>16. ASSUME NEW c \in Closers, Close(c) PROVE PositionInv'
  BY <1>16 DEF Close, history
<1>17. ASSUME NEW c \in Closers, CloseEnds(c) PROVE PositionInv'
  BY <1>17 DEF CloseEnds, EndStop, history, HandleInv
<1>18. ASSUME NEW h \in Handles, Rebalance(h) PROVE PositionInv'
  BY <1>18 DEF Rebalance, code, history, CommittedIsSettled
<1>19. CASE UNCHANGED vars BY <1>19 DEF vars, code, broker, history
<1> QED
  BY <1>1, <1>2, <1>3, <1>4, <1>5, <1>6, <1>7, <1>8, <1>9, <1>10, <1>11,
     <1>12, <1>13, <1>14, <1>15, <1>16, <1>17, <1>18, <1>19 DEF Next

(* A step that moves the committed offset moves it to the position of the  *)
(* session's client, at the end of a commit() or under it.                 *)
LEMMA CommitStep ==
  IInv /\ [Next]_vars =>
    \/ UNCHANGED committed
    \/ /\ task = "committing"
       /\ owner = loop
       /\ committed' = pos
       /\ UNCHANGED <<handled, failed>>
<1> SUFFICES ASSUME IInv, [Next]_vars, committed' # committed
             PROVE task = "committing" /\ owner = loop /\ committed' = pos
                   /\ UNCHANGED <<handled, failed>>
  OBVIOUS
<1>1. (CommitEnds \/ CancelInLoop \/ Crash)
  BY DEF Next, vars, code, broker, Subscribe, StartReturns, StartFails,
         FetchAfterClose, FetchGood, FetchPoison, HandlerReturns,
         HandlerRaises, IteratorStops, IteratorRaises, StopEnds,
         CancelOutsideLoop, Close, CloseEnds, Rebalance
<1> QED
  BY <1>1 DEF CommitEnds, CancelInLoop, Crash, CommitEffect, history

(* No step forgets that an offset was handled or has failed.               *)
LEMMA HistoryGrows ==
  [Next]_vars => handled \subseteq handled' /\ failed \subseteq failed'
BY DEF Next, vars, code, broker, history, Subscribe, StartReturns, StartFails,
       FetchAfterClose, FetchGood, FetchPoison, HandlerReturns, HandlerRaises,
       CommitEnds, IteratorStops, IteratorRaises, StopEnds, CancelInLoop,
       CancelOutsideLoop, Crash, Close, CloseEnds, Rebalance

(* Every step keeps CommittedIsSettled.                                    *)
LEMMA SettledStep == IInv /\ [Next]_vars => CommittedIsSettled'
<1> SUFFICES ASSUME IInv, [Next]_vars PROVE CommittedIsSettled'
  OBVIOUS
<1>1. handled \subseteq handled' /\ failed \subseteq failed'
  BY HistoryGrows
<1>2. CASE UNCHANGED committed
  BY <1>1, <1>2 DEF IInv, CommittedIsSettled
<1>3. CASE task = "committing" /\ owner = loop /\ committed' = pos
  BY <1>1, <1>3 DEF IInv, PositionInv, CommittedIsSettled
<1> QED BY <1>2, <1>3, CommitStep

(* The invariant the other theorems rest on.                               *)
THEOREM Invariance == Spec => []IInv
<1>1. IInv /\ [Next]_vars => IInv'
  BY TypeStep, HandleStep, PositionStep, SettledStep DEF IInv
<1> QED BY InitIInv, <1>1, PTL DEF Spec

-----------------------------------------------------------------------------
(* The variables hold values of their types.                               *)
THEOREM TypeCorrect == Spec => []TypeOK
BY Invariance, PTL DEF IInv

(* No message is skipped: every offset the group has committed past was    *)
(* handled or reported to nack().                                          *)
THEOREM NoMessageSkipped == Spec => []CommittedIsSettled
BY Invariance, PTL DEF IInv

(* The committed offset never moves back.                                  *)
THEOREM CommitMonotone == Spec => CommitNeverRegresses
<1>1. IInv /\ [Next]_vars => [committed' >= committed]_vars
  <2> SUFFICES ASSUME IInv, [Next]_vars PROVE committed' >= committed
    OBVIOUS
  <2>1. committed \in Nat /\ pos \in Nat
    BY DEF IInv, TypeOK
  <2>2. task = "committing" /\ owner = loop => committed <= pos
    BY DEF IInv, HandleInv, PositionInv
  <2> QED BY <2>1, <2>2, CommitStep
<1> QED BY <1>1, Invariance, PTL DEF Spec, CommitNeverRegresses

(* The consumer implements the abstract delivery promise: the broker stops *)
(* owing an offset only after it was handled, or after an attempt failed   *)
(* on a bad payload or in a handler that may fail.                         *)
THEOREM Refinement == Spec => ImplementsAtLeastOnce
<1>1. Init => Delivery!Init
  BY DEF Init, Delivery!Init, Offsets
<1>2. IInv /\ [Next]_vars => [Delivery!Next]_(Delivery!vars)
  <2> SUFFICES ASSUME IInv, [Next]_vars
               PROVE  Delivery!Next \/ UNCHANGED Delivery!vars
    OBVIOUS
  <2> DEFINE Owed == {o \in Offsets : o >= committed}
  <2>0. TypeOK /\ PositionInv /\ CommittedIsSettled
    BY DEF IInv
  <2>1. CASE committed' # committed
    <3> DEFINE S == {o \in Offsets : o >= committed /\ o < pos}
    <3>1. committed' = pos /\ UNCHANGED <<handled, failed>>
      BY <2>1, CommitStep
    <3>2. CommittedIsSettled'
      BY SettledStep
    <3>3. S \subseteq handled \union failed
      BY <3>1, <3>2, <2>0 DEF CommittedIsSettled, TypeOK, Offsets
    <3>4. pos \in Nat /\ committed \in Nat /\ Offsets \subseteq Nat
      BY <2>0 DEF TypeOK, Offsets
    <3>5. committed <= pos
      BY <2>0, <2>1, CommitStep DEF PositionInv, IInv, HandleInv
    <3>6. Owed' = Owed \ S
      <4>1. Owed' = {o \in Offsets : o >= pos}
        BY <3>1
      <4>2. {o \in Offsets : o >= pos} = Owed \ S
        <5>1. \A o \in Offsets :
                 o >= pos <=> o >= committed /\ ~(o >= committed /\ o < pos)
          BY <3>4, <3>5
        <5> QED BY <5>1
      <4> QED BY <4>1, <4>2
    <3>7. S \in SUBSET Owed
      OBVIOUS
    <3> HIDE DEF S, Owed
    <3>8. \E T \in SUBSET Owed :
             T \subseteq handled \union failed /\ Owed' = Owed \ T
      BY <3>3, <3>6, <3>7
    <3> QED BY <3>1, <3>8 DEF Owed, Delivery!Next, Delivery!Settle
  <2>2. CASE committed' = committed
    <3>0. Owed' = Owed
      BY <2>2
    <3>1. CASE HandlerReturns
      <4>1. msg \in Offsets
        BY <3>1, <2>0 DEF HandlerReturns, PositionInv
      <4>2. Delivery!Handle(msg)
        BY <3>1, <3>0 DEF HandlerReturns, Delivery!Handle
      <4> QED BY <4>1, <4>2 DEF Delivery!Next
    <3>2. CASE HandlerRaises
      <4>1. msg \in Offsets /\ msg \in Poison \union MayFail
        BY <3>2 DEF HandlerRaises, Offsets
      <4>2. Delivery!Fail(msg)
        BY <3>2, <3>0, <4>1 DEF HandlerRaises, Delivery!Fail
      <4> QED BY <4>1, <4>2 DEF Delivery!Next
    <3>3. CASE FetchPoison /\ bound
      <4>1. pos \in Offsets /\ pos \in Poison \union MayFail
        BY <3>3 DEF FetchPoison, Fetch
      <4>2. Delivery!Fail(pos)
        BY <3>3, <3>0, <4>1 DEF FetchPoison, Delivery!Fail
      <4> QED BY <4>1, <4>2 DEF Delivery!Next
    <3>4. CASE ~(HandlerReturns \/ HandlerRaises \/ (FetchPoison /\ bound))
      <4>1. UNCHANGED <<handled, failed>>
        BY <3>4 DEF Next, vars, code, broker, history, Subscribe, StartReturns,
           StartFails, FetchAfterClose, FetchGood, FetchPoison, CommitEnds,
           IteratorStops, IteratorRaises, StopEnds, CancelInLoop,
           CancelOutsideLoop, Crash, Close, CloseEnds, Rebalance
      <4> QED BY <4>1, <3>0 DEF Delivery!vars
    <3> QED BY <3>1, <3>2, <3>3, <3>4
  <2> QED BY <2>1, <2>2
<1> QED BY <1>1, <1>2, Invariance, PTL DEF Spec, ImplementsAtLeastOnce, Delivery!Spec
=============================================================================
