----------------------- MODULE ConnectionCacheProofs -----------------------
(***************************************************************************)
(* Theorems about ConnectionCache for every set of adapters, whichever way *)
(* each of them creates and evicts its pool, any number of tasks and of    *)
(* pools.                                                                  *)
(*                                                                         *)
(* No property is inductive alone.  OneOwner says who refers to a pool in  *)
(* which state; Races says which pools the calls in flight have put at     *)
(* risk; the three safety properties follow from the two step by step.     *)
(***************************************************************************)
EXTENDS ConnectionCache, TLAPS

(* A pool that does not exist is referred to by nobody, one in creation    *)
(* only by its creator, and one being closed is closing or closed.         *)
OneOwner ==
  /\ \A p \in Pools : pool[p] = "absent" =>
       cache # p /\ \A t \in Tasks : held[t] # p
  /\ \A t \in Tasks : at[t] = "idle" <=> held[t] = 0
  /\ \A t \in Tasks : at[t] = "creating" =>
       /\ Suspends
       /\ pool[held[t]] = "opening"
       /\ cache # held[t]
       /\ \A u \in Tasks \ {t} : held[u] # held[t]
  /\ \A t \in Tasks : at[t] = "closing" =>
       pool[held[t]] \in {"closing", "closed"}
  /\ cache # 0 => pool[cache] \in {"open", "closing", "closed"}

(* Two creations in flight contend, as do a creation in flight and a pool  *)
(* stored meanwhile; and, when close() closes first, a creation in flight  *)
(* and a close(), and that close() and a newer pool in the cache.          *)
Races ==
  /\ \A t, u \in Tasks :
       at[t] = "creating" /\ at[u] = "creating" /\ t # u => held[t] \in contended
  /\ \A t \in Tasks :
       at[t] = "creating" /\ cache # 0 => {held[t], cache} \subseteq contended
  /\ ClosesFirst => \A t, u \in Tasks :
       at[t] = "creating" /\ at[u] = "closing" => held[t] \in contended
  /\ ClosesFirst => \A t \in Tasks :
       at[t] = "closing" /\ cache \notin {0, held[t]} => cache \in contended

(* The inductive invariant; the properties are part of it.                 *)
IInv ==
  /\ TypeOK /\ OneOwner /\ Races
  /\ NeverServesDeadPool /\ ClosedByOne /\ OpenPoolIsCached

USE CacheAssumption

(* Nothing is held and nothing cached at first.                            *)
LEMMA InitIInv == Init => IInv
  BY DEF Init, IInv, TypeOK, PoolStates, Pools, OneOwner, Races, HeldBy, Working,
         NeverServesDeadPool, ClosedByOne, OpenPoolIsCached

(* A task that is not idle works on a pool, and the rivals of a new pool   *)
(* are pools.                                                              *)
LEMMA WorksOnPool ==
  ASSUME TypeOK, OneOwner
  PROVE  /\ \A t \in Tasks : at[t] # "idle" => held[t] \in Pools
         /\ HeldBy("creating") \subseteq Pools
         /\ \A p \in Pools : Rivals(p) \subseteq Pools
  <1>1. \A t \in Tasks : at[t] # "idle" => held[t] \in Pools
    BY DEF TypeOK, OneOwner
  <1>2. HeldBy("creating") \subseteq Pools
    BY <1>1 DEF HeldBy, Working
  <1> QED
    BY <1>1, <1>2 DEF Rivals

(* Every step keeps the types.                                             *)
LEMMA TypeStep ==
  ASSUME TypeOK, OneOwner, NEW t \in Tasks, Step(t) \/ UNCHANGED vars
  PROVE  TypeOK'
  <1>0. /\ at[t] # "idle" => held[t] \in Pools
        /\ HeldBy("creating") \subseteq Pools
        /\ \A p \in Pools : Rivals(p) \subseteq Pools
    BY WorksOnPool
  <1>1. CASE Hit(t)
    BY <1>1, <1>0 DEF Hit, TypeOK, PoolStates, Suspend, Resume, SetPool
  <1>2. CASE Created(t)
    BY <1>2, <1>0 DEF Created, TypeOK, PoolStates, Suspend, Resume, SetPool
  <1>3. CASE CreateUndone(t)
    BY <1>3, <1>0 DEF CreateUndone, TypeOK, PoolStates, Suspend, Resume,
         SetPool
  <1>4. CASE CreateAbandoned(t)
    BY <1>4, <1>0 DEF CreateAbandoned, TypeOK, PoolStates, Suspend, Resume,
         SetPool
  <1>5. CASE \E p \in Pools : Miss(t, p)
    <2>1. PICK p \in Pools : Miss(t, p)
      BY <1>5
    <2> QED
      BY <2>1, <1>0 DEF Miss, TypeOK, PoolStates, Suspend, Resume, SetPool
  <1>6. CASE \E p \in Pools : CreateInline(t, p)
    <2>1. PICK p \in Pools : CreateInline(t, p)
      BY <1>6
    <2> QED
      BY <2>1, <1>0 DEF CreateInline, TypeOK, PoolStates, Suspend, Resume,
         SetPool
  <1>7. CASE UseEnds(t)
    BY <1>7, <1>0 DEF UseEnds, TypeOK, PoolStates, Suspend, Resume, SetPool
  <1>8. CASE CloseThenEvict(t)
    BY <1>8, <1>0 DEF CloseThenEvict, TypeOK, PoolStates, Suspend, Resume,
         SetPool, BeginClosing
  <1>9. CASE EvictThenClose(t)
    BY <1>9, <1>0 DEF EvictThenClose, TypeOK, PoolStates, Suspend, Resume,
         SetPool, BeginClosing
  <1>10. CASE CloseInline(t)
    BY <1>10, <1>0 DEF CloseInline, TypeOK, PoolStates, Suspend, Resume,
         SetPool
  <1>11. CASE Closed(t)
    BY <1>11, <1>0 DEF Closed, TypeOK, PoolStates, Suspend, Resume, SetPool
  <1>12. CASE CloseRaises(t)
    BY <1>12, <1>0 DEF CloseRaises, TypeOK, PoolStates, Suspend, Resume,
         SetPool
  <1>13. CASE UNCHANGED vars
    BY <1>13 DEF vars, TypeOK, PoolStates, Suspend, Resume, SetPool
  <1> QED
    BY <1>1, <1>2, <1>3, <1>4, <1>5, <1>6, <1>7, <1>8, <1>9, <1>10, <1>11,
         <1>12, <1>13 DEF Step

(* Every step keeps the owners of pools.                                   *)
LEMMA OwnerStep ==
  ASSUME TypeOK, OneOwner, ClosedByOne, NEW t \in Tasks,
         Step(t) \/ UNCHANGED vars
  PROVE  OneOwner'
  <1>0. at[t] # "idle" => held[t] \in Pools
    BY WorksOnPool
  <1>1. CASE Hit(t)
    BY <1>1, <1>0 DEF Hit, TypeOK, OneOwner, Suspends, Pools, PoolStates,
         Suspend, Resume, SetPool
  <1>2. CASE Created(t)
    BY <1>2, <1>0 DEF Created, TypeOK, OneOwner, Suspends, Pools, PoolStates,
         Suspend, Resume, SetPool
  <1>3. CASE CreateUndone(t)
    BY <1>3, <1>0 DEF CreateUndone, TypeOK, OneOwner, Suspends, Pools,
         PoolStates, Suspend, Resume, SetPool
  <1>4. CASE CreateAbandoned(t)
    BY <1>4, <1>0 DEF CreateAbandoned, TypeOK, OneOwner, Suspends, Pools,
         PoolStates, Suspend, Resume, SetPool
  <1>5. CASE \E p \in Pools : Miss(t, p)
    <2>1. PICK p \in Pools : Miss(t, p)
      BY <1>5
    <2> QED
      BY <2>1, <1>0 DEF Miss, TypeOK, OneOwner, Suspends, Pools, PoolStates,
         Suspend, Resume, SetPool, Fresh
  <1>6. CASE \E p \in Pools : CreateInline(t, p)
    <2>1. PICK p \in Pools : CreateInline(t, p)
      BY <1>6
    <2> QED
      BY <2>1, <1>0 DEF CreateInline, TypeOK, OneOwner, Suspends, Pools,
         PoolStates, Suspend, Resume, SetPool, Fresh
  <1>7. CASE UseEnds(t)
    BY <1>7, <1>0 DEF UseEnds, TypeOK, OneOwner, Suspends, Pools, PoolStates,
         Suspend, Resume, SetPool
  <1>8. CASE CloseThenEvict(t)
    BY <1>8, <1>0 DEF CloseThenEvict, TypeOK, OneOwner, Suspends, Pools,
         PoolStates, Suspend, Resume, SetPool, BeginClosing, ClosesFirst
  <1>9. CASE EvictThenClose(t)
    BY <1>9, <1>0 DEF EvictThenClose, TypeOK, OneOwner, Suspends, Pools,
         PoolStates, Suspend, Resume, SetPool, BeginClosing, ClosesFirst
  <1>10. CASE CloseInline(t)
    BY <1>10, <1>0 DEF CloseInline, TypeOK, OneOwner, Suspends, Pools,
         PoolStates, Suspend, Resume, SetPool
  <1>11. CASE Closed(t)
    BY <1>11, <1>0 DEF Closed, TypeOK, OneOwner, Suspends, Pools, PoolStates,
         Suspend, Resume, SetPool
  <1>12. CASE CloseRaises(t)
    BY <1>12, <1>0 DEF CloseRaises, TypeOK, OneOwner, Suspends, Pools,
         PoolStates, Suspend, Resume, SetPool
  <1>13. CASE UNCHANGED vars
    BY <1>13 DEF vars, TypeOK, OneOwner, Suspends, Pools, PoolStates,
         Suspend, Resume, SetPool
  <1> QED
    BY <1>1, <1>2, <1>3, <1>4, <1>5, <1>6, <1>7, <1>8, <1>9, <1>10, <1>11,
         <1>12, <1>13 DEF Step

(* Every step keeps what is known of overlapping creations and closes.     *)
LEMMA RacesStep ==
  ASSUME TypeOK, OneOwner, Races, NEW t \in Tasks, Step(t) \/ UNCHANGED vars
  PROVE  Races'
  <1>0. at[t] # "idle" => held[t] \in Pools
    BY WorksOnPool
  <1>1. CASE Hit(t)
    BY <1>1, <1>0 DEF Hit, TypeOK, OneOwner, Races, ClosesFirst, Suspends,
         Suspend, Resume, SetPool
  <1>2. CASE Created(t)
    BY <1>2, <1>0 DEF Created, TypeOK, OneOwner, Races, ClosesFirst,
         Suspends, Suspend, Resume, SetPool
  <1>3. CASE CreateUndone(t)
    BY <1>3, <1>0 DEF CreateUndone, TypeOK, OneOwner, Races, ClosesFirst,
         Suspends, Suspend, Resume, SetPool
  <1>4. CASE CreateAbandoned(t)
    BY <1>4, <1>0 DEF CreateAbandoned, TypeOK, OneOwner, Races, ClosesFirst,
         Suspends, Suspend, Resume, SetPool
  <1>5. CASE \E p \in Pools : Miss(t, p)
    <2>1. PICK p \in Pools : Miss(t, p)
      BY <1>5
    <2> QED
      BY <2>1, <1>0 DEF Miss, TypeOK, OneOwner, Races, ClosesFirst, Suspends,
         Suspend, Resume, SetPool, Rivals, HeldBy, Working
  <1>6. CASE \E p \in Pools : CreateInline(t, p)
    <2>1. PICK p \in Pools : CreateInline(t, p)
      BY <1>6
    <2> QED
      BY <2>1, <1>0 DEF CreateInline, TypeOK, OneOwner, Races, ClosesFirst,
         Suspends, Suspend, Resume, SetPool, Rivals, HeldBy, Working
  <1>7. CASE UseEnds(t)
    BY <1>7, <1>0 DEF UseEnds, TypeOK, OneOwner, Races, ClosesFirst,
         Suspends, Suspend, Resume, SetPool
  <1>8. CASE CloseThenEvict(t)
    BY <1>8, <1>0 DEF CloseThenEvict, TypeOK, OneOwner, Races, ClosesFirst,
         Suspends, Suspend, Resume, SetPool, BeginClosing, HeldBy, Working
  <1>9. CASE EvictThenClose(t)
    BY <1>9, <1>0 DEF EvictThenClose, TypeOK, OneOwner, Races, ClosesFirst,
         Suspends, Suspend, Resume, SetPool, BeginClosing
  <1>10. CASE CloseInline(t)
    BY <1>10, <1>0 DEF CloseInline, TypeOK, OneOwner, Races, ClosesFirst,
         Suspends, Suspend, Resume, SetPool
  <1>11. CASE Closed(t)
    BY <1>11, <1>0 DEF Closed, TypeOK, OneOwner, Races, ClosesFirst,
         Suspends, Suspend, Resume, SetPool
  <1>12. CASE CloseRaises(t)
    BY <1>12, <1>0 DEF CloseRaises, TypeOK, OneOwner, Races, ClosesFirst,
         Suspends, Suspend, Resume, SetPool
  <1>13. CASE UNCHANGED vars
    BY <1>13 DEF vars, TypeOK, OneOwner, Races, ClosesFirst, Suspends,
         Suspend, Resume, SetPool
  <1> QED
    BY <1>1, <1>2, <1>3, <1>4, <1>5, <1>6, <1>7, <1>8, <1>9, <1>10, <1>11,
         <1>12, <1>13 DEF Step

(* Every step keeps NeverServesDeadPool.                                   *)
LEMMA ServesStep ==
  ASSUME TypeOK, OneOwner, NeverServesDeadPool, ClosedByOne, NEW t \in Tasks,
         Step(t) \/ UNCHANGED vars
  PROVE  NeverServesDeadPool'
  <1>0. at[t] # "idle" => held[t] \in Pools
    BY WorksOnPool
  <1>1. CASE Hit(t)
    BY <1>1, <1>0 DEF Hit, TypeOK, OneOwner, NeverServesDeadPool,
         ClosedByOne, ClosesFirst, HeldBy, Working, Suspend, Resume, SetPool
  <1>2. CASE Created(t)
    BY <1>2, <1>0 DEF Created, TypeOK, OneOwner, NeverServesDeadPool,
         ClosedByOne, ClosesFirst, HeldBy, Working, Suspend, Resume, SetPool
  <1>3. CASE CreateUndone(t)
    BY <1>3, <1>0 DEF CreateUndone, TypeOK, OneOwner, NeverServesDeadPool,
         ClosedByOne, ClosesFirst, HeldBy, Working, Suspend, Resume, SetPool
  <1>4. CASE CreateAbandoned(t)
    BY <1>4, <1>0 DEF CreateAbandoned, TypeOK, OneOwner, NeverServesDeadPool,
         ClosedByOne, ClosesFirst, HeldBy, Working, Suspend, Resume, SetPool
  <1>5. CASE \E p \in Pools : Miss(t, p)
    <2>1. PICK p \in Pools : Miss(t, p)
      BY <1>5
    <2> QED
      BY <2>1, <1>0 DEF Miss, TypeOK, OneOwner, NeverServesDeadPool,
         ClosedByOne, ClosesFirst, HeldBy, Working, Suspend, Resume, SetPool
  <1>6. CASE \E p \in Pools : CreateInline(t, p)
    <2>1. PICK p \in Pools : CreateInline(t, p)
      BY <1>6
    <2> QED
      BY <2>1, <1>0 DEF CreateInline, TypeOK, OneOwner, NeverServesDeadPool,
         ClosedByOne, ClosesFirst, HeldBy, Working, Suspend, Resume, SetPool
  <1>7. CASE UseEnds(t)
    BY <1>7, <1>0 DEF UseEnds, TypeOK, OneOwner, NeverServesDeadPool,
         ClosedByOne, ClosesFirst, HeldBy, Working, Suspend, Resume, SetPool
  <1>8. CASE CloseThenEvict(t)
    BY <1>8, <1>0 DEF CloseThenEvict, TypeOK, OneOwner, NeverServesDeadPool,
         ClosedByOne, ClosesFirst, HeldBy, Working, Suspend, Resume, SetPool,
         BeginClosing
  <1>9. CASE EvictThenClose(t)
    BY <1>9, <1>0 DEF EvictThenClose, TypeOK, OneOwner, NeverServesDeadPool,
         ClosedByOne, ClosesFirst, HeldBy, Working, Suspend, Resume, SetPool,
         BeginClosing
  <1>10. CASE CloseInline(t)
    BY <1>10, <1>0 DEF CloseInline, TypeOK, OneOwner, NeverServesDeadPool,
         ClosedByOne, ClosesFirst, HeldBy, Working, Suspend, Resume, SetPool
  <1>11. CASE Closed(t)
    BY <1>11, <1>0 DEF Closed, TypeOK, OneOwner, NeverServesDeadPool,
         ClosedByOne, ClosesFirst, HeldBy, Working, Suspend, Resume, SetPool
  <1>12. CASE CloseRaises(t)
    BY <1>12, <1>0 DEF CloseRaises, TypeOK, OneOwner, NeverServesDeadPool,
         ClosedByOne, ClosesFirst, HeldBy, Working, Suspend, Resume, SetPool
  <1>13. CASE UNCHANGED vars
    BY <1>13 DEF vars, TypeOK, OneOwner, NeverServesDeadPool, ClosedByOne,
         ClosesFirst, HeldBy, Working, Suspend, Resume, SetPool
  <1> QED
    BY <1>1, <1>2, <1>3, <1>4, <1>5, <1>6, <1>7, <1>8, <1>9, <1>10, <1>11,
         <1>12, <1>13 DEF Step

(* Every step keeps ClosedByOne.                                           *)
LEMMA ClosedByOneStep ==
  ASSUME TypeOK, OneOwner, ClosedByOne, NEW t \in Tasks,
         Step(t) \/ UNCHANGED vars
  PROVE  ClosedByOne'
  <1>0. at[t] # "idle" => held[t] \in Pools
    BY WorksOnPool
  <1>1. CASE Hit(t)
    BY <1>1, <1>0 DEF Hit, TypeOK, OneOwner, ClosedByOne, ClosesFirst,
         HeldBy, Working, Suspend, Resume, SetPool
  <1>2. CASE Created(t)
    BY <1>2, <1>0 DEF Created, TypeOK, OneOwner, ClosedByOne, ClosesFirst,
         HeldBy, Working, Suspend, Resume, SetPool
  <1>3. CASE CreateUndone(t)
    BY <1>3, <1>0 DEF CreateUndone, TypeOK, OneOwner, ClosedByOne,
         ClosesFirst, HeldBy, Working, Suspend, Resume, SetPool
  <1>4. CASE CreateAbandoned(t)
    BY <1>4, <1>0 DEF CreateAbandoned, TypeOK, OneOwner, ClosedByOne,
         ClosesFirst, HeldBy, Working, Suspend, Resume, SetPool
  <1>5. CASE \E p \in Pools : Miss(t, p)
    <2>1. PICK p \in Pools : Miss(t, p)
      BY <1>5
    <2> QED
      BY <2>1, <1>0 DEF Miss, TypeOK, OneOwner, ClosedByOne, ClosesFirst,
         HeldBy, Working, Suspend, Resume, SetPool
  <1>6. CASE \E p \in Pools : CreateInline(t, p)
    <2>1. PICK p \in Pools : CreateInline(t, p)
      BY <1>6
    <2> QED
      BY <2>1, <1>0 DEF CreateInline, TypeOK, OneOwner, ClosedByOne,
         ClosesFirst, HeldBy, Working, Suspend, Resume, SetPool, Fresh
  <1>7. CASE UseEnds(t)
    BY <1>7, <1>0 DEF UseEnds, TypeOK, OneOwner, ClosedByOne, ClosesFirst,
         HeldBy, Working, Suspend, Resume, SetPool
  <1>8. CASE CloseThenEvict(t)
    BY <1>8, <1>0 DEF CloseThenEvict, TypeOK, OneOwner, ClosedByOne,
         ClosesFirst, HeldBy, Working, Suspend, Resume, SetPool, BeginClosing
  <1>9. CASE EvictThenClose(t)
    BY <1>9, <1>0 DEF EvictThenClose, TypeOK, OneOwner, ClosedByOne,
         ClosesFirst, HeldBy, Working, Suspend, Resume, SetPool, BeginClosing
  <1>10. CASE CloseInline(t)
    BY <1>10, <1>0 DEF CloseInline, TypeOK, OneOwner, ClosedByOne,
         ClosesFirst, HeldBy, Working, Suspend, Resume, SetPool
  <1>11. CASE Closed(t)
    BY <1>11, <1>0 DEF Closed, TypeOK, OneOwner, ClosedByOne, ClosesFirst,
         HeldBy, Working, Suspend, Resume, SetPool
  <1>12. CASE CloseRaises(t)
    BY <1>12, <1>0 DEF CloseRaises, TypeOK, OneOwner, ClosedByOne,
         ClosesFirst, HeldBy, Working, Suspend, Resume, SetPool
  <1>13. CASE UNCHANGED vars
    BY <1>13 DEF vars, TypeOK, OneOwner, ClosedByOne, ClosesFirst, HeldBy,
         Working, Suspend, Resume, SetPool
  <1> QED
    BY <1>1, <1>2, <1>3, <1>4, <1>5, <1>6, <1>7, <1>8, <1>9, <1>10, <1>11,
         <1>12, <1>13 DEF Step

(* Every step keeps OpenPoolIsCached.                                      *)
LEMMA CachedStep ==
  ASSUME TypeOK, OneOwner, Races, OpenPoolIsCached, NEW t \in Tasks,
         Step(t) \/ UNCHANGED vars
  PROVE  OpenPoolIsCached'
  <1>0. at[t] # "idle" => held[t] \in Pools
    BY WorksOnPool
  <1>1. CASE Hit(t)
    BY <1>1, <1>0 DEF Hit, TypeOK, OneOwner, Races, OpenPoolIsCached,
         ClosesFirst, Pools, HeldBy, Working, Suspend, Resume, SetPool
  <1>2. CASE Created(t)
    BY <1>2, <1>0 DEF Created, TypeOK, OneOwner, Races, OpenPoolIsCached,
         ClosesFirst, Pools, HeldBy, Working, Suspend, Resume, SetPool
  <1>3. CASE CreateUndone(t)
    BY <1>3, <1>0 DEF CreateUndone, TypeOK, OneOwner, Races,
         OpenPoolIsCached, ClosesFirst, Pools, HeldBy, Working, Suspend,
         Resume, SetPool
  <1>4. CASE CreateAbandoned(t)
    BY <1>4, <1>0 DEF CreateAbandoned, TypeOK, OneOwner, Races,
         OpenPoolIsCached, ClosesFirst, Pools, HeldBy, Working, Suspend,
         Resume, SetPool
  <1>5. CASE \E p \in Pools : Miss(t, p)
    <2>1. PICK p \in Pools : Miss(t, p)
      BY <1>5
    <2> QED
      BY <2>1, <1>0 DEF Miss, TypeOK, OneOwner, Races, OpenPoolIsCached,
         ClosesFirst, Pools, HeldBy, Working, Suspend, Resume, SetPool
  <1>6. CASE \E p \in Pools : CreateInline(t, p)
    <2>1. PICK p \in Pools : CreateInline(t, p)
      BY <1>6
    <2> QED
      BY <2>1, <1>0 DEF CreateInline, TypeOK, OneOwner, Races,
         OpenPoolIsCached, ClosesFirst, Pools, HeldBy, Working, Suspend,
         Resume, SetPool
  <1>7. CASE UseEnds(t)
    BY <1>7, <1>0 DEF UseEnds, TypeOK, OneOwner, Races, OpenPoolIsCached,
         ClosesFirst, Pools, HeldBy, Working, Suspend, Resume, SetPool
  <1>8. CASE CloseThenEvict(t)
    BY <1>8, <1>0 DEF CloseThenEvict, TypeOK, OneOwner, Races,
         OpenPoolIsCached, ClosesFirst, Pools, HeldBy, Working, Suspend,
         Resume, SetPool, BeginClosing
  <1>9. CASE EvictThenClose(t)
    BY <1>9, <1>0 DEF EvictThenClose, TypeOK, OneOwner, Races,
         OpenPoolIsCached, ClosesFirst, Pools, HeldBy, Working, Suspend,
         Resume, SetPool, BeginClosing
  <1>10. CASE CloseInline(t)
    BY <1>10, <1>0 DEF CloseInline, TypeOK, OneOwner, Races,
         OpenPoolIsCached, ClosesFirst, Pools, HeldBy, Working, Suspend,
         Resume, SetPool
  <1>11. CASE Closed(t)
    BY <1>11, <1>0 DEF Closed, TypeOK, OneOwner, Races, OpenPoolIsCached,
         ClosesFirst, Pools, HeldBy, Working, Suspend, Resume, SetPool
  <1>12. CASE CloseRaises(t)
    BY <1>12, <1>0 DEF CloseRaises, TypeOK, OneOwner, Races,
         OpenPoolIsCached, ClosesFirst, Pools, HeldBy, Working, Suspend,
         Resume, SetPool
  <1>13. CASE UNCHANGED vars
    BY <1>13 DEF vars, TypeOK, OneOwner, Races, OpenPoolIsCached,
         ClosesFirst, Pools, HeldBy, Working, Suspend, Resume, SetPool
  <1> QED
    BY <1>1, <1>2, <1>3, <1>4, <1>5, <1>6, <1>7, <1>8, <1>9, <1>10, <1>11,
         <1>12, <1>13 DEF Step

(* Every step of the cache keeps the invariant, also when a module that    *)
(* extends it takes the step.                                              *)
LEMMA IInvStep ==
  ASSUME IInv, [Next]_vars
  PROVE  IInv'
  <1>1. ASSUME NEW t \in Tasks, Step(t) PROVE IInv'
    BY <1>1, TypeStep, OwnerStep, RacesStep, ServesStep, ClosedByOneStep,
       CachedStep DEF IInv
  <1>2. CASE UNCHANGED vars
    BY <1>2 DEF IInv, vars, TypeOK, OneOwner, Races, NeverServesDeadPool,
       ClosedByOne, OpenPoolIsCached, HeldBy, Working, ClosesFirst, Suspends
  <1> QED
    BY <1>1, <1>2 DEF Next

-----------------------------------------------------------------------------
(* Theorems                                                                *)

(* IInv is an invariant of every behaviour, under any number of tasks that *)
(* call get_<adapter>() and close() in any order.                          *)
THEOREM Invariance == Spec => []IInv
  BY InitIInv, IInvStep, PTL DEF Spec

(* The variables keep their types.                                         *)
THEOREM TypeCorrect == Spec => []TypeOK
  <1>1. IInv => TypeOK
    BY DEF IInv
  <1> QED
    BY <1>1, Invariance, PTL

(* A pool that is not open is in the cache only while a close() that       *)
(* closes first is at work on it or after one that raised.                 *)
THEOREM DeadPoolsServed == Spec => []NeverServesDeadPool
  <1>1. IInv => NeverServesDeadPool
    BY DEF IInv
  <1> QED
    BY <1>1, Invariance, PTL

(* An adapter that evicts before it closes never closes a pool twice, nor  *)
(* one that the cache still serves.                                        *)
THEOREM EvictionIsExclusive == Spec => []ClosedByOne
  <1>1. IInv => ClosedByOne
    BY DEF IInv
  <1> QED
    BY <1>1, Invariance, PTL

(* Only a pool that took part in a race, or whose creation or closing was  *)
(* cut short, is open without being the one in the cache.                  *)
THEOREM LeaksNeedARace == Spec => []OpenPoolIsCached
  <1>1. IInv => OpenPoolIsCached
    BY DEF IInv
  <1> QED
    BY <1>1, Invariance, PTL
=============================================================================
