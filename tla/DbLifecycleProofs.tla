------------------------- MODULE DbLifecycleProofs -------------------------
(***************************************************************************)
(* Theorems about DbLifecycle for every set of adapters, ports and tasks.  *)
(*                                                                         *)
(* Every lifecycle step is a step of ConnectionCache or leaves the cache   *)
(* alone, so that IInv of ConnectionCacheProofs holds here too.  What an   *)
(* orderly stop frees follows from IInv and from what shutdown() calls,    *)
(* undisturbed by any other, do to the cache.                              *)
(***************************************************************************)
EXTENDS DbLifecycle, ConnectionCacheProofs

(* A pool in creation has a creator.                                       *)
Opening ==
  \A p \in Pools : pool[p] = "opening" =>
    \E t \in Tasks : at[t] = "creating" /\ held[t] = p

(* A task closes a pool exactly in shutdown(), and an idle one is in no    *)
(* call.                                                                   *)
CallsMatch ==
  \A t \in Tasks :
    /\ at[t] = "closing" <=> InShutdown(t)
    /\ at[t] = "idle" => call[t] = <<>>

(* As long as nothing but shutdown() runs, those calls close the pool that *)
(* is in the cache, if there is one.                                       *)
Undisturbed ==
  ~late /\ StoppingBegun =>
    \A t \in Tasks :
      /\ at[t] \in {"idle", "closing"}
      /\ at[t] = "closing" => cache \in {0, held[t]}

(* When a port with a repository is down, the cache is empty, or close()   *)
(* has raised for what it holds.                                           *)
Released ==
  ~late /\ down \intersect repo # {} /\ Evict[adapter] # "never" =>
    cache = 0 \/ cache \in faulted

(* The inductive invariant: that of the cache, and what the ports add to   *)
(* it.                                                                     *)
LifecycleInv ==
  /\ PortsOK /\ IInv
  /\ Opening /\ CallsMatch /\ Undisturbed /\ Released

USE CacheAssumption, LifecycleAssumption

(* No call is under way at first.                                          *)
LEMMA InitLifecycle == PortsInit => LifecycleInv
  <1> SUFFICES ASSUME PortsInit PROVE LifecycleInv
    OBVIOUS
  <1>1. IInv
    BY InitIInv DEF PortsInit
  <1>2. PortsOK
    <2>1. /\ status \in [Ports -> Statuses] /\ repo \subseteq Ports
          /\ ready \subseteq Ports /\ down \subseteq Ports
          /\ raised \subseteq Ports /\ late \in BOOLEAN
      BY DEF PortsInit, Statuses
    <2>2. call \in [Tasks -> Calls]
      BY DEF PortsInit, Calls
    <2>3. inits \in [Ports -> 0 .. MaxInits]
      BY DEF PortsInit
    <2> QED
      BY <1>1, <2>1, <2>2, <2>3 DEF IInv, PortsOK
  <1>3. /\ \A t \in Tasks : call[t] = <<>> /\ at[t] = "idle"
        /\ \A p \in Pools : pool[p] = "absent"
        /\ down = {}
    BY DEF PortsInit, Init
  <1>4. \A t \in Tasks : ~InShutdown(t)
    BY <1>3 DEF InShutdown
  <1> QED
    BY <1>1, <1>2, <1>3, <1>4 DEF LifecycleInv, Opening, CallsMatch,
       Undisturbed, Released, StoppingBegun

(* Every lifecycle step is one of the cache.                               *)
LEMMA CacheStep ==
  ASSUME [LifecycleNext]_lvars
  PROVE  [Next]_vars
  <1>1. CASE UNCHANGED lvars
    BY <1>1 DEF lvars, vars
  <1>2. ASSUME NEW t \in Tasks, Get(t) PROVE Step(t)
    BY <1>2 DEF Get, Step
  <1>3. ASSUME NEW t \in Tasks, Use(t) \/ UseReturns(t) \/ PoolCreated(t)
        PROVE  Step(t)
    BY <1>3, <1>2 DEF Use, UseReturns, PoolCreated, Step
  <1>4. ASSUME NEW t \in Tasks, NEW x \in Ports,
               \/ Initialize(t, x) \/ InitializeFails(t, x)
               \/ InitializeEnds(t, x) \/ ShutdownBegins(t, x)
               \/ ShutdownAtOnce(t, x) \/ ShutdownEnds(t, x)
               \/ CloseFails(t, x)
        PROVE  Step(t) \/ UNCHANGED vars
    BY <1>4, <1>2 DEF Initialize, InitializeFails, InitializeEnds,
       ShutdownBegins, ShutdownAtOnce, ShutdownEnds, CloseFails, Step
  <1> QED
    BY <1>1, <1>3, <1>4 DEF LifecycleNext, Next

-----------------------------------------------------------------------------
(* What the steps of the cache do, as far as the ports rely on it          *)

(* Where get_<a>() leaves the task that calls it.                          *)
LEMMA GetEffect ==
  ASSUME TypeOK, NEW t \in Tasks, Get(t)
  PROVE  /\ at[t] = "idle" /\ at'[t] \in {"using", "creating"}
         /\ \A u \in Tasks \ {t} : at'[u] = at[u] /\ held'[u] = held[u]
         /\ \A p \in Pools : pool'[p] = "opening" =>
              \/ pool[p] = "opening"
              \/ at'[t] = "creating" /\ held'[t] = p
         /\ adapter' = adapter
  <1>1. CASE Hit(t)
    BY <1>1 DEF TypeOK, Hit, Suspend
  <1>2. CASE \E p \in Pools : Miss(t, p)
    BY <1>2 DEF TypeOK, Miss, Suspend, SetPool
  <1>3. CASE \E p \in Pools : CreateInline(t, p)
    BY <1>3 DEF TypeOK, CreateInline, Suspend, SetPool
  <1> QED
    BY <1>1, <1>2, <1>3 DEF Get

(* A creation or an operation that ends.                                   *)
LEMMA EndEffect ==
  ASSUME TypeOK, OneOwner, NEW t \in Tasks,
         CreateUndone(t) \/ CreateAbandoned(t) \/ UseEnds(t)
  PROVE  /\ at[t] \in {"creating", "using"} /\ at'[t] = "idle"
         /\ \A u \in Tasks \ {t} : at'[u] = at[u] /\ held'[u] = held[u]
         /\ \A p \in Pools : pool'[p] = "opening" =>
              pool[p] = "opening" /\ (at[t] = "creating" => held[t] # p)
         /\ adapter' = adapter /\ cache' = cache
  <1>0. at[t] = "creating" => held[t] \in Pools
    BY WorksOnPool
  <1>1. CASE CreateUndone(t)
    BY <1>1, <1>0 DEF TypeOK, CreateUndone, Suspend, Resume, SetPool
  <1>2. CASE CreateAbandoned(t)
    BY <1>2, <1>0 DEF TypeOK, CreateAbandoned, Suspend, Resume, SetPool
  <1>3. CASE UseEnds(t)
    BY <1>3 DEF TypeOK, UseEnds, Suspend, Resume
  <1> QED
    BY <1>1, <1>2, <1>3

(* The pool has been created, and cached.                                  *)
LEMMA CreatedEffect ==
  ASSUME TypeOK, OneOwner, NEW t \in Tasks, Created(t)
  PROVE  /\ at[t] = "creating" /\ at'[t] = "using"
         /\ \A u \in Tasks \ {t} : at'[u] = at[u] /\ held'[u] = held[u]
         /\ \A p \in Pools : pool'[p] = "opening" =>
              pool[p] = "opening" /\ held[t] # p
         /\ adapter' = adapter
  <1>0. at[t] = "creating" => held[t] \in Pools
    BY WorksOnPool
  <1> QED
    BY <1>0 DEF TypeOK, Created, Suspend, SetPool

(* close() that waits for the driver.                                      *)
LEMMA CloseEffect ==
  ASSUME TypeOK, NEW t \in Tasks, CloseThenEvict(t) \/ EvictThenClose(t)
  PROVE  /\ at[t] = "idle" /\ at'[t] = "closing"
         /\ cache # 0 /\ held'[t] = cache /\ cache' \in {0, cache}
         /\ \A u \in Tasks \ {t} : at'[u] = at[u] /\ held'[u] = held[u]
         /\ \A p \in Pools : pool'[p] = "opening" => pool[p] = "opening"
         /\ adapter' = adapter /\ faulted' = faulted
  <1>1. CASE CloseThenEvict(t)
    BY <1>1 DEF TypeOK, CloseThenEvict, Suspend, BeginClosing, SetPool
  <1>2. CASE EvictThenClose(t)
    BY <1>2 DEF TypeOK, EvictThenClose, Suspend, BeginClosing, SetPool
  <1> QED
    BY <1>1, <1>2

(* A close() without an await leaves the task where it was.                *)
LEMMA InlineEffect ==
  ASSUME TypeOK, NEW t \in Tasks, CloseInline(t)
  PROVE  /\ cache' = 0 /\ at' = at /\ held' = held /\ adapter' = adapter
         /\ \A p \in Pools : pool'[p] = "opening" => pool[p] = "opening"
  BY DEF TypeOK, CloseInline, SetPool

(* close() of the driver that ends: the pool is out of the cache, or is    *)
(* marked as one whose close() raised.                                     *)
LEMMA ClosedEffect ==
  ASSUME TypeOK, ClosedByOne, NEW t \in Tasks, Closed(t) \/ CloseRaises(t)
  PROVE  /\ at[t] = "closing" /\ at'[t] = "idle"
         /\ \A u \in Tasks \ {t} : at'[u] = at[u] /\ held'[u] = held[u]
         /\ \A p \in Pools : pool'[p] = "opening" => pool[p] = "opening"
         /\ adapter' = adapter /\ cache' \in {0, cache}
         /\ faulted \subseteq faulted'
         /\ cache = held[t] => cache' = 0 \/ cache' \in faulted'
  <1>1. CASE Closed(t)
    BY <1>1 DEF TypeOK, ClosedByOne, Closed, Suspend, Resume, SetPool,
       ClosesFirst, HeldBy, Working
  <1>2. CASE CloseRaises(t)
    BY <1>2 DEF TypeOK, CloseRaises, Suspend, Resume, SetPool
  <1> QED
    BY <1>1, <1>2

(* A creator stays the creator of its pool unless it takes the step.       *)
LEMMA OpeningKept ==
  ASSUME Opening, NEW t \in Tasks,
         \A u \in Tasks \ {t} : at'[u] = at[u] /\ held'[u] = held[u],
         \A p \in Pools : pool'[p] = "opening" =>
           \/ pool[p] = "opening" /\ (at[t] = "creating" => held[t] # p)
           \/ at'[t] = "creating" /\ held'[t] = p
  PROVE  Opening'
  BY DEF Opening, Pools

-----------------------------------------------------------------------------
(* The steps of the ports                                                  *)

(* A status that is set is a status.                                       *)
LEMMA StatusTyped ==
  ASSUME PortsOK, NEW x \in Ports, NEW s \in Statuses, SetStatus(x, s)
  PROVE  status' \in [Ports -> Statuses]
  BY DEF PortsOK, SetStatus

(* A port that makes its repository is a port.                             *)
LEMMA RepoTyped ==
  ASSUME PortsOK, NEW x \in Ports, NEW b \in BOOLEAN, BuildRepo(x, b)
  PROVE  repo' \subseteq Ports
  BY DEF PortsOK, BuildRepo

(* The calls there are, and which of them are shutdowns.                   *)
LEMMA CallKinds ==
  ASSUME PortsOK, NEW t \in Tasks
  PROVE  /\ call[t] = <<>> => ~InShutdown(t)
         /\ \A x \in Ports : call[t] = <<"initialize", x>> => ~InShutdown(t)
         /\ \A x \in Ports : call[t] = <<"shutdown", x>> => InShutdown(t)
         /\ call[t] # <<>> => call[t][2] \in Ports
  BY DEF PortsOK, Calls, InShutdown

(* initialize() keeps the types, ...                                       *)
LEMMA TypeOfInitialize ==
  ASSUME PortsOK, TypeOK', NEW t \in Tasks, NEW x \in Ports, Initialize(t, x)
  PROVE  PortsOK'
  <1>1. status' \in [Ports -> Statuses]
    BY StatusTyped DEF Initialize, Statuses
  <1>2. repo' \subseteq Ports
    <2>1. (at'[t] = "using") \in BOOLEAN
      OBVIOUS
    <2> QED
      BY <2>1, RepoTyped DEF Initialize
  <1>3. call' \in [Tasks -> Calls]
    BY DEF Initialize, PortsOK, Calls
  <1>4. inits' \in [Ports -> 0 .. MaxInits]
    BY DEF Initialize, PortsOK
  <1>5. late' \in BOOLEAN
    BY DEF Initialize, PortsOK
  <1> QED
    BY <1>1, <1>2, <1>3, <1>4, <1>5 DEF Initialize, PortsOK

(* ... so does an operation, ...                                           *)
LEMMA TypeOfUse ==
  ASSUME PortsOK, TypeOK', NEW t \in Tasks, Use(t) \/ UseReturns(t)
  PROVE  PortsOK'
  <1>1. late' \in BOOLEAN
    BY DEF Use, UseReturns, ports, PortsOK
  <1> QED
    BY <1>1 DEF Use, UseReturns, ports, PortsOK

(* ... a creation that ends, ...                                           *)
LEMMA TypeOfPoolCreated ==
  ASSUME PortsOK, TypeOK', NEW t \in Tasks, PoolCreated(t)
  PROVE  PortsOK'
  <1>1. repo' \subseteq Ports
    <2>1. CASE call[t] = <<>>
      BY <2>1 DEF PoolCreated, PortsOK
    <2>2. CASE call[t] # <<>>
      BY <2>2, CallKinds, RepoTyped DEF PoolCreated
    <2> QED
      BY <2>1, <2>2
  <1> QED
    BY <1>1 DEF PoolCreated, PortsOK

(* ... the end of initialize(), ...                                        *)
LEMMA TypeOfInitializeEnd ==
  ASSUME PortsOK, TypeOK', NEW t \in Tasks, NEW x \in Ports,
         InitializeFails(t, x) \/ InitializeEnds(t, x)
  PROVE  PortsOK'
  <1>1. status' \in [Ports -> Statuses]
    <2>1. CASE UNCHANGED status
      BY <2>1 DEF PortsOK
    <2>2. CASE SetStatus(x, "FAILED") \/ SetStatus(x, "READY")
      BY <2>2, StatusTyped DEF Statuses
    <2> QED
      BY <2>1, <2>2 DEF InitializeFails, InitializeEnds
  <1>2. call' \in [Tasks -> Calls]
    BY DEF InitializeFails, InitializeEnds, PortsOK, Calls
  <1>3. ready' \subseteq Ports
    BY DEF InitializeFails, InitializeEnds, PortsOK
  <1> QED
    BY <1>1, <1>2, <1>3 DEF InitializeFails, InitializeEnds, PortsOK

(* ... and shutdown().                                                     *)
LEMMA TypeOfShutdown ==
  ASSUME PortsOK, TypeOK', NEW t \in Tasks, NEW x \in Ports,
         \/ ShutdownBegins(t, x) \/ ShutdownAtOnce(t, x)
         \/ ShutdownEnds(t, x) \/ CloseFails(t, x)
  PROVE  PortsOK'
  <1>1. status' \in [Ports -> Statuses]
    <2>1. SetStatus(x, "STOPPING") \/ SetStatus(x, "STOPPED")
      BY DEF ShutdownBegins, ShutdownAtOnce, ShutdownEnds, CloseFails
    <2> QED
      BY <2>1, StatusTyped DEF Statuses
  <1>2. call' \in [Tasks -> Calls]
    BY DEF ShutdownBegins, ShutdownAtOnce, ShutdownEnds, CloseFails, PortsOK,
       Calls
  <1>3. /\ down' \subseteq Ports /\ raised' \subseteq Ports
        /\ late' \in BOOLEAN
    BY DEF ShutdownBegins, ShutdownAtOnce, ShutdownEnds, CloseFails, PortsOK
  <1> QED
    BY <1>1, <1>2, <1>3 DEF ShutdownBegins, ShutdownAtOnce, ShutdownEnds,
       CloseFails, PortsOK

-----------------------------------------------------------------------------
(* One lemma per step of the ports: the parts of the invariant that say    *)
(* what the calls are at.                                                  *)
PortsInv == Opening /\ CallsMatch /\ Undisturbed /\ Released

(* initialize() keeps what is known of the ports, ...                      *)
LEMMA AfterInitialize ==
  ASSUME LifecycleInv, NEW t \in Tasks, NEW x \in Ports, Initialize(t, x)
  PROVE  PortsInv'
  <1>0. /\ PortsOK /\ TypeOK /\ Opening /\ CallsMatch /\ Undisturbed /\ Released
    BY DEF LifecycleInv, PortsOK
  <1>1. Get(t)
    BY DEF Initialize
  <1>2. /\ at[t] = "idle" /\ at'[t] \in {"using", "creating"}
        /\ \A u \in Tasks \ {t} : at'[u] = at[u] /\ held'[u] = held[u]
        /\ adapter' = adapter
    BY <1>0, <1>1, GetEffect
  <1>3. /\ call'[t] = <<"initialize", x>>
        /\ \A u \in Tasks \ {t} : call'[u] = call[u]
        /\ late' = (late \/ StoppingBegun) /\ down' = down
    BY <1>0 DEF Initialize, PortsOK
  <1>4. Opening'
    BY <1>0, <1>1, <1>2, GetEffect, OpeningKept
  <1>5. ~InShutdown(t)'
    BY <1>3 DEF InShutdown
  <1>6. \A u \in Tasks \ {t} : InShutdown(u)' <=> InShutdown(u)
    BY <1>3 DEF InShutdown
  <1>7. CallsMatch'
    BY <1>0, <1>2, <1>3, <1>5, <1>6 DEF CallsMatch
  <1>8. ~late' => ~StoppingBegun'
    BY <1>3, <1>5, <1>6 DEF StoppingBegun
  <1>9. ~late' => down' = {}
    BY <1>8 DEF StoppingBegun
  <1> QED
    BY <1>4, <1>7, <1>8, <1>9 DEF PortsInv, Undisturbed, Released

(* ... so does an operation, ...                                           *)
LEMMA AfterUse ==
  ASSUME LifecycleInv, NEW t \in Tasks, Use(t)
  PROVE  PortsInv'
  <1>0. /\ PortsOK /\ TypeOK /\ Opening /\ CallsMatch /\ Undisturbed /\ Released
    BY DEF LifecycleInv, PortsOK
  <1>1. Get(t)
    BY DEF Use
  <1>2. /\ at[t] = "idle" /\ at'[t] \in {"using", "creating"}
        /\ \A u \in Tasks \ {t} : at'[u] = at[u] /\ held'[u] = held[u]
        /\ adapter' = adapter
    BY <1>0, <1>1, GetEffect
  <1>3. call' = call /\ late' = (late \/ StoppingBegun) /\ down' = down
    BY DEF Use
  <1>4. Opening'
    BY <1>0, <1>1, <1>2, GetEffect, OpeningKept
  <1>5. \A u \in Tasks : InShutdown(u)' <=> InShutdown(u)
    BY <1>3 DEF InShutdown
  <1>6. CallsMatch'
    BY <1>0, <1>2, <1>3, <1>5 DEF CallsMatch
  <1>7. ~late' => ~StoppingBegun' /\ down' = {}
    BY <1>3, <1>5 DEF StoppingBegun
  <1> QED
    BY <1>4, <1>6, <1>7 DEF PortsInv, Undisturbed, Released

(* A call other than shutdown() that ends next to or after one was there   *)
(* when that began.                                                        *)
LEMMA AfterEnd ==
  ASSUME LifecycleInv, NEW t \in Tasks,
         CreateUndone(t) \/ CreateAbandoned(t) \/ UseEnds(t),
         call[t] = <<>> \/ \E x \in Ports : call[t] = <<"initialize", x>>,
         call' = [call EXCEPT ![t] = <<>>], UNCHANGED <<down, late>>
  PROVE  PortsInv'
  <1>0. /\ PortsOK /\ TypeOK /\ OneOwner
        /\ Opening /\ CallsMatch /\ Undisturbed /\ Released
    BY DEF LifecycleInv, PortsOK, IInv
  <1>1. /\ at[t] \in {"creating", "using"} /\ at'[t] = "idle"
        /\ \A u \in Tasks \ {t} : at'[u] = at[u] /\ held'[u] = held[u]
        /\ \A p \in Pools : pool'[p] = "opening" =>
             pool[p] = "opening" /\ (at[t] = "creating" => held[t] # p)
    BY <1>0, EndEffect
  <1>2. call'[t] = <<>> /\ \A u \in Tasks \ {t} : call'[u] = call[u]
    BY <1>0 DEF PortsOK
  <1>3. Opening'
    BY <1>0, <1>1, OpeningKept
  <1>4. ~InShutdown(t) /\ ~InShutdown(t)'
    BY <1>0, <1>2, CallKinds DEF InShutdown
  <1>5. \A u \in Tasks \ {t} : InShutdown(u)' <=> InShutdown(u)
    BY <1>2 DEF InShutdown
  <1>6. CallsMatch'
    BY <1>0, <1>1, <1>2, <1>4, <1>5 DEF CallsMatch
  <1>7. ~late => ~StoppingBegun
    BY <1>0, <1>1 DEF Undisturbed
  <1>8. ~late' => ~StoppingBegun' /\ down' = {}
    BY <1>4, <1>5, <1>7 DEF StoppingBegun
  <1> QED
    BY <1>3, <1>6, <1>8 DEF PortsInv, Undisturbed, Released

(* ... a creation that ends, ...                                           *)
LEMMA AfterPoolCreated ==
  ASSUME LifecycleInv, NEW t \in Tasks, PoolCreated(t)
  PROVE  PortsInv'
  <1>0. /\ PortsOK /\ TypeOK /\ OneOwner
        /\ Opening /\ CallsMatch /\ Undisturbed /\ Released
    BY DEF LifecycleInv, PortsOK, IInv
  <1>1. /\ at[t] = "creating" /\ at'[t] = "using"
        /\ \A u \in Tasks \ {t} : at'[u] = at[u] /\ held'[u] = held[u]
        /\ \A p \in Pools : pool'[p] = "opening" =>
             pool[p] = "opening" /\ held[t] # p
    BY <1>0, CreatedEffect DEF PoolCreated
  <1>2. call' = call /\ late' = late /\ down' = down
    BY DEF PoolCreated
  <1>3. Opening'
    BY <1>0, <1>1, OpeningKept
  <1>4. \A u \in Tasks : InShutdown(u)' <=> InShutdown(u)
    BY <1>2 DEF InShutdown
  <1>5. CallsMatch'
    BY <1>0, <1>1, <1>2, <1>4 DEF CallsMatch
  <1>6. ~late' => ~StoppingBegun' /\ down' = {}
    BY <1>0, <1>1, <1>2, <1>4 DEF Undisturbed, StoppingBegun
  <1> QED
    BY <1>3, <1>5, <1>6 DEF PortsInv, Undisturbed, Released

(* A shutdown() begins undisturbed if every task that is not idle is in a  *)
(* shutdown() too; no call has changed the cache since the first began.    *)
LEMMA BeginUndisturbed ==
  ASSUME PortsOK, CallsMatch, Undisturbed, ~late, ~OtherCallRuns
  PROVE  \A t \in Tasks :
           /\ at[t] \in {"idle", "closing"}
           /\ at[t] = "closing" => cache \in {0, held[t]}
  BY DEF OtherCallRuns, CallsMatch, Undisturbed, StoppingBegun

(* ... a shutdown() that waits for the close of the pool, ...              *)
LEMMA AfterShutdownBegins ==
  ASSUME LifecycleInv, NEW t \in Tasks, NEW x \in Ports, ShutdownBegins(t, x)
  PROVE  PortsInv'
  <1>0. /\ PortsOK /\ TypeOK /\ Opening /\ CallsMatch /\ Undisturbed /\ Released
    BY DEF LifecycleInv, PortsOK
  <1>1. /\ at[t] = "idle" /\ at'[t] = "closing"
        /\ cache # 0 /\ held'[t] = cache /\ cache' \in {0, cache}
        /\ \A u \in Tasks \ {t} : at'[u] = at[u] /\ held'[u] = held[u]
        /\ \A p \in Pools : pool'[p] = "opening" => pool[p] = "opening"
        /\ adapter' = adapter /\ faulted' = faulted
    BY <1>0, CloseEffect DEF ShutdownBegins
  <1>2. /\ call'[t] = <<"shutdown", x>>
        /\ \A u \in Tasks \ {t} : call'[u] = call[u]
        /\ late' = (late \/ OtherCallRuns) /\ down' = down /\ repo' = repo
    BY <1>0 DEF ShutdownBegins, PortsOK
  <1>3. Opening'
    BY <1>0, <1>1, OpeningKept
  <1>4. InShutdown(t)'
    BY <1>2 DEF InShutdown
  <1>5. \A u \in Tasks \ {t} : InShutdown(u)' <=> InShutdown(u)
    BY <1>2 DEF InShutdown
  <1>6. CallsMatch'
    BY <1>0, <1>1, <1>2, <1>4, <1>5 DEF CallsMatch
  <1>7. Undisturbed'
    <2>1. ~late' => ~late /\ ~OtherCallRuns
      BY <1>2
    <2> QED
      BY <1>0, <1>1, <2>1, BeginUndisturbed DEF Undisturbed
  <1>8. Released'
    BY <1>0, <1>1, <1>2 DEF Released
  <1> QED
    BY <1>3, <1>6, <1>7, <1>8 DEF PortsInv

(* ... one that finds nothing to wait for, ...                             *)
LEMMA AfterShutdownAtOnce ==
  ASSUME LifecycleInv, NEW t \in Tasks, NEW x \in Ports, ShutdownAtOnce(t, x)
  PROVE  PortsInv'
  <1>0. /\ PortsOK /\ TypeOK /\ Opening /\ CallsMatch /\ Undisturbed /\ Released
    BY DEF LifecycleInv, PortsOK
  <1>1. /\ at' = at /\ held' = held /\ adapter' = adapter
        /\ cache' \in {0, cache} /\ (HasWork(x) => cache' = 0)
        /\ (cache' # 0 => faulted' = faulted)
        /\ \A p \in Pools : pool'[p] = "opening" => pool[p] = "opening"
    BY <1>0, InlineEffect DEF ShutdownAtOnce, vars
  <1>2. /\ call' = call /\ late' = (late \/ OtherCallRuns)
        /\ down' = down \union {x} /\ repo' = repo
    BY DEF ShutdownAtOnce
  <1>3. Opening'
    BY <1>0, <1>1 DEF Opening, Pools
  <1>4. \A u \in Tasks : InShutdown(u)' <=> InShutdown(u)
    BY <1>2 DEF InShutdown
  <1>5. CallsMatch'
    BY <1>0, <1>1, <1>2, <1>4 DEF CallsMatch
  <1>6. Undisturbed'
    <2>1. ~late' => ~late /\ ~OtherCallRuns
      BY <1>2
    <2> QED
      BY <1>0, <1>1, <2>1, BeginUndisturbed DEF Undisturbed
  <1>7. Released'
    <2>1. ~late' => ~late
      BY <1>2
    <2>2. Evict[adapter] # "never" /\ x \in repo => cache' = 0
      BY <1>1 DEF HasWork
    <2> QED
      BY <1>0, <1>1, <1>2, <2>1, <2>2 DEF Released
  <1> QED
    BY <1>3, <1>5, <1>6, <1>7 DEF PortsInv

(* ... and one whose close has ended or failed.                            *)
LEMMA AfterShutdownEnds ==
  ASSUME LifecycleInv, NEW t \in Tasks, NEW x \in Ports,
         ShutdownEnds(t, x) \/ CloseFails(t, x)
  PROVE  PortsInv'
  <1>0. /\ PortsOK /\ TypeOK /\ ClosedByOne
        /\ Opening /\ CallsMatch /\ Undisturbed /\ Released
    BY DEF LifecycleInv, PortsOK, IInv
  <1>1. /\ at[t] = "closing" /\ at'[t] = "idle"
        /\ \A u \in Tasks \ {t} : at'[u] = at[u] /\ held'[u] = held[u]
        /\ \A p \in Pools : pool'[p] = "opening" => pool[p] = "opening"
        /\ adapter' = adapter /\ cache' \in {0, cache}
        /\ faulted \subseteq faulted'
        /\ cache = held[t] => cache' = 0 \/ cache' \in faulted'
    BY <1>0, ClosedEffect DEF ShutdownEnds, CloseFails
  <1>2. /\ call[t] = <<"shutdown", x>> /\ call'[t] = <<>>
        /\ \A u \in Tasks \ {t} : call'[u] = call[u]
        /\ late' = late /\ down' = down \union {x} /\ repo' = repo
    BY <1>0 DEF ShutdownEnds, CloseFails, PortsOK
  <1>3. Opening'
    BY <1>0, <1>1, OpeningKept
  <1>4. InShutdown(t) /\ ~InShutdown(t)'
    BY <1>0, <1>2, CallKinds DEF InShutdown
  <1>5. \A u \in Tasks \ {t} : InShutdown(u)' <=> InShutdown(u)
    BY <1>2 DEF InShutdown
  <1>6. CallsMatch'
    BY <1>0, <1>1, <1>2, <1>4, <1>5 DEF CallsMatch
  <1>7. ~late => StoppingBegun /\ cache \in {0, held[t]}
    BY <1>0, <1>1, <1>4 DEF StoppingBegun, Undisturbed
  <1>8. Undisturbed'
    BY <1>0, <1>1, <1>2, <1>7 DEF Undisturbed
  <1>9. Released'
    BY <1>0, <1>1, <1>2, <1>7 DEF Released
  <1> QED
    BY <1>3, <1>6, <1>8, <1>9 DEF PortsInv

-----------------------------------------------------------------------------
(* Every step of the ports keeps the invariant.                            *)
LEMMA NextPreserves ==
  ASSUME LifecycleInv, [LifecycleNext]_lvars
  PROVE  LifecycleInv'
  <1>1. PortsOK /\ CallsMatch /\ IInv'
    BY CacheStep, IInvStep DEF LifecycleInv
  <1>2. TypeOK'
    BY <1>1 DEF IInv
  <1>3. ASSUME PortsOK', PortsInv' PROVE LifecycleInv'
    BY <1>1, <1>3 DEF LifecycleInv, PortsInv
  <1>4. CASE UNCHANGED lvars
    BY <1>4 DEF lvars, vars, ports, LifecycleInv, PortsOK, TypeOK, IInv,
       OneOwner, Races, NeverServesDeadPool, ClosedByOne, OpenPoolIsCached,
       HeldBy, Working, ClosesFirst, Suspends, Opening, CallsMatch,
       Undisturbed, Released, StoppingBegun, InShutdown
  <1>5. ASSUME NEW t \in Tasks, Use(t) PROVE LifecycleInv'
    BY <1>5, <1>1, <1>2, <1>3, TypeOfUse, AfterUse
  <1>6. ASSUME NEW t \in Tasks, UseReturns(t) PROVE LifecycleInv'
    <2>1. call' = [call EXCEPT ![t] = <<>>] /\ UNCHANGED <<down, late>>
      BY <1>6, <1>1 DEF UseReturns, ports, PortsOK
    <2> QED
      BY <1>6, <1>1, <1>2, <1>3, <2>1, TypeOfUse, AfterEnd DEF UseReturns
  <1>7. ASSUME NEW t \in Tasks, PoolCreated(t) PROVE LifecycleInv'
    BY <1>7, <1>1, <1>2, <1>3, TypeOfPoolCreated, AfterPoolCreated
  <1>8. ASSUME NEW t \in Tasks, NEW x \in Ports, Initialize(t, x)
        PROVE  LifecycleInv'
    BY <1>8, <1>1, <1>2, <1>3, TypeOfInitialize, AfterInitialize
  <1>9. ASSUME NEW t \in Tasks, NEW x \in Ports,
               InitializeFails(t, x) \/ InitializeEnds(t, x)
        PROVE  LifecycleInv'
    <2>1. /\ call[t] = <<"initialize", x>>
          /\ call' = [call EXCEPT ![t] = <<>>] /\ UNCHANGED <<down, late>>
          /\ CreateUndone(t) \/ CreateAbandoned(t) \/ UseEnds(t)
      BY <1>9 DEF InitializeFails, InitializeEnds
    <2> QED
      BY <1>9, <1>1, <1>2, <1>3, <2>1, TypeOfInitializeEnd, AfterEnd
  <1>10. ASSUME NEW t \in Tasks, NEW x \in Ports, ShutdownBegins(t, x)
         PROVE  LifecycleInv'
    BY <1>10, <1>1, <1>2, <1>3, TypeOfShutdown, AfterShutdownBegins
  <1>11. ASSUME NEW t \in Tasks, NEW x \in Ports, ShutdownAtOnce(t, x)
         PROVE  LifecycleInv'
    BY <1>11, <1>1, <1>2, <1>3, TypeOfShutdown, AfterShutdownAtOnce
  <1>12. ASSUME NEW t \in Tasks, NEW x \in Ports,
                ShutdownEnds(t, x) \/ CloseFails(t, x)
         PROVE  LifecycleInv'
    BY <1>12, <1>1, <1>2, <1>3, TypeOfShutdown, AfterShutdownEnds
  <1> QED
    BY <1>4, <1>5, <1>6, <1>7, <1>8, <1>9, <1>10, <1>11, <1>12
       DEF LifecycleNext

-----------------------------------------------------------------------------
(* Theorems                                                                *)

(* Whatever the ports do in whatever order, LifecycleInv holds.            *)
THEOREM LifecycleInvariance == LifecycleSpec => []LifecycleInv
  BY InitLifecycle, NextPreserves, PTL DEF LifecycleSpec

(* Plugins and repositories do nothing to the cache that ConnectionCache   *)
(* does not: what is proved of get and close() holds for them.             *)
THEOREM LifecycleUsesCache == LifecycleSpec => Spec
  <1>1. PortsInit => Init
    BY DEF PortsInit
  <1> QED
    BY <1>1, CacheStep, PTL DEF LifecycleSpec, Spec

(* The variables of the ports and of the cache keep their types.           *)
THEOREM PortsTypeCorrect == LifecycleSpec => []PortsOK
  <1>1. LifecycleInv => PortsOK
    BY DEF LifecycleInv
  <1> QED
    BY <1>1, LifecycleInvariance, PTL

(* An orderly stop leaves no connection behind that no race or failure had *)
(* put at risk: nobody creates or closes one, and none is open outside the *)
(* cache, which is empty.                                                  *)
LEMMA QuietPools ==
  ASSUME LifecycleInv
  PROVE  OrderlyStopFreesPools
  <1> SUFFICES ASSUME (down \intersect repo # {}) /\ ~late,
                      Quiet, Evict[adapter] # "never",
                      NEW p \in Pools \ (contended \union faulted),
                      pool[p] \in {"opening", "open", "closing"}
               PROVE  FALSE
    BY DEF OrderlyStopFreesPools, LivePools
  <1>1. pool[p] # "opening"
    BY DEF LifecycleInv, Opening, Quiet
  <1>2. pool[p] # "closing"
    BY DEF LifecycleInv, IInv, OpenPoolIsCached, HeldBy, Working, Quiet
  <1>3. pool[p] = "open" => cache = p
    BY DEF LifecycleInv, IInv, OpenPoolIsCached
  <1>4. cache # p
    BY DEF LifecycleInv, Released, Pools
  <1> QED
    BY <1>1, <1>2, <1>3, <1>4

(* shutdown() of a port with a repository, after every other call, leaves  *)
(* no connection, whether initialize() had succeeded or not and whichever  *)
(* port had opened the pool.                                               *)
THEOREM OrderlyStop == LifecycleSpec => []OrderlyStopFreesPools
  BY LifecycleInvariance, QuietPools, PTL
=============================================================================
