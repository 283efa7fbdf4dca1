-------------------------- MODULE ConnectionCache --------------------------
(***************************************************************************)
(* The module-level cache of connection.py and the repositories that share *)
(* it, for one cache key: get_<adapter>() looks the pool up, creates it on *)
(* a miss and stores it when creation has ended; repository.close() closes *)
(* the pool and evicts it.  Every repository and plugin whose settings     *)
(* give the same key works on the same pool, and nothing locks the cache   *)
(* between two awaits.                                                     *)
(*                                                                         *)
(* The fourteen database adapters differ in how the pool is created and in *)
(* the order in which close() closes and evicts: Connect and Evict say     *)
(* how each does it (DbAdapters gives them their values).  An operation of *)
(* a repository is Hit or Miss ... UseEnds; health() is one too.           *)
(***************************************************************************)
EXTENDS Naturals, FiniteSets

CONSTANTS
  Adapters,  \* the adapters considered
  Connect,   \* how an adapter creates its pool, see ConnectKinds
  Evict,     \* how its close() evicts the pool, see EvictKinds
  Tasks,     \* the asyncio tasks that use the repositories
  MaxPools   \* bound: pools ever created

(* "driver":   one awaited call of the driver, which cleans up after a     *)
(*             failure of its own                                          *)
(* "probe":    the client exists before the awaited probe and is not       *)
(*             closed when the probe fails                                 *)
(* "guarded":  as "probe", but the except clauses close the client; no     *)
(*             except clause catches a cancellation                        *)
(* "executor": a worker thread builds the session and goes on after the    *)
(*             timeout or cancellation of the waiting task                 *)
(* "inline":   created without suspending                                  *)
ConnectKinds == {"driver", "probe", "guarded", "executor", "inline"}

(* "closeFirst": get, await close, then pop whatever the key holds         *)
(* "popFirst":   pop, then await close                                     *)
(* "inline":     pop, then close without suspending                        *)
(* "never":      close() leaves the client alone                           *)
EvictKinds == {"closeFirst", "popFirst", "inline", "never"}

ASSUME CacheAssumption ==
  /\ Connect \in [Adapters -> ConnectKinds]
  /\ Evict \in [Adapters -> EvictKinds]
  /\ MaxPools \in Nat \ {0}

VARIABLES
  adapter,    \* the adapter this process runs: chosen once
  cache,      \* what the key maps to in _pool_cache, 0 for no entry
  pool,       \* pool[p]: state of the driver object
  at,         \* at[t]: where task t is suspended
  held,       \* held[t]: the pool task t works on, 0 for none
  contended,  \* history: pools whose creation overlapped another creation,
              \* or a close() of a "closeFirst" adapter
  faulted     \* history: pools whose creation or closing was cut short

vars == <<adapter, cache, pool, at, held, contended, faulted>>

Pools == 1 .. MaxPools
PoolStates == {"absent", "opening", "open", "closing", "closed"}

TypeOK ==
  /\ adapter \in Adapters
  /\ cache \in Pools \union {0}
  /\ pool \in [Pools -> PoolStates]
  /\ at \in [Tasks -> {"idle", "creating", "using", "closing"}]
  /\ held \in [Tasks -> Pools \union {0}]
  /\ contended \subseteq Pools
  /\ faulted \subseteq Pools

Working(s) == {t \in Tasks : at[t] = s}
HeldBy(s) == {held[t] : t \in Working(s)}

ClosesFirst == Evict[adapter] = "closeFirst"
Suspends == Connect[adapter] # "inline"

(* Variant of Init, for TypeOK: a cache that starts with an entry.         *)
InitCached ==
  /\ adapter \in Adapters
  /\ cache = MaxPools + 1
  /\ pool = [p \in Pools |-> "absent"]
  /\ at = [t \in Tasks |-> "idle"] /\ held = [t \in Tasks |-> 0]
  /\ contended = {} /\ faulted = {}

Init ==
  /\ adapter \in Adapters
  /\ cache = 0
  /\ pool = [p \in Pools |-> "absent"]
  /\ at = [t \in Tasks |-> "idle"] /\ held = [t \in Tasks |-> 0]
  /\ contended = {} /\ faulted = {}

Suspend(t, s, p) == at' = [at EXCEPT ![t] = s] /\ held' = [held EXCEPT ![t] = p]
Resume(t) == Suspend(t, "idle", 0)
SetPool(p, s) == pool' = [pool EXCEPT ![p] = s]

(* Pools are numbered in the order of their creation.                      *)
Fresh(p) == pool[p] = "absent" /\ \A q \in 1 .. p - 1 : pool[q] # "absent"

-----------------------------------------------------------------------------
(* get_<adapter>() and the operation that called it                        *)

Hit(t) ==
  /\ at[t] = "idle" /\ cache # 0
  /\ Suspend(t, "using", cache)
  /\ UNCHANGED <<adapter, cache, pool, contended, faulted>>

(* The pools whose creation overlaps the one of p that begins now.         *)
Rivals(p) ==
  {q \in HeldBy("creating") \union {p} :
    \/ Working("creating") # {}
    \/ ClosesFirst /\ Working("closing") # {}}

(* The cache is read before the await and written after it, so tasks that  *)
(* miss while another one is creating create a pool of their own.          *)
Miss(t, p) ==
  /\ at[t] = "idle" /\ cache = 0 /\ Suspends
  /\ Fresh(p)
  /\ SetPool(p, "opening")
  /\ Suspend(t, "creating", p)
  /\ contended' = contended \union Rivals(p)
  /\ UNCHANGED <<adapter, cache, faulted>>

CreateInline(t, p) ==
  /\ at[t] = "idle" /\ cache = 0 /\ ~Suspends
  /\ Fresh(p)
  /\ SetPool(p, "open")
  /\ cache' = p
  /\ Suspend(t, "using", p)
  /\ contended' = contended \union Rivals(p)
  /\ UNCHANGED <<adapter, faulted>>

(* Variant of Created: the pool is used but never stored.                  *)
CreatedUncached(t) ==
  /\ at[t] = "creating"
  /\ SetPool(held[t], "open")
  /\ Suspend(t, "using", held[t])
  /\ UNCHANGED <<adapter, cache, contended, faulted>>

(* The pool is stored unconditionally, over one stored meanwhile.          *)
Created(t) ==
  /\ at[t] = "creating"
  /\ SetPool(held[t], "open")
  /\ cache' = held[t]
  /\ Suspend(t, "using", held[t])
  /\ UNCHANGED <<adapter, contended, faulted>>

(* Creation raises, times out or is cancelled and the client is gone.      *)
CreateUndone(t) ==
  /\ at[t] = "creating" /\ Connect[adapter] # "probe"
  /\ SetPool(held[t], "closed")
  /\ Resume(t)
  /\ UNCHANGED <<adapter, cache, contended, faulted>>

(* The failed creation leaves a live client behind that nothing refers to: *)
(* a probe that failed, a cancelled guarded probe, a session the worker    *)
(* thread completes after wait_for() has given up.                         *)
CreateAbandoned(t) ==
  /\ at[t] = "creating"
  /\ Connect[adapter] \in {"probe", "guarded", "executor"}
  /\ SetPool(held[t], "open")
  /\ faulted' = faulted \union {held[t]}
  /\ Resume(t)
  /\ UNCHANGED <<adapter, cache, contended>>

(* The operation returns or raises; a pool that is closing or closed makes *)
(* the driver raise.                                                       *)
UseEnds(t) ==
  /\ at[t] = "using"
  /\ Resume(t)
  /\ UNCHANGED <<adapter, cache, pool, contended, faulted>>

-----------------------------------------------------------------------------
(* repository.close()                                                      *)

BeginClosing(p) == SetPool(p, IF pool[p] = "open" THEN "closing" ELSE pool[p])

CloseThenEvict(t) ==
  /\ at[t] = "idle" /\ cache # 0 /\ ClosesFirst
  /\ BeginClosing(cache)
  /\ Suspend(t, "closing", cache)
  /\ contended' = contended \union HeldBy("creating")
  /\ UNCHANGED <<adapter, cache, faulted>>

(* Variant of EvictThenClose: get() instead of pop(), so the pool being    *)
(* closed stays in the cache.                                              *)
CloseKeepsEntry(t) ==
  /\ at[t] = "idle" /\ cache # 0 /\ Evict[adapter] = "popFirst"
  /\ BeginClosing(cache)
  /\ Suspend(t, "closing", cache)
  /\ UNCHANGED <<adapter, cache, contended, faulted>>

EvictThenClose(t) ==
  /\ at[t] = "idle" /\ cache # 0 /\ Evict[adapter] = "popFirst"
  /\ BeginClosing(cache)
  /\ cache' = 0
  /\ Suspend(t, "closing", cache)
  /\ UNCHANGED <<adapter, contended, faulted>>

CloseInline(t) ==
  /\ at[t] = "idle" /\ cache # 0 /\ Evict[adapter] = "inline"
  /\ SetPool(cache, "closed")
  /\ cache' = 0
  /\ UNCHANGED <<adapter, at, held, contended, faulted>>

(* Variant of Closed: the entry of a closed pool stays in the cache.       *)
ClosedKeepsEntry(t) ==
  /\ at[t] = "closing"
  /\ SetPool(held[t], "closed")
  /\ Resume(t)
  /\ UNCHANGED <<adapter, cache, contended, faulted>>

(* close() of the driver returned; a "closeFirst" adapter now pops the     *)
(* key, whichever pool it holds by now.                                    *)
Closed(t) ==
  /\ at[t] = "closing"
  /\ SetPool(held[t], "closed")
  /\ cache' = IF ClosesFirst THEN 0 ELSE cache
  /\ Resume(t)
  /\ UNCHANGED <<adapter, contended, faulted>>

(* It raised, or the task was cancelled while it waited: the pool may be   *)
(* left half closed, and a "closeFirst" adapter keeps serving it.          *)
CloseRaises(t) ==
  /\ at[t] = "closing"
  /\ \/ UNCHANGED pool
     \/ SetPool(held[t], "closed")
  /\ faulted' = faulted \union {held[t]}
  /\ Resume(t)
  /\ UNCHANGED <<adapter, cache, contended>>

-----------------------------------------------------------------------------
Step(t) ==
  \/ Hit(t) \/ Created(t) \/ CreateUndone(t) \/ CreateAbandoned(t)
  \/ \E p \in Pools : Miss(t, p) \/ CreateInline(t, p)
  \/ UseEnds(t)
  \/ CloseThenEvict(t) \/ EvictThenClose(t) \/ CloseInline(t)
  \/ Closed(t) \/ CloseRaises(t)

Next == \E t \in Tasks : Step(t)

Spec == Init /\ [][Next]_vars

(* Every awaited close() of a driver ends.                                 *)
FairSpec == Spec /\ \A t \in Tasks : WF_vars(Closed(t) \/ CloseRaises(t))

-----------------------------------------------------------------------------
(* Properties                                                              *)

(* The cache hands out a pool that is not open only while a close() of a   *)
(* "closeFirst" adapter is suspended on it, or after one has raised; with  *)
(* every other adapter never, in no interleaving of get and close.         *)
NeverServesDeadPool ==
  cache # 0 /\ pool[cache] # "open" =>
    ClosesFirst /\ cache \in HeldBy("closing") \union faulted

(* A pool is closed by one task only, and is out of the cache by then,     *)
(* unless the adapter closes before it evicts.                             *)
ClosedByOne ==
  ~ClosesFirst =>
    /\ cache \notin HeldBy("closing")
    /\ \A t, u \in Working("closing") : held[t] = held[u] => t = u

(* No connection is lost or opened twice without a race or a failure: an   *)
(* open pool is the one the cache serves, and one whose closing has begun  *)
(* is still being closed, unless its creation overlapped another creation  *)
(* (or a close() that closes first), or was cut short itself.              *)
OpenPoolIsCached ==
  \A p \in Pools \ (contended \union faulted) :
    /\ pool[p] = "open" => cache = p
    /\ pool[p] = "closing" => p \in HeldBy("closing")

(* A pool that is being closed does not stay in the cache, so that the     *)
(* next operation creates a new one; only a close() that raised leaves it. *)
DeadPoolIsDropped ==
  \A p \in Pools :
    cache = p /\ pool[p] = "closing" ~> cache # p \/ p \in faulted
=============================================================================
