---------------------------- MODULE DbLifecycle ----------------------------
(***************************************************************************)
(* The lifecycle of a database adapter: plugins (plugin.py) and            *)
(* repositories (repository.py, registered themselves) whose settings give *)
(* the same cache key, on top of ConnectionCache.  Each call runs in one   *)
(* of Tasks; every step is a step of ConnectionCache joined with what the  *)
(* plugin does in it, or leaves the cache alone.                           *)
(*                                                                         *)
(* get_<adapter>() returns without suspending on a hit, so the plugin's    *)
(* get, the construction of its repository and the get of health() are one *)
(* step: "using" is the probe that health() awaits.  The second await of   *)
(* FalkorDB, _ensure_ready(), is folded into that probe.                   *)
(***************************************************************************)
EXTENDS ConnectionCache

CONSTANTS
  Ports,      \* the BasePort objects the registry drives
  Kind,       \* "plugin", "bare" (a plugin without table) or "repository"
  RepoFirst,  \* adapters whose plugin builds its repository before the pool
  Swallows,   \* adapters whose repository.shutdown() catches close()'s errors
  MaxInits    \* bound: calls of initialize() of one port

ASSUME LifecycleAssumption ==
  /\ Kind \in [Ports -> {"plugin", "bare", "repository"}]
  /\ RepoFirst \subseteq Adapters
  /\ Swallows \subseteq Adapters
  /\ MaxInits \in Nat \ {0}

VARIABLES
  status,  \* status[x]: self._status of a plugin
  repo,    \* ports that have a repository to close
  ready,   \* plugins that have been READY: their repository may be in use
  call,    \* call[t]: the lifecycle call t is in, <<>> for an operation
  inits,   \* inits[x]: calls of initialize()
  down,    \* history: ports whose shutdown() has ended
  late,    \* history: a call other than shutdown() ran next to or after one
  raised   \* history: ports whose shutdown() raised

ports == <<status, repo, ready, call, inits, down, late, raised>>
lvars == <<vars, ports>>

Statuses ==
  {"REGISTERED", "INITIALIZED", "READY", "FAILED", "STOPPING", "STOPPED"}
Calls == {<<>>} \union ({"initialize", "shutdown"} \X Ports)

PortsOK ==
  /\ TypeOK
  /\ status \in [Ports -> Statuses]
  /\ repo \subseteq Ports /\ ready \subseteq Ports
  /\ call \in [Tasks -> Calls]
  /\ inits \in [Ports -> 0 .. MaxInits]
  /\ down \subseteq Ports /\ raised \subseteq Ports
  /\ late \in BOOLEAN

IsPlugin(x) == Kind[x] # "repository"

(* Variant of PortsInit, for PortsOK: the status attribute is missing.     *)
PortsInitUnset ==
  /\ Init
  /\ status = [x \in Ports |-> "none"]
  /\ repo = {x \in Ports : ~IsPlugin(x)} /\ ready = {}
  /\ call = [t \in Tasks |-> <<>>] /\ inits = [x \in Ports |-> 0]
  /\ down = {} /\ late = FALSE /\ raised = {}

PortsInit ==
  /\ Init
  /\ status = [x \in Ports |-> "REGISTERED"]
  /\ repo = {x \in Ports : ~IsPlugin(x)} /\ ready = {}
  /\ call = [t \in Tasks |-> <<>>] /\ inits = [x \in Ports |-> 0]
  /\ down = {} /\ late = FALSE /\ raised = {}

SetStatus(x, s) ==
  status' = IF IsPlugin(x) THEN [status EXCEPT ![x] = s] ELSE status

(* The repository is built once get_<adapter>() has returned, or before.   *)
BuildRepo(x, returned) ==
  repo' = IF Kind[x] = "plugin" /\ (returned \/ adapter \in RepoFirst)
            THEN repo \union {x} ELSE repo

InShutdown(t) == call[t] # <<>> /\ call[t][1] = "shutdown"
StoppingBegun == down # {} \/ \E t \in Tasks : InShutdown(t)

OtherCallRuns == \E t \in Tasks : at[t] # "idle" /\ ~InShutdown(t)

-----------------------------------------------------------------------------
Get(t) == Hit(t) \/ \E p \in Pools : Miss(t, p) \/ CreateInline(t, p)

Initialize(t, x) ==
  /\ inits[x] < MaxInits
  /\ \A u \in Tasks : call[u] # <<"initialize", x>>
  /\ Get(t)
  /\ call' = [call EXCEPT ![t] = <<"initialize", x>>]
  /\ inits' = [inits EXCEPT ![x] = @ + 1]
  /\ SetStatus(x, "INITIALIZED")
  /\ BuildRepo(x, at'[t] = "using")
  /\ late' = (late \/ StoppingBegun)
  /\ UNCHANGED <<ready, down, raised>>

(* An operation or health(): of a plugin that is READY, or of a repository *)
(* the application has obtained and keeps, after shutdown() too.           *)
Use(t) ==
  /\ \E x \in Ports :
       \/ Kind[x] = "repository"
       \/ Kind[x] = "plugin" /\ x \in ready
       \/ Kind[x] = "bare" /\ status[x] = "READY"
  /\ Get(t)
  /\ late' = (late \/ StoppingBegun)
  /\ UNCHANGED <<status, repo, ready, call, inits, down, raised>>

PoolCreated(t) ==
  /\ Created(t)
  /\ IF call[t] = <<>> THEN UNCHANGED repo ELSE BuildRepo(call[t][2], TRUE)
  /\ UNCHANGED <<status, ready, call, inits, down, late, raised>>

(* initialize() raises: the except clause sets FAILED, but a cancellation  *)
(* is no Exception and passes it by.  A repository built before stays.     *)
InitializeFails(t, x) ==
  /\ call[t] = <<"initialize", x>>
  /\ CreateUndone(t) \/ CreateAbandoned(t) \/ UseEnds(t)
  /\ SetStatus(x, "FAILED") \/ UNCHANGED status
  /\ call' = [call EXCEPT ![t] = <<>>]
  /\ UNCHANGED <<repo, ready, inits, down, late, raised>>

(* The status is set whatever it has become since initialize() began.      *)
InitializeEnds(t, x) ==
  /\ call[t] = <<"initialize", x>>
  /\ UseEnds(t)
  /\ SetStatus(x, "READY")
  /\ ready' = IF IsPlugin(x) THEN ready \union {x} ELSE ready
  /\ call' = [call EXCEPT ![t] = <<>>]
  /\ UNCHANGED <<repo, inits, down, late, raised>>

UseReturns(t) ==
  /\ call[t] = <<>>
  /\ CreateUndone(t) \/ CreateAbandoned(t) \/ UseEnds(t)
  /\ UNCHANGED ports

-----------------------------------------------------------------------------
(* shutdown() closes the repository's pool, if there is a repository, the  *)
(* pool is cached and the adapter closes it at all.                        *)
HasWork(x) == x \in repo /\ cache # 0 /\ Evict[adapter] # "never"

ShutdownBegins(t, x) ==
  /\ HasWork(x)
  /\ CloseThenEvict(t) \/ EvictThenClose(t)
  /\ call' = [call EXCEPT ![t] = <<"shutdown", x>>]
  /\ SetStatus(x, "STOPPING")
  /\ late' = (late \/ OtherCallRuns)
  /\ UNCHANGED <<repo, ready, inits, down, raised>>

(* Variant of ShutdownAtOnce: a plugin whose initialize() failed has       *)
(* nothing to close.                                                       *)
ShutdownIfReady(t, x) ==
  /\ at[t] = "idle"
  /\ IF HasWork(x) /\ status[x] # "FAILED"
       THEN CloseInline(t)
       ELSE UNCHANGED vars
  /\ SetStatus(x, "STOPPED")
  /\ down' = down \union {x}
  /\ late' = (late \/ OtherCallRuns)
  /\ UNCHANGED <<repo, ready, call, inits, raised>>

(* Nothing to close, or a client that closes without suspending.           *)
ShutdownAtOnce(t, x) ==
  /\ at[t] = "idle"
  /\ IF HasWork(x) THEN CloseInline(t) ELSE UNCHANGED vars
  /\ SetStatus(x, "STOPPED")
  /\ down' = down \union {x}
  /\ late' = (late \/ OtherCallRuns)
  /\ UNCHANGED <<repo, ready, call, inits, raised>>

ShutdownEnds(t, x) ==
  /\ call[t] = <<"shutdown", x>>
  /\ Closed(t)
  /\ SetStatus(x, "STOPPED")
  /\ down' = down \union {x}
  /\ call' = [call EXCEPT ![t] = <<>>]
  /\ UNCHANGED <<repo, ready, inits, late, raised>>

(* Variant of CloseFails: no finally clause.                               *)
CloseFailsStopping(t, x) ==
  /\ call[t] = <<"shutdown", x>>
  /\ CloseRaises(t)
  /\ UNCHANGED status
  /\ down' = down \union {x}
  /\ call' = [call EXCEPT ![t] = <<>>]
  /\ UNCHANGED <<repo, ready, inits, late, raised>>

(* close() raised: a plugin logs it and is STOPPED all the same; shutdown()*)
(* of a repository lets it through unless the adapter catches it.          *)
CloseFails(t, x) ==
  /\ call[t] = <<"shutdown", x>>
  /\ CloseRaises(t)
  /\ SetStatus(x, "STOPPED")
  /\ down' = down \union {x}
  /\ raised' = IF IsPlugin(x) \/ adapter \in Swallows THEN raised
               ELSE raised \union {x}
  /\ call' = [call EXCEPT ![t] = <<>>]
  /\ UNCHANGED <<repo, ready, inits, late>>

-----------------------------------------------------------------------------
LifecycleNext ==
  \E t \in Tasks :
    \/ Use(t) \/ UseReturns(t) \/ PoolCreated(t)
    \/ \E x \in Ports :
         \/ Initialize(t, x) \/ InitializeFails(t, x) \/ InitializeEnds(t, x)
         \/ ShutdownBegins(t, x) \/ ShutdownAtOnce(t, x)
         \/ ShutdownEnds(t, x) \/ CloseFails(t, x)

LifecycleSpec == PortsInit /\ [][LifecycleNext]_lvars

(* Every awaited close() of a driver ends, by returning or by raising.     *)
FairLifecycle ==
  /\ LifecycleSpec
  /\ \A t \in Tasks :
       WF_lvars(\E x \in Ports : ShutdownEnds(t, x) \/ CloseFails(t, x))

-----------------------------------------------------------------------------
(* Properties                                                              *)

(* Connections that are open or being opened or closed, apart from those   *)
(* that ConnectionCache shows may be lost by a race or a failure.          *)
LivePools ==
  {p \in Pools \ (contended \union faulted) :
    pool[p] \in {"opening", "open", "closing"}}

Quiet == \A t \in Tasks : at[t] = "idle"

(* An orderly stop frees the connections: when shutdown() of a port that   *)
(* has a repository is called after every other call has ended, and no     *)
(* call follows, then no connection is left, whether initialize() had      *)
(* succeeded or not and whichever port had opened the pool.                *)
OrderlyStopFreesPools ==
  (down \intersect repo # {}) /\ ~late /\ Quiet /\ Evict[adapter] # "never"
    => LivePools = {}

(* A plugin that begins to stop is STOPPED in the end, also when close()   *)
(* raises.                                                                 *)
ShutdownSettles ==
  \A x \in Ports : status[x] = "STOPPING" ~> status[x] = "STOPPED"

(* What plugin.py says of shutdown(): it closes the connection pool and     *)
(* never raises.  (The plugin was stopped in order.)                       *)
PluginShutdownClosesPool ==
  /\ down # {} /\ ~late /\ Quiet => LivePools = {}
  /\ ~\E x \in raised : IsPlugin(x)
=============================================================================
