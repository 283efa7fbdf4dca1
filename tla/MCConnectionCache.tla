------------------------- MODULE MCConnectionCache -------------------------
(***************************************************************************)
(* Three tasks and three pools: enough for two closers of one pool and a   *)
(* creator, and for a second generation of pools after an eviction.  Two   *)
(* of the tasks are enough for settings that differ, and for an adapter    *)
(* that creates and evicts its pool as another one does.                   *)
(***************************************************************************)
EXTENDS ConnectionSettings, DbAdapters

CONSTANTS t1, t2, t3

MCAdapters == DOMAIN DbAdapter
MCConnect == [a \in MCAdapters |-> DbAdapter[a].connect]
MCEvict == [a \in MCAdapters |-> DbAdapter[a].evict]
MCTasks == {t1, t2, t3}
Differing ==
  [t \in MCTasks |-> CASE t = t1 -> 1 [] t = t2 -> 2 [] t = t3 -> 0]
Same == [t \in MCTasks |-> 1]
MCAskings ==
  [a \in MCAdapters |->
     IF a \in {"cockroachdb", "mysql", "mariadb", "oracle", "qdrant", "falkordb"}
       THEN {Differing} ELSE {Differing, Same}]
=============================================================================
