---------------------- MODULE ConnectionSettingsProofs ----------------------
(***************************************************************************)
(* Theorems about ConnectionSettings for any tasks, any number of pools,   *)
(* and any of the fourteen adapters, whichever way each of them creates    *)
(* and evicts its pool.                                                    *)
(*                                                                         *)
(* SettingsUsesCache carries the theorems of ConnectionCacheProofs over to *)
(* tasks that ask with settings of their own.                              *)
(***************************************************************************)
EXTENDS ConnectionSettings, ConnectionCacheProofs

(* The settings differ in a field that is not part of the cache key.       *)
DiffersOffKey ==
  differs \in (CallFields \union ClientFields[adapter]) \ KeyFields[adapter]

(* A pool that was created was created from the settings of a task.        *)
BuiltForATask ==
  \A p \in Pools : pool[p] # "absent" =>
    \E t \in Tasks : asks[t] # 0 /\ built[p] = asks[t]

(* The inductive invariant.                                                *)
SettingsInv ==
  /\ IInv /\ DiffersOffKey /\ BuiltForATask
  /\ built = [p \in Pools |-> built[p]]

-----------------------------------------------------------------------------
(* A client is built from fields of the cache key, the password of         *)
(* Cassandra apart: a pool found by key is the pool the settings describe. *)
THEOREM KeyCoversClient ==
  \A a \in DOMAIN KeyFields :
    ClientFields[a] \subseteq KeyFields[a] \union {"cassandra_password"}
  <1>0. DOMAIN KeyFields =
          {"postgres", "cockroachdb", "mysql", "mariadb", "oracle",
           "cassandra", "milvus", "qdrant", "influxdb", "redis", "falkordb",
           "dynamodb", "mongo", "chromadb"}
    BY DEF KeyFields
  <1>1. ClientFields["postgres"] \subseteq
          KeyFields["postgres"] \union {"cassandra_password"}
    BY DEF ClientFields, KeyFields, PostgresClient, PostgresKey
  <1>2. ClientFields["cockroachdb"] \subseteq
          KeyFields["cockroachdb"] \union {"cassandra_password"}
    BY DEF ClientFields, KeyFields, CockroachDBClient, CockroachDBKey
  <1>3. ClientFields["mysql"] \subseteq
          KeyFields["mysql"] \union {"cassandra_password"}
    BY DEF ClientFields, KeyFields, MySQLClient, MySQLKey
  <1>4. ClientFields["mariadb"] \subseteq
          KeyFields["mariadb"] \union {"cassandra_password"}
    BY DEF ClientFields, KeyFields, MariaDBClient, MariaDBKey
  <1>5. ClientFields["oracle"] \subseteq
          KeyFields["oracle"] \union {"cassandra_password"}
    BY DEF ClientFields, KeyFields, OracleClient, OracleKey
  <1>6. ClientFields["cassandra"] \subseteq
          KeyFields["cassandra"] \union {"cassandra_password"}
    BY DEF ClientFields, KeyFields, CassandraClient, CassandraKey
  <1>7. ClientFields["milvus"] \subseteq
          KeyFields["milvus"] \union {"cassandra_password"}
    BY DEF ClientFields, KeyFields, MilvusClient, MilvusKey
  <1>8. ClientFields["qdrant"] \subseteq
          KeyFields["qdrant"] \union {"cassandra_password"}
    BY DEF ClientFields, KeyFields, QdrantClient, QdrantKey
  <1>9. ClientFields["influxdb"] \subseteq
          KeyFields["influxdb"] \union {"cassandra_password"}
    BY DEF ClientFields, KeyFields, InfluxDBClient, InfluxDBKey
  <1>10. ClientFields["redis"] \subseteq
          KeyFields["redis"] \union {"cassandra_password"}
    BY DEF ClientFields, KeyFields, RedisClient, RedisKey
  <1>11. ClientFields["falkordb"] \subseteq
          KeyFields["falkordb"] \union {"cassandra_password"}
    BY DEF ClientFields, KeyFields, FalkorDBClient, FalkorDBKey
  <1>12. ClientFields["dynamodb"] \subseteq
          KeyFields["dynamodb"] \union {"cassandra_password"}
    BY DEF ClientFields, KeyFields, DynamoDBClient, DynamoDBKey
  <1>13. ClientFields["mongo"] \subseteq
          KeyFields["mongo"] \union {"cassandra_password"}
    BY DEF ClientFields, KeyFields, MongoClient, MongoKey
  <1>14. ClientFields["chromadb"] \subseteq
          KeyFields["chromadb"] \union {"cassandra_password"}
    BY DEF ClientFields, KeyFields, ChromaDBClient, ChromaDBKey
  <1> QED
    BY <1>0, <1>1, <1>2, <1>3, <1>4, <1>5, <1>6, <1>7, <1>8,
       <1>9, <1>10, <1>11, <1>12, <1>13, <1>14

-----------------------------------------------------------------------------
(* It holds at the start: nothing is created.                              *)
LEMMA InitSettings == SettingsInit => SettingsInv
  BY InitIInv DEF SettingsInit, Init, SettingsInv, DiffersOffKey,
     BuiltForATask, Pools

(* A step of a task is one of ConnectionCache, for the same adapter.       *)
LEMMA StepIsOfCache ==
  ASSUME [SettingsNext]_svars
  PROVE  /\ [Next]_vars
         /\ UNCHANGED <<adapter, asks, differs>>
  <1>1. ASSUME NEW t \in Tasks, SettingsStep(t)
        PROVE  Next /\ UNCHANGED <<adapter, asks, differs>>
    <2>1. Next /\ UNCHANGED <<asks, differs>>
      BY <1>1 DEF SettingsStep, Next
    <2>2. adapter' = adapter
      BY <1>1 DEF SettingsStep, Step, Hit, Created, CreateUndone,
         CreateAbandoned, Miss, CreateInline, UseEnds, CloseThenEvict,
         EvictThenClose, CloseInline, Closed, CloseRaises
    <2> QED
      BY <2>1, <2>2
  <1>2. CASE UNCHANGED svars
    BY <1>2 DEF svars, vars
  <1> QED
    BY <1>1, <1>2 DEF SettingsNext

(* Every step keeps it: a pool comes to be only by the step of a task that *)
(* asked.                                                                  *)
LEMMA NextSettings ==
  ASSUME SettingsInv, [SettingsNext]_svars
  PROVE  SettingsInv'
  <1>1. IInv' /\ DiffersOffKey'
    BY StepIsOfCache, IInvStep DEF SettingsInv, DiffersOffKey
  <1>2. BuiltForATask' /\ built' = [p \in Pools |-> built'[p]]
    <2>1. ASSUME NEW t \in Tasks, SettingsStep(t)
          PROVE  BuiltForATask' /\ built' = [p \in Pools |-> built'[p]]
      BY <2>1 DEF SettingsInv, BuiltForATask, SettingsStep, Pools
    <2>2. CASE UNCHANGED svars
      BY <2>2 DEF SettingsInv, BuiltForATask, Pools, svars, vars
    <2> QED
      BY <2>1, <2>2 DEF SettingsNext
  <1> QED
    BY <1>1, <1>2 DEF SettingsInv

(* The invariant the next theorems rest on.                                *)
THEOREM SettingsInvariance == SettingsSpec => []SettingsInv
  BY InitSettings, NextSettings, PTL DEF SettingsSpec

(* Tasks with settings of their own do nothing to the cache that           *)
(* ConnectionCache does not: what is proved of it holds for them.          *)
THEOREM SettingsUsesCache == SettingsSpec => Spec
  <1>1. SettingsInit => Init
    BY DEF SettingsInit
  <1>2. [SettingsNext]_svars => [Next]_vars
    BY StepIsOfCache
  <1> QED
    BY <1>1, <1>2, PTL DEF SettingsSpec, Spec

(* A task works on a pool that is built as its own settings would build    *)
(* it, whoever created it and whatever was closed and created since, for   *)
(* settings that differ in any field but the password of Cassandra.        *)
THEOREM ServedAsAsked == SettingsSpec => []ServedAsConfigured
  <1>1. SettingsInv => ServedAsConfigured
    <2> SUFFICES ASSUME SettingsInv, differs # "cassandra_password"
                 PROVE  GotItsOwn
      BY DEF ServedAsConfigured
    <2>1. adapter \in DOMAIN KeyFields
      BY SettingsAssumption DEF SettingsInv, IInv, TypeOK
    <2>2. differs \notin ClientFields[adapter]
      BY <2>1, KeyCoversClient DEF SettingsInv, DiffersOffKey
    <2> QED
      BY <2>2 DEF GotItsOwn, Alike
  <1> QED
    BY <1>1, SettingsInvariance, PTL

(* And it is a pool that some task did ask for.                            *)
THEOREM SomebodyAskedForIt ==
  SettingsSpec => [](\A t \in Tasks : at[t] = "using" =>
                       \E u \in Tasks : /\ asks[u] # 0
                                        /\ built[held[t]] = asks[u])
  <1> DEFINE Asked == \A t \in Tasks : at[t] = "using" =>
                        \E u \in Tasks : /\ asks[u] # 0
                                         /\ built[held[t]] = asks[u]
  <1>1. SettingsInv => Asked
    <2> SUFFICES ASSUME SettingsInv, NEW t \in Tasks, at[t] = "using"
                 PROVE  \E u \in Tasks : /\ asks[u] # 0
                                         /\ built[held[t]] = asks[u]
      OBVIOUS
    <2>1. held[t] \in Pools /\ pool[held[t]] # "absent"
      BY WorksOnPool DEF SettingsInv, IInv, OneOwner
    <2> QED
      BY <2>1 DEF SettingsInv, BuiltForATask
  <1> QED
    BY <1>1, SettingsInvariance, PTL
=============================================================================
