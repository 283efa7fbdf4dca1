----------------------------- MODULE DbAdapters -----------------------------
(***************************************************************************)
(* What distinguishes the fourteen database adapters: how get_<adapter>()  *)
(* creates the pool, session or client (connection.py), how close() of the *)
(* repository evicts it, whether shutdown() of the repository catches what *)
(* close() raises (repository.py), and how the plugin uses the two         *)
(* (plugin.py).                                                            *)
(***************************************************************************)

(* See ConnectKinds of ConnectionCache.                                    *)
PostgresConnect == "driver"
CockroachDBConnect == "driver"
MySQLConnect == "driver"
MariaDBConnect == "driver"
OracleConnect == "driver"
CassandraConnect == "executor"
MilvusConnect == "probe"
QdrantConnect == "probe"
InfluxDBConnect == "guarded"
RedisConnect == "probe"
FalkorDBConnect == "probe"
DynamoDBConnect == "driver"
MongoConnect == "inline"
ChromaDBConnect == "driver"

(* See EvictKinds of ConnectionCache.                                      *)
PostgresEvict == "closeFirst"
CockroachDBEvict == "closeFirst"
MySQLEvict == "closeFirst"
MariaDBEvict == "closeFirst"
OracleEvict == "closeFirst"
CassandraEvict == "closeFirst"
MilvusEvict == "closeFirst"
QdrantEvict == "closeFirst"
InfluxDBEvict == "closeFirst"
RedisEvict == "popFirst"
FalkorDBEvict == "popFirst"
DynamoDBEvict == "popFirst"
MongoEvict == "inline"
ChromaDBEvict == "never"

(* BasePort of the repository: initialize() gets the pool and probes it,   *)
(* shutdown() is close(); three catch what it raises.                      *)
PostgresShutdown == "raises"
CockroachDBShutdown == "raises"
MySQLShutdown == "raises"
MariaDBShutdown == "raises"
OracleShutdown == "raises"
CassandraShutdown == "swallows"
MilvusShutdown == "swallows"
QdrantShutdown == "swallows"
InfluxDBShutdown == "raises"
RedisShutdown == "raises"
FalkorDBShutdown == "raises"
DynamoDBShutdown == "raises"
MongoShutdown == "raises"
ChromaDBShutdown == "raises"

(* "tableOptional":   gets the pool, then builds a repository if a table,  *)
(*                    collection or measurement was given                  *)
(* "repository":      gets the client, then builds the repository          *)
(* "repositoryFirst": builds the repository, which gets the client         *)
PostgresPlugin == "tableOptional"
CockroachDBPlugin == "tableOptional"
MySQLPlugin == "tableOptional"
MariaDBPlugin == "tableOptional"
OraclePlugin == "tableOptional"
CassandraPlugin == "tableOptional"
MilvusPlugin == "tableOptional"
QdrantPlugin == "tableOptional"
InfluxDBPlugin == "tableOptional"
RedisPlugin == "repository"
FalkorDBPlugin == "repository"
DynamoDBPlugin == "repository"
MongoPlugin == "repository"
ChromaDBPlugin == "repositoryFirst"

Traits(connect, evict, shutdown, plugin) ==
  [connect |-> connect, evict |-> evict, shutdown |-> shutdown, plugin |-> plugin]

DbAdapter ==
  [ postgres |->
      Traits(PostgresConnect, PostgresEvict, PostgresShutdown, PostgresPlugin),
    cockroachdb |->
      Traits(CockroachDBConnect, CockroachDBEvict, CockroachDBShutdown, CockroachDBPlugin),
    mysql |->
      Traits(MySQLConnect, MySQLEvict, MySQLShutdown, MySQLPlugin),
    mariadb |->
      Traits(MariaDBConnect, MariaDBEvict, MariaDBShutdown, MariaDBPlugin),
    oracle |->
      Traits(OracleConnect, OracleEvict, OracleShutdown, OraclePlugin),
    cassandra |->
      Traits(CassandraConnect, CassandraEvict, CassandraShutdown, CassandraPlugin),
    milvus |->
      Traits(MilvusConnect, MilvusEvict, MilvusShutdown, MilvusPlugin),
    qdrant |->
      Traits(QdrantConnect, QdrantEvict, QdrantShutdown, QdrantPlugin),
    influxdb |->
      Traits(InfluxDBConnect, InfluxDBEvict, InfluxDBShutdown, InfluxDBPlugin),
    redis |->
      Traits(RedisConnect, RedisEvict, RedisShutdown, RedisPlugin),
    falkordb |->
      Traits(FalkorDBConnect, FalkorDBEvict, FalkorDBShutdown, FalkorDBPlugin),
    dynamodb |->
      Traits(DynamoDBConnect, DynamoDBEvict, DynamoDBShutdown, DynamoDBPlugin),
    mongo |->
      Traits(MongoConnect, MongoEvict, MongoShutdown, MongoPlugin),
    chromadb |->
      Traits(ChromaDBConnect, ChromaDBEvict, ChromaDBShutdown, ChromaDBPlugin) ]
=============================================================================
