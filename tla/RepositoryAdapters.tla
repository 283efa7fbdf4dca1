------------------------- MODULE RepositoryAdapters -------------------------
(***************************************************************************)
(* The statements that each operation of each repository (repository.py)   *)
(* sends, in their order: see Statements of Repository.                    *)
(***************************************************************************)

(* One read, of the id.  InfluxDB takes the latest point that carries it.  *)
PostgresGet == <<"get">>
CockroachDBGet == <<"get">>
MySQLGet == <<"get">>
MariaDBGet == <<"get">>
OracleGet == <<"get">>
CassandraGet == <<"get">>
MilvusGet == <<"get">>
QdrantGet == <<"get">>
InfluxDBGet == <<"get">>
RedisGet == <<"get">>
FalkorDBGet == <<"get">>
DynamoDBGet == <<"get">>
MongoGet == <<"get">>
ChromaDBGet == <<"get">>

(* "insert" fails on an id that exists, "put" writes over it; "append"     *)
(* (InfluxDB) writes a point of its own.  MongoDB reads the document back. *)
PostgresCreate == <<"insert">>
CockroachDBCreate == <<"insert">>
MySQLCreate == <<"insert">>
MariaDBCreate == <<"insert">>
OracleCreate == <<"insert">>
CassandraCreate == <<"put">>
MilvusCreate == <<"put">>
QdrantCreate == <<"put">>
InfluxDBCreate == <<"append">>
RedisCreate == <<"insert">>
FalkorDBCreate == <<"insert">>
DynamoDBCreate == <<"put">>
MongoCreate == <<"insert", "readBack">>
ChromaDBCreate == <<"insert">>

(* "change" touches a row that exists and says whether there was one;      *)
(* "changeIfDifferent": the number of rows is of those that were changed   *)
(* by it.  The others look the row up first.                               *)
PostgresUpdate == <<"change">>
CockroachDBUpdate == <<"change">>
MySQLUpdate == <<"changeIfDifferent">>
MariaDBUpdate == <<"changeIfDifferent">>
OracleUpdate == <<"change">>
CassandraUpdate == <<"check", "put">>
MilvusUpdate == <<"check", "put">>
QdrantUpdate == <<"check", "put">>
InfluxDBUpdate == <<"check", "rewrite">>
RedisUpdate == <<"change">>
FalkorDBUpdate == <<"change">>
DynamoDBUpdate == <<"change">>
MongoUpdate == <<"change">>
ChromaDBUpdate == <<"check", "change">>

PostgresDelete == <<"delete">>
CockroachDBDelete == <<"delete">>
MySQLDelete == <<"delete">>
MariaDBDelete == <<"delete">>
OracleDelete == <<"delete">>
CassandraDelete == <<"check", "delete">>
MilvusDelete == <<"check", "delete">>
QdrantDelete == <<"check", "delete">>
InfluxDBDelete == <<"check", "deleteUntil">>
RedisDelete == <<"delete">>
FalkorDBDelete == <<"delete">>
DynamoDBDelete == <<"delete">>
MongoDelete == <<"delete">>
ChromaDBDelete == <<"check", "delete">>

(* One transaction with one snapshot, two statements, or scans.  list() of *)
(* InfluxDB is one query of all points.                                    *)
PostgresList == <<"page", "total">>
CockroachDBList == <<"page", "total">>
MySQLList == <<"pageAndTotal">>
MariaDBList == <<"pageAndTotal">>
OracleList == <<"page", "total">>
CassandraList == <<"page", "total">>
MilvusList == <<"page", "total">>
QdrantList == <<"page", "total">>
InfluxDBList == <<"points">>
RedisList == <<"scanKeys", "fetchPage">>
FalkorDBList == <<"page", "total">>
DynamoDBList == <<"scanPage", "scanTotal">>
MongoList == <<"page", "total">>
ChromaDBList == <<"page", "total">>

(* The vector stores only.                                                 *)
NoSearch == <<>>
MilvusSearch == <<"search">>
QdrantSearch == <<"search">>
ChromaDBSearch == <<"search">>

(* What a repository object does before its first statement, and remembers *)
(* to have done.                                                           *)
FalkorDBPrepare == "constraint"
ChromaDBPrepare == "collection"

RepositoryPrepare(a) ==
  CASE a = "falkordb" -> FalkorDBPrepare
    [] a = "chromadb" -> ChromaDBPrepare
    [] OTHER -> "nothing"

Operation(get, create, update, delete, list, search) ==
  [get |-> get, create |-> create, update |-> update, delete |-> delete,
   list |-> list, search |-> search]

RepositoryPrograms ==
  [ postgres |->
      Operation(PostgresGet, PostgresCreate, PostgresUpdate, PostgresDelete,
                PostgresList, NoSearch),
    cockroachdb |->
      Operation(CockroachDBGet, CockroachDBCreate, CockroachDBUpdate, CockroachDBDelete,
                CockroachDBList, NoSearch),
    mysql |->
      Operation(MySQLGet, MySQLCreate, MySQLUpdate, MySQLDelete,
                MySQLList, NoSearch),
    mariadb |->
      Operation(MariaDBGet, MariaDBCreate, MariaDBUpdate, MariaDBDelete,
                MariaDBList, NoSearch),
    oracle |->
      Operation(OracleGet, OracleCreate, OracleUpdate, OracleDelete,
                OracleList, NoSearch),
    cassandra |->
      Operation(CassandraGet, CassandraCreate, CassandraUpdate, CassandraDelete,
                CassandraList, NoSearch),
    milvus |->
      Operation(MilvusGet, MilvusCreate, MilvusUpdate, MilvusDelete,
                MilvusList, MilvusSearch),
    qdrant |->
      Operation(QdrantGet, QdrantCreate, QdrantUpdate, QdrantDelete,
                QdrantList, QdrantSearch),
    influxdb |->
      Operation(InfluxDBGet, InfluxDBCreate, InfluxDBUpdate, InfluxDBDelete,
                InfluxDBList, NoSearch),
    redis |->
      Operation(RedisGet, RedisCreate, RedisUpdate, RedisDelete,
                RedisList, NoSearch),
    falkordb |->
      Operation(FalkorDBGet, FalkorDBCreate, FalkorDBUpdate, FalkorDBDelete,
                FalkorDBList, NoSearch),
    dynamodb |->
      Operation(DynamoDBGet, DynamoDBCreate, DynamoDBUpdate, DynamoDBDelete,
                DynamoDBList, NoSearch),
    mongo |->
      Operation(MongoGet, MongoCreate, MongoUpdate, MongoDelete,
                MongoList, NoSearch),
    chromadb |->
      Operation(ChromaDBGet, ChromaDBCreate, ChromaDBUpdate, ChromaDBDelete,
                ChromaDBList, ChromaDBSearch) ]
=============================================================================
