--------------------------- MODULE SettingsFields ---------------------------
(***************************************************************************)
(* Two tables over the fields of each adapter's settings (connection.py):  *)
(* <Adapter>Key, the fields _cache_key() puts into the key of the cache,   *)
(* and <Adapter>Client, the fields the pool, session or client is built    *)
(* from.                                                                   *)
(***************************************************************************)

(* Variant of PostgresKey: the URL alone.                                  *)
PostgresKeyUrl == {"database_url"}

PostgresKey ==
  {"database_url", "pool_size", "pool_max_inactive_conn_lifetime",
   "pool_command_timeout", "pool_max_queries"}
PostgresClient ==
  {"database_url", "pool_size", "pool_max_inactive_conn_lifetime",
   "pool_command_timeout", "pool_max_queries"}

CockroachDBKey ==
  {"cockroachdb_url", "pool_size", "pool_max_inactive_conn_lifetime",
   "pool_command_timeout", "pool_max_queries"}
CockroachDBClient ==
  {"cockroachdb_url", "pool_size", "pool_max_inactive_conn_lifetime",
   "pool_command_timeout", "pool_max_queries"}

MySQLKey ==
  {"database_url", "pool_size", "pool_recycle", "pool_connect_timeout"}
MySQLClient ==
  {"database_url", "pool_size", "pool_recycle", "pool_connect_timeout"}

MariaDBKey ==
  {"database_url", "pool_size", "pool_recycle", "pool_connect_timeout"}
MariaDBClient ==
  {"database_url", "pool_size", "pool_recycle", "pool_connect_timeout"}

OracleKey ==
  {"oracle_dsn", "pool_min", "pool_max", "pool_increment", "pool_timeout"}
OracleClient ==
  {"oracle_dsn", "pool_min", "pool_max", "pool_increment", "pool_timeout"}

CassandraKey ==
  {"cassandra_contact_points", "cassandra_port", "cassandra_keyspace",
   "cassandra_username", "cassandra_local_dc", "cassandra_protocol_version",
   "cassandra_core_connections_per_host"}
CassandraClient ==
  {"cassandra_contact_points", "cassandra_port", "cassandra_keyspace",
   "cassandra_username", "cassandra_password", "cassandra_protocol_version",
   "cassandra_core_connections_per_host"}

MilvusKey ==
  {"milvus_uri", "milvus_token", "milvus_db_name"}
MilvusClient ==
  {"milvus_uri", "milvus_token", "milvus_db_name"}

QdrantKey ==
  {"qdrant_url", "qdrant_api_key", "qdrant_prefer_grpc", "qdrant_https"}
QdrantClient ==
  {"qdrant_url", "qdrant_api_key", "qdrant_prefer_grpc", "qdrant_https"}

InfluxDBKey ==
  {"influxdb_url", "influxdb_token", "influxdb_org", "client_timeout_ms"}
InfluxDBClient ==
  {"influxdb_url", "influxdb_token", "influxdb_org", "client_timeout_ms"}

RedisKey ==
  {"redis_url", "redis_max_connections", "redis_socket_timeout",
   "redis_socket_connect_timeout"}
RedisClient ==
  {"redis_url", "redis_max_connections", "redis_socket_timeout",
   "redis_socket_connect_timeout"}

FalkorDBKey ==
  {"falkordb_host", "falkordb_port", "falkordb_password", "falkordb_ssl",
   "falkordb_socket_timeout", "falkordb_socket_connect_timeout"}
FalkorDBClient ==
  {"falkordb_host", "falkordb_port", "falkordb_password", "falkordb_ssl",
   "falkordb_socket_timeout", "falkordb_socket_connect_timeout"}

DynamoDBKey ==
  {"aws_region", "endpoint_url", "dynamodb_table_name", "aws_access_key_id",
   "aws_secret_access_key", "aws_session_token"}
DynamoDBClient ==
  {"aws_region", "endpoint_url", "dynamodb_table_name", "aws_access_key_id",
   "aws_secret_access_key", "aws_session_token"}

MongoKey ==
  {"mongo_url", "mongo_min_pool_size", "mongo_max_pool_size",
   "mongo_server_selection_timeout_ms", "mongo_tls",
   "mongo_tls_allow_invalid_certs"}
MongoClient ==
  {"mongo_url", "mongo_min_pool_size", "mongo_max_pool_size",
   "mongo_server_selection_timeout_ms", "mongo_tls",
   "mongo_tls_allow_invalid_certs"}

ChromaDBKey ==
  {"chroma_host", "chroma_port", "chroma_ssl", "chroma_tenant",
   "chroma_database"}
ChromaDBClient ==
  {"chroma_host", "chroma_port", "chroma_ssl", "chroma_tenant",
   "chroma_database"}

KeyFields ==
  [ postgres |-> PostgresKey,
    cockroachdb |-> CockroachDBKey,
    mysql |-> MySQLKey,
    mariadb |-> MariaDBKey,
    oracle |-> OracleKey,
    cassandra |-> CassandraKey,
    milvus |-> MilvusKey,
    qdrant |-> QdrantKey,
    influxdb |-> InfluxDBKey,
    redis |-> RedisKey,
    falkordb |-> FalkorDBKey,
    dynamodb |-> DynamoDBKey,
    mongo |-> MongoKey,
    chromadb |-> ChromaDBKey ]

ClientFields ==
  [ postgres |-> PostgresClient,
    cockroachdb |-> CockroachDBClient,
    mysql |-> MySQLClient,
    mariadb |-> MariaDBClient,
    oracle |-> OracleClient,
    cassandra |-> CassandraClient,
    milvus |-> MilvusClient,
    qdrant |-> QdrantClient,
    influxdb |-> InfluxDBClient,
    redis |-> RedisClient,
    falkordb |-> FalkorDBClient,
    dynamodb |-> DynamoDBClient,
    mongo |-> MongoClient,
    chromadb |-> ChromaDBClient ]
=============================================================================
