--------------------------- MODULE MCDbLifecycle ---------------------------
(***************************************************************************)
(* Two ports on one cache key, each a plugin with a table, a plugin        *)
(* without one or a repository, and two tasks, so that two lifecycle calls *)
(* or a call and an operation overlap.                                     *)
(***************************************************************************)
EXTENDS DbLifecycle, DbAdapters

CONSTANTS t1, t2, x1, x2

MCTasks == {t1, t2}

MCAdapters == {"postgres", "milvus", "dynamodb", "mongo", "chromadb"}
MCConnect == [a \in Adapters |-> DbAdapter[a].connect]
MCEvict == [a \in Adapters |-> DbAdapter[a].evict]
MCRepoFirst == {a \in Adapters : DbAdapter[a].plugin = "repositoryFirst"}
MCSwallows == {a \in Adapters : DbAdapter[a].shutdown = "swallows"}

MCPorts == {x1, x2}
MCKind == [x \in MCPorts |-> IF x = x1 THEN "plugin" ELSE "repository"]

(* For what the code says of one plugin of PostgreSQL.                     *)
MCPostgres == {"postgres"}
MCOnePort == {x1}
MCBare == [x \in MCOnePort |-> "bare"]
=============================================================================
