---------------------------- MODULE MCRepository ----------------------------
(***************************************************************************)
(* One adapter of each kind, three calls over two keys: a list() that two  *)
(* writers overlap, or an update that a delete and a create overtake.  The *)
(* entity v1 lets an update leave the row as it is.  Two of the calls are  *)
(* of one repository object.                                               *)
(***************************************************************************)
EXTENDS Repository, RepositoryAdapters

CONSTANTS k1, k2, v1, v2, c1, c2, c3, r1, r2

MCAdapters ==
  {"postgres", "mysql", "cassandra", "chromadb", "influxdb", "redis",
   "falkordb", "dynamodb", "mongo"}
MCPrograms == [a \in Adapters |-> RepositoryPrograms[a]]
MCPrepare == [a \in Adapters |-> RepositoryPrepare(a)]
MCExpiring == [a \in Adapters |-> IF a = "redis" THEN {k1} ELSE {}]
MCKeys == {k1, k2}
MCValues == {v1, v2}
MCCalls == {c1, c2, c3}
MCRepos == {r1, r2}
MCRepoOf == [c \in MCCalls |-> IF c = c3 THEN r2 ELSE r1]
Request(op, k, v) == [op |-> op, key |-> k, value |-> v]
MCRequests ==
  [c \in MCCalls |->
    CASE c = c1 -> {Request("list", k1, v1), Request("search", k1, v1),
                    Request("update", k1, v2), Request("delete", k2, v1)}
      [] c = c2 -> {Request("create", k2, v2), Request("update", k1, v1),
                    Request("delete", k1, v1)}
      [] c = c3 -> {Request("get", k1, v1), Request("create", k1, v1),
                    Request("create", k2, v1), Request("delete", k1, v1)}]
MCImpatient == {c2}
MCTables == {[k \in MCKeys |-> IF k = k1 THEN v1 ELSE Absent]}
=============================================================================
