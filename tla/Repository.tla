----------------------------- MODULE Repository -----------------------------
(***************************************************************************)
(* The operations of the repositories (repository.py) of the fourteen      *)
(* database adapters.  A call sends one or two statements and awaits the   *)
(* answer of each, while other calls, here or in another process, do the   *)
(* same.  Which statements, is all that distinguishes the adapters;        *)
(* RepositoryAdapters lists them.  A repository has no state of its own,   *)
(* except that FalkorDB and ChromaDB remember that a first call has made   *)
(* the unique constraint, or has looked up the collection.                 *)
(*                                                                         *)
(* The database (external) executes a statement at one moment; a multi-    *)
(* statement transaction that ends in commit() counts as one.  A scan is   *)
(* read in pieces.  A call that has raised leaves its statement behind,    *)
(* which may still be executed.                                            *)
(***************************************************************************)
EXTENDS Naturals, FiniteSetsExt, Sequences

CONSTANTS
  Adapters,
  Programs,       \* Programs[a][op]: the statements of an operation, <<>> if
                  \* it is not modelled
  Prepare,        \* Prepare[a]: what a repository does before its first
                  \* statement: "nothing", make a "constraint", or look up
                  \* a "collection" (that exists)
  Expiring,       \* Expiring[a]: the keys whose rows may have a time to live
  Nearest,        \* the number of entities a search() asks for
  Keys, Values, Absent,
  Calls,
  Repos,          \* the repository objects
  RepoOf,         \* RepoOf[c]: the one that call c is of
  Requests,       \* Requests[c]: what call c may be asked for
  Impatient,      \* bound: the calls that may raise
  InitialTables   \* the tables the calls may find

Operations == {"get", "create", "update", "delete", "list", "search"}
Statements ==
  {"get", "check", "readBack", "insert", "put", "append", "change",
   "changeIfDifferent", "rewrite", "delete", "deleteUntil", "pageAndTotal",
   "page", "total", "scanPage", "scanTotal", "scanKeys", "fetchPage",
   "points", "search"}
Tables == [Keys -> Values \union {Absent}]

ASSUME RepositoryAssumption ==
  /\ Absent \notin Values
  /\ Programs \in [Adapters -> [Operations -> Seq(Statements)]]
  /\ Requests \in [Calls -> SUBSET [op : Operations, key : Keys, value : Values]]
  /\ InitialTables \subseteq Tables
  /\ Prepare \in [Adapters -> {"nothing", "constraint", "collection"}]
  /\ Expiring \in [Adapters -> SUBSET Keys]
  /\ Nearest \in Nat
  /\ RepoOf \in [Calls -> Repos]
  /\ Impatient \subseteq Calls
  /\ IsFiniteSet(Keys) /\ IsFiniteSet(Calls)

(* The statements that go together: update() and delete() both look the    *)
(* row up first, or neither does; an adapter that keeps points (InfluxDB)  *)
(* does so in every operation; one that reads back what it has inserted    *)
(* (MongoDB) deletes without looking.                                      *)
Fits(p) ==
  /\ p["get"] = <<"get">>
  /\ p["create"] \in
       {<<"insert">>, <<"insert", "readBack">>, <<"put">>, <<"append">>}
  /\ \/ /\ p["update"] \in {<<"change">>, <<"changeIfDifferent">>}
        /\ p["delete"] = <<"delete">>
     \/ /\ p["update"] \in {<<"check", "put">>, <<"check", "change">>}
        /\ p["delete"] = <<"check", "delete">>
     \/ /\ p["update"] = <<"check", "rewrite">>
        /\ p["delete"] = <<"check", "deleteUntil">>
  /\ p["list"] \in
       {<<"pageAndTotal">>, <<"page", "total">>, <<"points">>,
        <<"scanPage", "scanTotal">>, <<"scanKeys", "fetchPage">>}
  /\ p["search"] \in {<<>>, <<"search">>}
  /\ p["create"] = <<"append">> <=> p["update"] = <<"check", "rewrite">>
  /\ p["create"] = <<"append">> <=> p["list"] = <<"points">>
  /\ p["create"] = <<"insert", "readBack">> => p["delete"] = <<"delete">>

(* The rows of those two do not expire.                                    *)
ASSUME ProgramsAssumption ==
  \A a \in Adapters :
    /\ Fits(Programs[a])
    /\ Expiring[a] # {} => Programs[a]["create"] \in {<<"insert">>, <<"put">>}

VARIABLES
  adapter,  \* chosen once
  table,    \* the entity of each key, or Absent
  clock,    \* InfluxDB: number of points written with the time of writing
  points,   \* points[k]: the times of the points of k
  made,     \* FalkorDB: the unique constraint on the id exists
  ensured,  \* repositories that have done what Prepare says
  prep,     \* prep[c]: "none", or a call has "sent" for that, or it is "made"
  request,  \* request[c]: what call c was asked for
  pc,       \* pc[c]: the statement it has sent, 0 before the call
  reply,    \* reply[c]: what the database has answered to it, or "none"
  told,     \* told[c]: "no", "yes", "raised" or "builtin"
  local,    \* local[c]: what the call has read so far
  window    \* history: window[c], the tables there were during the call

database == <<table, clock, points, made>>
preparation == <<ensured, prep>>
vars ==
  <<adapter, database, preparation, request, pc, reply, told, local, window>>

NoRequest == [op |-> "none", key |-> Absent, value |-> Absent]
Nothing == [value |-> Absent, page |-> {}, total |-> 0, todo |-> {}, stamp |-> 0]
Rows(t) == {k \in Keys : t[k] # Absent}
Latest(k) == IF points[k] = {} THEN 0 ELSE Max(points[k])

TypeOK ==
  /\ adapter \in Adapters
  /\ table \in Tables
  /\ clock \in 0 .. Cardinality(Calls)
  /\ points \in [Keys -> SUBSET (0 .. clock)]
  /\ made \in BOOLEAN /\ ensured \subseteq Repos
  /\ prep \in [Calls -> {"none", "sent", "made"}]
  /\ request \in [Calls -> [op : Operations, key : Keys, value : Values]
                          \union {NoRequest}]
  /\ \A c \in Calls : request[c] \in Requests[c] \union {NoRequest}
  /\ pc \in [Calls -> 0 .. 2]
  /\ reply \in [Calls -> {"none", "done", "missing", "exists"}]
  /\ told \in [Calls -> {"no", "yes", "raised", "builtin"}]
  /\ local \in [Calls ->
       [value : Values \union {Absent}, page : SUBSET Keys,
        total : 0 .. Cardinality(Keys) + Cardinality(Calls),
        todo : SUBSET Keys, stamp : 0 .. clock]]
  /\ window \in [Calls -> SUBSET Tables]

Init ==
  /\ adapter \in Adapters /\ table \in InitialTables
  /\ clock = 0
  /\ points = [k \in Keys |-> IF table[k] = Absent THEN {} ELSE {0}]
  /\ made \in BOOLEAN /\ (Prepare[adapter] # "constraint" => made)
  /\ ensured = {} /\ prep = [c \in Calls |-> "none"]
  /\ request = [c \in Calls |-> NoRequest] /\ pc = [c \in Calls |-> 0]
  /\ reply = [c \in Calls |-> "none"] /\ told = [c \in Calls |-> "no"]
  /\ local = [c \in Calls |-> Nothing] /\ window = [c \in Calls |-> {}]

Open(c) == pc[c] # 0 /\ told[c] = "no"

Program(c) == Programs[adapter][request[c].op]
Statement(c) == Program(c)[pc[c]]
Runs(c, S) ==
  /\ pc[c] # 0 /\ prep[c] = "none" /\ reply[c] = "none"
  /\ Statement(c) \in S
Reads(c, S) == Runs(c, S) /\ Open(c)

Row(c) == table[request[c].key]

-----------------------------------------------------------------------------
(* The caller's side                                                       *)

Ask(c, r) ==
  /\ pc[c] = 0 /\ Programs[adapter][r.op] # <<>>
  /\ request' = [request EXCEPT ![c] = r]
  /\ pc' = [pc EXCEPT ![c] = 1]
  /\ local' = [local EXCEPT ![c].todo = Keys]
  /\ window' = [window EXCEPT ![c] = {table}]
  /\ UNCHANGED <<adapter, database, reply, told>>

Prepared(c) == Prepare[adapter] = "nothing" \/ RepoOf[c] \in ensured

(* Variant of Begin: the repository is marked before the answer is there,  *)
(* so that its next call does not wait.                                    *)
BeginMarked(c, r) ==
  /\ Ask(c, r)
  /\ prep' = [prep EXCEPT ![c] = IF Prepared(c) THEN @ ELSE "sent"]
  /\ ensured' = IF Prepared(c) THEN ensured ELSE ensured \union {RepoOf[c]}

(* A call of a repository that is not prepared prepares it first; several  *)
(* may do so at a time.                                                    *)
Begin(c, r) ==
  /\ Ask(c, r)
  /\ prep' = [prep EXCEPT ![c] = IF Prepared(c) THEN @ ELSE "sent"]
  /\ UNCHANGED ensured

(* The database makes the constraint, or finds it there already, which the *)
(* adapter takes for success; also when the caller has given up.           *)
MakeConstraint(c) ==
  /\ prep[c] = "sent"
  /\ prep' = [prep EXCEPT ![c] = "made"]
  /\ made' = TRUE
  /\ UNCHANGED <<adapter, table, clock, points, ensured, request, pc, reply,
                 told, local, window>>

Ensured(c) ==
  /\ Open(c) /\ prep[c] = "made"
  /\ prep' = [prep EXCEPT ![c] = "none"]
  /\ ensured' = ensured \union {RepoOf[c]}
  /\ UNCHANGED <<adapter, database, request, pc, reply, told, local, window>>

(* Variant of SendNext: the answer of the check is ignored.                *)
SendAnyway(c) ==
  /\ Open(c) /\ reply[c] # "none" /\ pc[c] < Len(Program(c))
  /\ pc' = [pc EXCEPT ![c] = @ + 1]
  /\ reply' = [reply EXCEPT ![c] = "none"]
  /\ local' = [local EXCEPT ![c].todo = Keys, ![c].stamp = clock]
  /\ UNCHANGED <<adapter, database, preparation, request, told, window>>

(* The first answer is good.  delete() of InfluxDB reads the time only now.*)
SendNext(c) ==
  /\ Open(c) /\ reply[c] = "done" /\ pc[c] < Len(Program(c))
  /\ pc' = [pc EXCEPT ![c] = @ + 1]
  /\ reply' = [reply EXCEPT ![c] = "none"]
  /\ local' = [local EXCEPT ![c].todo = Keys,
                 ![c].stamp = IF request[c].op = "delete" THEN clock ELSE @]
  /\ UNCHANGED <<adapter, database, preparation, request, told, window>>

LostReadBack(c) == Statement(c) = "readBack" /\ reply[c] = "missing"

Return(c) ==
  /\ Open(c) /\ reply[c] # "none" /\ ~LostReadBack(c)
  /\ reply[c] = "done" => pc[c] = Len(Program(c))
  /\ told' = [told EXCEPT ![c] = "yes"]
  /\ window' = [window EXCEPT ![c] = {}]
  /\ UNCHANGED <<adapter, database, preparation, request, pc, reply, local>>

(* create() of MongoDB passes the document it has read back to dict(), and *)
(* that is None if somebody has deleted it.                                *)
FailReadBack(c) ==
  /\ Open(c) /\ reply[c] # "none" /\ LostReadBack(c)
  /\ told' = [told EXCEPT ![c] = "builtin"]
  /\ UNCHANGED <<adapter, database, preparation, request, pc, reply, local,
                 window>>

(* operation_timeout, a lost connection, a cancellation.                   *)
Raise(c) ==
  /\ Open(c) /\ c \in Impatient
  /\ told' = [told EXCEPT ![c] = "raised"]
  /\ UNCHANGED <<adapter, database, preparation, request, pc, reply, local,
                 window>>

-----------------------------------------------------------------------------
(* The database's side: one row                                            *)

Answer(c, r) ==
  /\ reply' = [reply EXCEPT ![c] = r]
  /\ UNCHANGED <<adapter, preparation, request, pc, told>>

Become(t) ==
  /\ table' = t
  /\ window' = [c \in Calls |-> IF Open(c) THEN window[c] \union {t}
                                ELSE window[c]]

Write(c) == Become([table EXCEPT ![request[c].key] = request[c].value])
Remove(c) == Become([table EXCEPT ![request[c].key] = Absent])
Leave == UNCHANGED <<table, window>>

Get(c) ==
  /\ Reads(c, {"get"})
  /\ Answer(c, "done")
  /\ local' = [local EXCEPT ![c].value = Row(c)]
  /\ UNCHANGED <<database, window>>

(* The look-up before an update or a delete, or after an insert.           *)
LookUp(c) ==
  /\ Reads(c, {"check", "readBack"})
  /\ Answer(c, IF Row(c) = Absent THEN "missing" ELSE "done")
  /\ local' = [local EXCEPT ![c].stamp = Latest(request[c].key)]
  /\ UNCHANGED <<database, window>>

(* Variant of Insert: the statement is never awaited.                      *)
InsertForgotten(c) ==
  /\ Runs(c, {"insert"})
  /\ Answer(c, "done") /\ Leave
  /\ UNCHANGED <<clock, points, made, local>>

(* Without the constraint there would be two nodes of one id.              *)
Insert(c) ==
  /\ Runs(c, {"insert"})
  /\ IF Row(c) = Absent \/ ~made THEN Answer(c, "done") /\ Write(c)
                        ELSE Answer(c, "exists") /\ Leave
  /\ UNCHANGED <<clock, points, made, local>>

Put(c) ==
  /\ Runs(c, {"put"})
  /\ Answer(c, "done") /\ Write(c)
  /\ UNCHANGED <<clock, points, made, local>>

(* UPDATE of a row that exists; MySQL counts the rows it has changed.      *)
Change(c) ==
  /\ Runs(c, {"change", "changeIfDifferent"})
  /\ IF \/ Row(c) = Absent
        \/ Statement(c) = "changeIfDifferent" /\ Row(c) = request[c].value
       THEN Answer(c, "missing") /\ Leave
       ELSE Answer(c, "done") /\ Write(c)
  /\ UNCHANGED <<clock, points, made, local>>

Delete(c) ==
  /\ Runs(c, {"delete"})
  /\ IF Row(c) = Absent THEN Answer(c, "missing") /\ Leave
                        ELSE Answer(c, "done") /\ Remove(c)
  /\ UNCHANGED <<clock, points, made, local>>

(* InfluxDB: the row of an id is its latest point.                         *)
WritePoint(c) ==
  /\ Runs(c, {"append"})
  /\ Answer(c, "done") /\ Write(c)
  /\ clock' = clock + 1
  /\ points' = [points EXCEPT ![request[c].key] = @ \union {clock + 1}]
  /\ UNCHANGED <<made, local>>

(* The point that was looked up is written again, at its time: a point     *)
(* written since hides it.                                                 *)
Rewrite(c) ==
  LET k == request[c].key IN
  /\ Runs(c, {"rewrite"})
  /\ Answer(c, "done")
  /\ points' = [points EXCEPT ![k] = @ \union {local[c].stamp}]
  /\ IF Latest(k) > local[c].stamp THEN Leave ELSE Write(c)
  /\ UNCHANGED <<clock, made, local>>

(* The points up to the time the statement was sent.                       *)
DeleteUntil(c) ==
  LET k == request[c].key IN
  /\ Runs(c, {"deleteUntil"})
  /\ Answer(c, "done")
  /\ points' = [points EXCEPT ![k] = {n \in @ : n > local[c].stamp}]
  /\ IF Row(c) # Absent /\ points'[k] = {} THEN Remove(c) ELSE Leave
  /\ UNCHANGED <<clock, made, local>>

Expire(k) ==
  /\ k \in Expiring[adapter] /\ table[k] # Absent
  /\ Become([table EXCEPT ![k] = Absent])
  /\ UNCHANGED <<adapter, clock, points, made, preparation, request, pc, reply,
                 told, local>>

-----------------------------------------------------------------------------
(* The database's side: list(), with a limit above the size of the table   *)

ReadTable(c) ==
  /\ Reads(c, {"pageAndTotal", "page", "total"})
  /\ Answer(c, "done")
  /\ LET s == Statement(c) IN
       local' = [local EXCEPT
         ![c].page = IF s = "total" THEN @ ELSE Rows(table),
         ![c].total = IF s = "page" THEN @ ELSE Cardinality(Rows(table)),
         ![c].todo = {}]
  /\ UNCHANGED <<database, window>>

(* Variant of Scan: where the last piece ended is not passed on, so that   *)
(* the scan begins again.                                                  *)
ScanAgain(c, S) ==
  /\ Reads(c, {"scanPage", "scanTotal", "scanKeys"})
  /\ S # {} /\ S \subseteq local[c].todo
  /\ LET s == Statement(c)
         hits == S \intersect Rows(table)
     IN local' = [local EXCEPT
          ![c].page = IF s = "scanTotal" THEN @ ELSE @ \union hits,
          ![c].total = IF s = "scanPage" THEN @ ELSE @ + Cardinality(hits)]
  /\ IF S = local[c].todo THEN Answer(c, "done")
     ELSE UNCHANGED <<adapter, preparation, request, pc, told, reply>>
  /\ UNCHANGED <<database, window>>

(* One piece of a scan, of keys S: the rows, their number, or (Redis) the  *)
(* keys, whose number is the total.                                        *)
Scan(c, S) ==
  /\ Reads(c, {"scanPage", "scanTotal", "scanKeys"})
  /\ S # {} /\ S \subseteq local[c].todo
  /\ LET s == Statement(c)
         hits == S \intersect Rows(table)
     IN local' = [local EXCEPT
          ![c].page = IF s = "scanTotal" THEN @ ELSE @ \union hits,
          ![c].total = IF s = "scanPage" THEN @ ELSE @ + Cardinality(hits),
          ![c].todo = @ \ S]
  /\ IF local'[c].todo = {} THEN Answer(c, "done")
     ELSE UNCHANGED <<adapter, preparation, request, pc, told, reply>>
  /\ UNCHANGED <<database, window>>

(* MGET of the keys that were found; those gone since are dropped.         *)
FetchPage(c) ==
  /\ Reads(c, {"fetchPage"})
  /\ Answer(c, "done")
  /\ local' = [local EXCEPT ![c].page = @ \intersect Rows(table),
                            ![c].todo = {}]
  /\ UNCHANGED <<database, window>>

AllPoints == {p \in Keys \X (0 .. clock) : p[2] \in points[p[1]]}

(* InfluxDB: one query for all points, of which an entity has one for each *)
(* create(); the page is cut out of them, and their number is the total.   *)
ReadPoints(c) ==
  /\ Reads(c, {"points"})
  /\ Answer(c, "done")
  /\ local' = [local EXCEPT
       ![c].page = {k \in Keys : points[k] # {}},
       ![c].total = Cardinality(AllPoints),
       ![c].todo = {}]
  /\ UNCHANGED <<database, window>>

(* search() of the vector stores: the nearest entities, by an index that   *)
(* may miss some.                                                          *)
Search(c, S) ==
  /\ Reads(c, {"search"})
  /\ S \subseteq Rows(table) /\ Cardinality(S) <= Nearest
  /\ Answer(c, "done")
  /\ local' = [local EXCEPT ![c].page = S, ![c].todo = {}]
  /\ UNCHANGED <<database, window>>

-----------------------------------------------------------------------------
Next ==
  \/ \E c \in Calls :
       \/ \E r \in Requests[c] : Begin(c, r)
       \/ MakeConstraint(c) \/ Ensured(c)
       \/ SendNext(c) \/ Return(c) \/ FailReadBack(c) \/ Raise(c)
       \/ Get(c) \/ LookUp(c) \/ Insert(c) \/ Put(c) \/ Change(c) \/ Delete(c)
       \/ WritePoint(c) \/ Rewrite(c) \/ DeleteUntil(c)
       \/ ReadTable(c) \/ ReadPoints(c) \/ FetchPage(c)
       \/ \E S \in SUBSET Keys : Scan(c, S) \/ Search(c, S)
  \/ \E k \in Keys : Expire(k)

Spec == Init /\ [][Next]_vars

-----------------------------------------------------------------------------
(* Properties                                                              *)

(* How much of the promise of BaseRepository an adapter keeps, by the      *)
(* statements it sends.                                                    *)
Contract(a) ==
  [ exclusive |-> Programs[a]["create"][1] = "insert",
    atomic |-> Len(Programs[a]["update"]) = 1 /\ Len(Programs[a]["delete"]) = 1,
    snapshot |-> Programs[a]["list"][1] \in {"pageAndTotal", "points"},
    entities |-> Programs[a]["list"][1] # "points",
    faithful |-> Programs[a]["update"] # <<"changeIfDifferent">>,
    lasting |-> Expiring[a] = {} ]

(* What a call has decided: an update or delete that looks the row up has  *)
(* decided when that fails, or when the second statement is executed,      *)
(* whatever its answer; list() when it has read all.                       *)
Decided(c) ==
  CASE pc[c] = 0 -> "none"
    [] request[c].op = "create" /\ pc[c] = 2 -> "done"
    [] request[c].op \in {"update", "delete"} /\ pc[c] = 2 ->
         IF reply[c] = "none" THEN "none" ELSE "done"
    [] pc[c] < Len(Program(c)) /\ request[c].op # "create" ->
         IF reply[c] = "done" THEN "none" ELSE reply[c]
    [] OTHER -> reply[c]

decision ==
  [c \in Calls |->
    IF Decided(c) = "none"
      THEN [tag |-> "none", value |-> Absent, page |-> {}, total |-> 0]
      ELSE [tag |-> Decided(c), value |-> local[c].value,
            page |-> local[c].page, total |-> local[c].total]]

heard ==
  [c \in Calls |-> IF told[c] = "builtin" THEN "raised" ELSE told[c]]

Promised == INSTANCE EntityStore WITH
  contract <- Contract(adapter), reply <- decision, told <- heard

(* Every call of every adapter acts as EntityStore says under the contract *)
(* of that adapter, in all interleavings, with timeouts and late effects.  *)
ImplementsEntityStore == Promised!Spec

(* create() ends in a built-in error only if the document it inserted has  *)
(* been deleted by a delete() before it was read back.                     *)
LostBeforeReadBack ==
  \A c \in Calls :
    told[c] = "builtin" =>
      \E d \in Calls : /\ request[d].op = "delete"
                       /\ request[d].key = request[c].key
                       /\ reply[d] = "done"

(* FalkorDB: once a repository takes the unique constraint for granted, or *)
(* one of its calls has a statement under way, the database does have it.  *)
EnsuredIsMade ==
  (ensured # {} \/ \E c \in Calls : Open(c) /\ prep[c] = "none") => made
=============================================================================
