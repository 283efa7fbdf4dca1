-------------------------- MODULE RepositoryProofs --------------------------
(***************************************************************************)
(* Theorems about Repository for every adapter whose statements go         *)
(* together (ProgramsAssumption; ProgramsFit: those of the fourteen do),   *)
(* any finite set of keys and of calls, any values, requests, repositories *)
(* and tables, and any calls that may raise.                               *)
(*                                                                         *)
(* The steps of the database are treated alike: Executes says what any     *)
(* statement leaves alone, Does what it does, and each part of the         *)
(* invariant has a lemma of its own.  The parts that need an idea are      *)
(* FoundInv (the row a second statement relies on was there during the     *)
(* call), ListInv (what a scan has collected so far, between what stayed   *)
(* and what was seen), PointInv (a time belongs to one id, so an update()  *)
(* of InfluxDB adds no point to the total) and ReadBackInv.                *)
(***************************************************************************)
EXTENDS Repository, RepositoryAdapters, FiniteSetTheorems, TLAPS

(* The operation and the key of a call.                                    *)
Op(c) == request[c].op
Key(c) == request[c].key

(* InfluxDB, which keeps points, and MongoDB, which reads back what it has *)
(* inserted.                                                               *)
AppendsPoints == Programs[adapter]["create"] = <<"append">>
ReadsBack == Programs[adapter]["create"] = <<"insert", "readBack">>

(* A call that has begun has sent one of the statements of its operation.  *)
CallInv ==
  \A c \in Calls :
    /\ pc[c] = 0 <=> request[c] = NoRequest
    /\ pc[c] = 0 => reply[c] = "none" /\ told[c] = "no"
    /\ pc[c] # 0 => pc[c] \in 1 .. Len(Program(c))

(* The constraint is there once a repository, or a call of it, goes on.    *)
(* The last conjunct counts calls that have raised as well: their          *)
(* statement may still be executed.                                        *)
MadeInv ==
  /\ Prepare[adapter] # "constraint" => made
  /\ ensured # {} => made
  /\ \A c \in Calls : prep[c] = "made" => made
  /\ \A c \in Calls : pc[c] # 0 /\ prep[c] = "none" => made

(* A call reads only what its operation asks for.                          *)
LocalInv ==
  \A c \in Calls :
    /\ Op(c) # "get" => local[c].value = Absent
    /\ Op(c) \notin {"list", "search"} => local[c].page = {}
    /\ Op(c) # "list" => local[c].total = 0
    /\ pc[c] = 0 => local[c].stamp = 0

(* A call that waits has seen the table there is.                          *)
WindowInv == \A c \in Calls : Open(c) => table \in window[c]

(* The look-up of an update() or delete() has found the row, and its       *)
(* second statement is not executed yet.                                   *)
Found(c) ==
  /\ Op(c) \in {"update", "delete"} /\ Len(Program(c)) = 2
  /\ (pc[c] = 2 /\ reply[c] = "none") \/ (pc[c] = 1 /\ reply[c] = "done")

(* Then the row was there at a moment of the call.                         *)
FoundInv ==
  \A c \in Calls : Found(c) => \E t \in window[c] : t[Key(c)] # Absent

(* The rows that were there all the time, and at some time, of a call.     *)
Stayed(c) == {k \in Keys : \A t \in window[c] : t[k] # Absent}
Seen(c) == {k \in Keys : \E t \in window[c] : t[k] # Absent}

(* What a list() of two statements has still to read for its page, and for *)
(* its total.  A statement that reads all at once has everything left      *)
(* until it is executed; SCAN of Redis reads page and total together.      *)
PageRest(c) == IF pc[c] = 1 THEN local[c].todo ELSE {}
TotalRest(c) ==
  IF Statement(c) \in {"page", "scanPage"} THEN Keys
  ELSE IF Statement(c) = "fetchPage" THEN {} ELSE local[c].todo

(* A list() of two statements under way.                                   *)
Listing(c) == Open(c) /\ Op(c) = "list" /\ Len(Program(c)) = 2

(* It has all the rows that stayed and none that was never there, as far   *)
(* as it has read, and its total lies between their numbers.  A key is     *)
(* read once only, so a row that comes and goes is counted at most once.   *)
Lists(c) ==
  /\ Stayed(c) \ PageRest(c) \subseteq local[c].page
  /\ local[c].page \subseteq Seen(c)
  /\ Cardinality(Stayed(c) \ TotalRest(c)) <= local[c].total
  /\ local[c].total <= Cardinality(Seen(c) \ TotalRest(c))
  /\ reply[c] = "done" => local[c].todo = {}

(* Every list() of two statements is on its way to what EntityStore says.  *)
ListInv == \A c \in Calls : Listing(c) => Lists(c)

(* The times of the points of k, and those at which a call may write one.  *)
Mine(k) ==
  points[k] \union
    {local[c].stamp : c \in {d \in Calls : Op(d) = "update" /\ Key(d) = k}}

(* The calls of create() that are done.                                    *)
Created == {c \in Calls : Op(c) = "create" /\ reply[c] = "done"}

(* InfluxDB has a row of an id exactly when it has a point of it.          *)
RowsHavePoints == \A k \in Keys : table[k] = Absent <=> points[k] = {}

(* A time belongs to one id, except that of the rows there were before: so *)
(* the points of the table are the rows and at most one for each create(). *)
OwnTimes ==
  \A j, k \in Keys : \A n \in Mine(j) \intersect Mine(k) : j = k \/ n = 0

(* What InfluxDB keeps: points, times, and a clock that only create()      *)
(* advances.                                                               *)
PointInv ==
  AppendsPoints =>
    RowsHavePoints /\ OwnTimes /\ clock <= Cardinality(Created)

(* The others have no clock.                                               *)
ClockInv == ~AppendsPoints => clock = 0

(* A delete() of k has removed it.                                         *)
Deleted(k) ==
  \E d \in Calls : Op(d) = "delete" /\ Key(d) = k /\ reply[d] = "done"

(* The document that create() of MongoDB has inserted is there until a     *)
(* delete() removes it.  So if the read-back misses it, one has.           *)
ReadBack(c) ==
  /\ pc[c] = 2 \/ reply[c] = "done" =>
       table[Key(c)] # Absent \/ Deleted(Key(c))
  /\ pc[c] = 2 /\ reply[c] = "missing" => Deleted(Key(c))
  /\ told[c] = "builtin" => Deleted(Key(c))

(* It is the only call that ends in a built-in error.                      *)
Back(c) ==
  /\ ReadsBack /\ Op(c) = "create" => ReadBack(c)
  /\ told[c] = "builtin" => ReadsBack /\ Op(c) = "create"

(* Every call keeps this.                                                  *)
ReadBackInv == \A c \in Calls : Back(c)

-----------------------------------------------------------------------------
(* Programs                                                                *)

(* A call of op that is at the i-th of n statements.                       *)
At(c, op, i, n) == Op(c) = op /\ pc[c] = i /\ Len(Program(c)) = n

(* Where in which operation a statement stands.                            *)
LEMMA Places ==
  ASSUME TypeOK, CallInv, NEW c \in Calls, pc[c] # 0
  PROVE  LET s == Statement(c)
         IN /\ s = "get" => At(c, "get", 1, 1)
            /\ s = "check" => At(c, "update", 1, 2) \/ At(c, "delete", 1, 2)
            /\ s = "insert" => At(c, "create", 1, 1) \/ At(c, "create", 1, 2)
            /\ s = "readBack" => At(c, "create", 2, 2)
            /\ s = "put" => At(c, "create", 1, 1) \/ At(c, "update", 2, 2)
            /\ s = "append" => At(c, "create", 1, 1)
            /\ s = "change" => At(c, "update", 1, 1) \/ At(c, "update", 2, 2)
            /\ s = "changeIfDifferent" => At(c, "update", 1, 1)
            /\ s = "rewrite" => At(c, "update", 2, 2)
            /\ s = "delete" => At(c, "delete", 1, 1) \/ At(c, "delete", 2, 2)
            /\ s = "deleteUntil" => At(c, "delete", 2, 2)
            /\ s \in {"pageAndTotal", "points"} => At(c, "list", 1, 1)
            /\ s \in {"page", "scanPage", "scanKeys"} => At(c, "list", 1, 2)
            /\ s \in {"total", "scanTotal", "fetchPage"} => At(c, "list", 2, 2)
            /\ s = "search" => At(c, "search", 1, 1)
            /\ s \in Statements
            /\ Len(Program(c)) \in {1, 2} /\ pc[c] \in 1 .. Len(Program(c))
  <1>1. /\ Fits(Programs[adapter]) /\ pc[c] \in {1, 2}
        /\ pc[c] <= Len(Program(c)) /\ Op(c) \in Operations
    BY RepositoryAssumption, ProgramsAssumption DEF TypeOK, CallInv, Op
  <1>0. Statement(c) = Program(c)[pc[c]]
    BY DEF Statement
  <1>2. CASE Op(c) = "get"
    <2>1. Program(c) = <<"get">>
      BY <1>1, <1>2 DEF Fits, Program, Op
    <2>2. Len(Program(c)) = 1 /\ pc[c] = 1 /\ Statement(c) = "get"
      BY <1>1, <1>0, <2>1
    <2> QED
      BY <1>2, <2>2 DEF Statements, At
  <1>3. CASE Op(c) = "create"
    <2>1. Program(c) \in
            {<<"insert">>, <<"insert", "readBack">>, <<"put">>, <<"append">>}
      BY <1>1, <1>3 DEF Fits, Program, Op
    <2> QED
      BY <1>1, <1>0, <1>3, <2>1 DEF Statements, At
  <1>4. CASE Op(c) = "update"
    <2>1. Program(c) \in
            {<<"change">>, <<"changeIfDifferent">>, <<"check", "put">>,
             <<"check", "change">>, <<"check", "rewrite">>}
      BY <1>1, <1>4 DEF Fits, Program, Op
    <2> QED
      BY <1>1, <1>0, <1>4, <2>1 DEF Statements, At
  <1>5. CASE Op(c) = "delete"
    <2>1. Program(c) \in
            {<<"delete">>, <<"check", "delete">>, <<"check", "deleteUntil">>}
      BY <1>1, <1>5 DEF Fits, Program, Op
    <2> QED
      BY <1>1, <1>0, <1>5, <2>1 DEF Statements, At
  <1>6. CASE Op(c) = "list"
    <2>1. Program(c) \in {<<"pageAndTotal">>, <<"page", "total">>, <<"points">>,
                       <<"scanPage", "scanTotal">>, <<"scanKeys", "fetchPage">>}
      BY <1>1, <1>6 DEF Fits, Program, Op
    <2> QED
      BY <1>1, <1>0, <1>6, <2>1 DEF Statements, At
  <1>7. CASE Op(c) = "search"
    <2>1. Program(c) \in {<<>>, <<"search">>}
      BY <1>1, <1>7 DEF Fits, Program, Op
    <2> QED
      BY <1>1, <1>0, <1>7, <2>1 DEF Statements, At
  <1> QED
    BY <1>1, <1>2, <1>3, <1>4, <1>5, <1>6, <1>7 DEF Operations

(* The first of two statements of an update or a delete looks the row up.  *)
LEMMA ChecksFirst ==
  ASSUME TypeOK, CallInv, NEW c \in Calls, pc[c] = 1,
         Op(c) \in {"update", "delete"}, Len(Program(c)) = 2
  PROVE  Statement(c) = "check"
  <1>1. Fits(Programs[adapter]) /\ Statement(c) = Program(c)[1]
    BY ProgramsAssumption DEF TypeOK, Statement
  <1>2. CASE Op(c) = "update"
    <2>1. Program(c) \in {<<"change">>, <<"changeIfDifferent">>,
            <<"check", "put">>, <<"check", "change">>, <<"check", "rewrite">>}
      BY <1>1, <1>2 DEF Fits, Program, Op
    <2> QED
      BY <1>1, <2>1
  <1>3. CASE Op(c) = "delete"
    <2>1. Program(c) \in
            {<<"delete">>, <<"check", "delete">>, <<"check", "deleteUntil">>}
      BY <1>1, <1>3 DEF Fits, Program, Op
    <2> QED
      BY <1>1, <2>1
  <1> QED
    BY <1>2, <1>3

(* What the contract of an adapter says, by the operations it is about.    *)
LEMMA Terms ==
  ASSUME TypeOK, CallInv, NEW c \in Calls, pc[c] # 0
  PROVE  LET C == Contract(adapter) IN
         /\ {C.exclusive, C.atomic, C.snapshot, C.entities, C.faithful,
             C.lasting} \subseteq BOOLEAN
         /\ Statement(c) = "insert" => C.exclusive
         /\ Op(c) = "create" /\ Statement(c) \in {"put", "append"} =>
              ~C.exclusive
         /\ Op(c) \in {"update", "delete"} => (C.atomic <=> Len(Program(c)) = 1)
         /\ Statement(c) = "changeIfDifferent" => ~C.faithful
         /\ Op(c) = "list" => (C.snapshot <=> Len(Program(c)) = 1)
         /\ Statement(c) = "points" => ~C.entities
  <1>1. /\ Fits(Programs[adapter]) /\ pc[c] \in {1, 2}
        /\ pc[c] <= Len(Program(c)) /\ Op(c) \in Operations
    BY RepositoryAssumption, ProgramsAssumption DEF TypeOK, CallInv, Op
  <1>2. /\ Statement(c) = Program(c)[pc[c]]
        /\ Program(c) = Programs[adapter][Op(c)]
    BY DEF Statement, Program, Op
  <1>3. Contract(adapter).exclusive <=>
          Programs[adapter]["create"][1] = "insert"
    BY DEF Contract
  <1>4. Contract(adapter).atomic <=> /\ Len(Programs[adapter]["update"]) = 1
                                     /\ Len(Programs[adapter]["delete"]) = 1
    BY DEF Contract
  <1>5. Contract(adapter).snapshot <=>
          Programs[adapter]["list"][1] \in {"pageAndTotal", "points"}
    BY DEF Contract
  <1>6. Contract(adapter).entities <=> Programs[adapter]["list"][1] # "points"
    BY DEF Contract
  <1>7. Contract(adapter).faithful <=>
          Programs[adapter]["update"] # <<"changeIfDifferent">>
    BY DEF Contract
  <1>8. {Contract(adapter).exclusive, Contract(adapter).atomic,
         Contract(adapter).snapshot, Contract(adapter).entities,
         Contract(adapter).faithful, Contract(adapter).lasting}
          \subseteq BOOLEAN
    BY DEF Contract
  <1>9. Op(c) = "create" => 
          /\ Statement(c) = "insert" => Contract(adapter).exclusive
          /\ Statement(c) \in {"put", "append"} => ~Contract(adapter).exclusive
    BY <1>1, <1>2, <1>3 DEF Fits
  <1>10. Op(c) \in {"update", "delete"} =>
           (Contract(adapter).atomic <=> Len(Program(c)) = 1)
    <2> DEFINE U == Programs[adapter]["update"]
               D == Programs[adapter]["delete"]
    <2>0. \/ U \in {<<"change">>, <<"changeIfDifferent">>} /\ D = <<"delete">>
          \/ /\ U \in {<<"check", "put">>, <<"check", "change">>,
                       <<"check", "rewrite">>}
             /\ D \in {<<"check", "delete">>, <<"check", "deleteUntil">>}
      BY <1>1 DEF Fits
    <2> HIDE DEF U, D
    <2>a. Len(U) = Len(D)
      BY <2>0
    <2>1. Len(Programs[adapter]["update"]) = Len(Programs[adapter]["delete"])
      BY <2>a DEF U, D
    <2> QED
      BY <1>2, <1>4, <2>1
  <1>11. Op(c) = "update" /\ Statement(c) = "changeIfDifferent" =>
           ~Contract(adapter).faithful
    BY <1>1, <1>2, <1>7 DEF Fits
  <1>12. Op(c) = "list" =>
           /\ Contract(adapter).snapshot <=> Len(Program(c)) = 1
           /\ Statement(c) = "points" => ~Contract(adapter).entities
    <2> DEFINE L == Programs[adapter]["list"]
    <2>1. L \in {<<"pageAndTotal">>, <<"page", "total">>, <<"points">>,
                 <<"scanPage", "scanTotal">>, <<"scanKeys", "fetchPage">>}
      BY <1>1 DEF Fits
    <2> HIDE DEF L
    <2>2. L[1] \in {"pageAndTotal", "points"} <=> Len(L) = 1
      <3>1. CASE L \in {<<"pageAndTotal">>, <<"points">>}
        BY <3>1
      <3>2. CASE L \in {<<"page", "total">>, <<"scanPage", "scanTotal">>,
                        <<"scanKeys", "fetchPage">>}
        BY <3>2
      <3> QED
        BY <2>1, <3>1, <3>2
    <2>3. \A i \in {1, 2} : i <= Len(L) /\ L[i] = "points" => L[1] = "points"
      BY <1>1, <2>1
    <2>4. /\ Contract(adapter).snapshot <=> L[1] \in {"pageAndTotal", "points"}
          /\ Contract(adapter).entities <=> L[1] # "points"
          /\ Op(c) = "list" => Program(c) = L
      BY <1>2, <1>5, <1>6 DEF L
    <2> QED
      BY <1>1, <1>2, <2>2, <2>3, <2>4
  <1>13. /\ Statement(c) = "insert" => Op(c) = "create"
         /\ Statement(c) = "changeIfDifferent" => Op(c) = "update"
         /\ Statement(c) = "points" => Op(c) = "list"
    BY Places DEF At
  <1> QED
    BY <1>8, <1>9, <1>10, <1>11, <1>12, <1>13

-----------------------------------------------------------------------------
(* Frames                                                                  *)

(* The request of a call under way.                                        *)
LEMMA Requested ==
  ASSUME TypeOK, CallInv, NEW c \in Calls, pc[c] # 0
  PROVE  /\ Key(c) \in Keys /\ request[c].value \in Values
         /\ Op(c) \in Operations
         /\ [table EXCEPT ![Key(c)] = request[c].value] \in Tables
         /\ [table EXCEPT ![Key(c)] = Absent] \in Tables
  <1>1. request[c] \in [op : Operations, key : Keys, value : Values]
    BY RepositoryAssumption DEF TypeOK, CallInv
  <1>2. table \in Tables
    BY DEF TypeOK
  <1> QED
    BY <1>1, <1>2 DEF Key, Op, Tables

(* A step that leaves the table alone extends no window.                   *)
LEMMA Still ==
  ASSUME TypeOK, WindowInv, UNCHANGED <<table, window>>
  PROVE  Become(table')
  BY DEF TypeOK, WindowInv, Become

(* A step of the database that executes the statement of call c.           *)
Executes(c) ==
  /\ pc[c] # 0 /\ prep[c] = "none" /\ reply[c] = "none"
  /\ UNCHANGED <<adapter, made, ensured, prep, request, pc, told>>
  /\ Become(table') /\ table' \in Tables
  /\ reply' \in [Calls -> {"none", "done", "missing", "exists"}]
  /\ local' = [d \in Calls |-> local'[d]]
  /\ points' = [k \in Keys |-> points'[k]]
  /\ \A d \in Calls \ {c} : reply'[d] = reply[d] /\ local'[d] = local[d]


(* The statements that read one row leave all but the answer alone.        *)
LEMMA ExecutesRead ==
  ASSUME TypeOK, WindowInv, NEW c \in Calls, Get(c) \/ LookUp(c)
  PROVE  Executes(c)
  <1>1. table' \in Tables /\ Become(table')
    BY Still DEF Get, LookUp, database, TypeOK
  <1> QED
    BY <1>1
       DEF Executes, Get, LookUp, Reads, Runs, Answer, database, preparation,
       TypeOK

(* The statements that write one row.                                      *)
LEMMA ExecutesWrite ==
  ASSUME TypeOK, CallInv, WindowInv, NEW c \in Calls,
         Insert(c) \/ Put(c) \/ Change(c) \/ Delete(c)
  PROVE  Executes(c)
  <1>0. pc[c] # 0
    BY DEF Insert, Put, Change, Delete, Runs
  <1>1. table' \in Tables /\ Become(table')
    <2>1. CASE Leave
      BY <2>1, Still DEF Leave, TypeOK
    <2>2. CASE Write(c)
      BY <2>2, <1>0, Requested DEF Write, Become, Key
    <2>3. CASE Remove(c)
      BY <2>3, <1>0, Requested DEF Remove, Become, Key
    <2> QED
      BY <2>1, <2>2, <2>3 DEF Insert, Put, Change, Delete
  <1> QED
    BY <1>1
       DEF Executes, Insert, Put, Change, Delete, Runs, Answer, preparation,
       TypeOK

(* The statements of InfluxDB that write or delete points.                 *)
LEMMA ExecutesPoint ==
  ASSUME TypeOK, CallInv, WindowInv, NEW c \in Calls,
         WritePoint(c) \/ Rewrite(c) \/ DeleteUntil(c)
  PROVE  Executes(c)
  <1>0. pc[c] # 0
    BY DEF WritePoint, Rewrite, DeleteUntil, Runs
  <1>1. table' \in Tables /\ Become(table')
    <2>1. CASE Leave
      BY <2>1, Still DEF Leave, TypeOK
    <2>2. CASE Write(c)
      BY <2>2, <1>0, Requested DEF Write, Become, Key
    <2>3. CASE Remove(c)
      BY <2>3, <1>0, Requested DEF Remove, Become, Key
    <2> QED
      BY <2>1, <2>2, <2>3 DEF WritePoint, Rewrite, DeleteUntil
  <1> QED
    BY <1>1
       DEF Executes, WritePoint, Rewrite, DeleteUntil, Runs, Answer,
       preparation, TypeOK

(* The statements of list() and search() are sent by a call that waits,    *)
(* and leave the tables alone.                                             *)
LEMMA ExecutesList ==
  ASSUME TypeOK, WindowInv, NEW c \in Calls,
         \/ ReadTable(c) \/ ReadPoints(c) \/ FetchPage(c)
         \/ \E S \in SUBSET Keys : Scan(c, S) \/ Search(c, S)
  PROVE  Executes(c) /\ Open(c) /\ UNCHANGED <<table, clock, points, window>>
  <1>1. CASE ReadTable(c) \/ ReadPoints(c) \/ FetchPage(c)
    <2>1. table' \in Tables /\ Become(table')
      BY <1>1, Still DEF ReadTable, ReadPoints, FetchPage, database, TypeOK
    <2> QED
      BY <1>1, <2>1
         DEF Executes, ReadTable, ReadPoints, FetchPage, Reads, Runs, Answer,
         database, preparation, TypeOK
  <1>2. ASSUME NEW S \in SUBSET Keys, Scan(c, S)
        PROVE  /\ Executes(c) /\ Open(c)
               /\ UNCHANGED <<table, clock, points, window>>
    <2>1. table' \in Tables /\ Become(table')
      BY <1>2, Still DEF Scan, database, TypeOK
    <2> QED
      BY <1>2, <2>1 DEF Executes, Scan, Reads, Runs, Answer, database,
         preparation, TypeOK
  <1>3. ASSUME NEW S \in SUBSET Keys, Search(c, S)
        PROVE  /\ Executes(c) /\ Open(c)
               /\ UNCHANGED <<table, clock, points, window>>
    <2>1. table' \in Tables /\ Become(table')
      BY <1>3, Still DEF Search, database, TypeOK
    <2>2. /\ reply' = [reply EXCEPT ![c] = "done"]
          /\ local' = [local EXCEPT ![c].page = S, ![c].todo = {}]
          /\ Runs(c, {"search"}) /\ Open(c)
          /\ UNCHANGED <<adapter, preparation, request, pc, told, database,
                         window>>
      BY <1>3 DEF Search, Reads, Answer
    <2> QED
      BY <2>1, <2>2 DEF Executes, Runs, database, preparation, TypeOK
  <1> QED
    BY <1>1, <1>2, <1>3

-----------------------------------------------------------------------------
(* The simple parts of the invariant, step by step                         *)

(* The steps of the caller's side.                                         *)
CallerStep(c) ==
  \/ \E r \in Requests[c] : Begin(c, r)
  \/ MakeConstraint(c) \/ Ensured(c)
  \/ SendNext(c) \/ Return(c) \/ FailReadBack(c) \/ Raise(c)

(* A step is one of a caller, of the database, or of time.                 *)
LEMMA NextCases ==
  ASSUME TypeOK, CallInv, WindowInv, [Next]_vars
  PROVE  \/ \E c \in Calls : CallerStep(c)
         \/ \E c \in Calls : Executes(c)
         \/ \E k \in Keys : Expire(k)
         \/ UNCHANGED vars
  <1>1. ASSUME NEW c \in Calls,
               \/ Get(c) \/ LookUp(c) \/ Insert(c) \/ Put(c) \/ Change(c)
               \/ Delete(c) \/ WritePoint(c) \/ Rewrite(c) \/ DeleteUntil(c)
               \/ ReadTable(c) \/ ReadPoints(c) \/ FetchPage(c)
               \/ \E S \in SUBSET Keys : Scan(c, S) \/ Search(c, S)
        PROVE  Executes(c)
    BY <1>1, ExecutesRead, ExecutesWrite, ExecutesPoint, ExecutesList
  <1> QED
    BY <1>1 DEF Next, CallerStep

(* What Begin and SendNext change, call by call.                           *)
Begins(c, r) ==
  /\ pc[c] = 0 /\ Programs[adapter][r.op] # <<>>
  /\ request'[c] = r /\ pc'[c] = 1 /\ window'[c] = {table}
  /\ local'[c] = [local[c] EXCEPT !.todo = Keys]
  /\ \A d \in Calls \ {c} :
       /\ request'[d] = request[d] /\ pc'[d] = pc[d]
       /\ window'[d] = window[d] /\ local'[d] = local[d]
       /\ prep'[d] = prep[d]
  /\ prep'[c] = IF Prepared(c) THEN prep[c] ELSE "sent"
  /\ UNCHANGED <<adapter, table, clock, points, made, reply, told, ensured>>

(* Begin does what Begins says.                                            *)
LEMMA BeginEffect ==
  ASSUME TypeOK, NEW c \in Calls, NEW r \in Requests[c], Begin(c, r)
  PROVE  Begins(c, r)
  BY DEF TypeOK, Begin, Ask, database, Begins

(* What SendNext changes: it keeps what the call has read, except that     *)
(* delete() of InfluxDB reads the time now.                                *)
Sends(c) ==
  /\ Open(c) /\ reply[c] = "done" /\ pc[c] < Len(Program(c))
  /\ pc'[c] = pc[c] + 1 /\ reply'[c] = "none"
  /\ local'[c].value = local[c].value /\ local'[c].page = local[c].page
  /\ local'[c].total = local[c].total /\ local'[c].todo = Keys
  /\ local'[c].stamp = IF Op(c) = "delete" THEN clock ELSE local[c].stamp
  /\ \A d \in Calls \ {c} :
       pc'[d] = pc[d] /\ reply'[d] = reply[d] /\ local'[d] = local[d]
  /\ UNCHANGED <<adapter, table, clock, points, made, ensured, prep, request,
                 told, window>>

(* SendNext does what Sends says.                                          *)
LEMMA SendEffect ==
  ASSUME TypeOK, NEW c \in Calls, SendNext(c)
  PROVE  Sends(c)
  BY DEF TypeOK, SendNext, database, preparation, Op, Sends

(* Every step keeps CallInv.                                               *)
LEMMA CallStep ==
  ASSUME TypeOK, CallInv, WindowInv, [Next]_vars
  PROVE  CallInv'
  <1>1. ASSUME NEW c \in Calls, NEW r \in Requests[c], Begin(c, r)
        PROVE  CallInv'
    <2>1. /\ r \in [op : Operations, key : Keys, value : Values]
          /\ Programs[adapter] \in [Operations -> Seq(Statements)]
      BY RepositoryAssumption DEF TypeOK
    <2>2. r # NoRequest
      BY <2>1 DEF NoRequest, Operations
    <2>3. Programs[adapter][r.op] # <<>> =>
            1 \in 1 .. Len(Programs[adapter][r.op])
      BY <2>1
    <2>4. Begins(c, r)
      BY <1>1, BeginEffect
    <2> QED
      BY <2>2, <2>3, <2>4 DEF Begins, CallInv, Program
  <1>2. ASSUME NEW c \in Calls, SendNext(c)
        PROVE  CallInv'
    <2>1. Len(Program(c)) \in {1, 2} /\ pc[c] \in Nat
      BY Places, <1>2 DEF At, SendNext, TypeOK, Open
    <2>2. Sends(c)
      BY <1>2, SendEffect
    <2>0. pc[c] # 0 /\ pc[c] < Len(Program(c)) /\ pc'[c] = pc[c] + 1
      BY <2>2 DEF Sends, Open
    <2>3. pc'[c] = 2 /\ Len(Program(c)) = 2 /\ pc[c] # 0
      <3>1. \A i \in Nat, n \in {1, 2} :
              i # 0 /\ i < n => i = 1 /\ n = 2 /\ i + 1 = 2
        OBVIOUS
      <3>2. pc[c] = 1 /\ Len(Program(c)) = 2 /\ pc[c] + 1 = 2
        BY <2>0, <2>1, <3>1, Zenon
      <3> QED
        BY <2>0, <3>2, Zenon
    <2>4. /\ request' = request /\ adapter' = adapter
          /\ \A d \in Calls \ {c} :
               pc'[d] = pc[d] /\ reply'[d] = reply[d] /\ told'[d] = told[d]
      BY <2>2 DEF Sends
    <2>5. Program(c)' = Program(c) /\ request[c] # NoRequest
      BY <2>3, <2>4 DEF CallInv, Program
    <2>6. \A d \in Calls : Program(d)' = Program(d)
      BY <2>4 DEF Program
    <2>7. ASSUME NEW d \in Calls
          PROVE  /\ pc'[d] = 0 <=> request'[d] = NoRequest
                 /\ pc'[d] = 0 => reply'[d] = "none" /\ told'[d] = "no"
                 /\ pc'[d] # 0 => pc'[d] \in 1 .. Len(Program(d)')
      <3>1. CASE d = c
        BY <2>3, <2>4, <2>5, <3>1
      <3>2. CASE d # c
        BY <2>4, <2>6, <3>2 DEF CallInv
      <3> QED
        BY <3>1, <3>2
    <2> QED
      BY <2>7 DEF CallInv
  <1>3. ASSUME NEW c \in Calls,
               \/ MakeConstraint(c) \/ Ensured(c) \/ Return(c)
               \/ FailReadBack(c) \/ Raise(c)
        PROVE  CallInv'
    BY <1>3
       DEF MakeConstraint, Ensured, Return, FailReadBack, Raise, CallInv,
       Program, Open, TypeOK
  <1>4. ASSUME NEW c \in Calls, Executes(c)
        PROVE  CallInv'
    BY <1>4 DEF Executes, CallInv, Program
  <1>5. CASE (\E k \in Keys : Expire(k)) \/ UNCHANGED vars
    BY <1>5 DEF Expire, vars, CallInv, Program
  <1> QED
    BY <1>1, <1>2, <1>3, <1>4, <1>5, NextCases DEF CallerStep

(* Every step keeps MadeInv: a call goes on only when its repository is    *)
(* prepared, or when the database has made the constraint for it.          *)
LEMMA MadeStep ==
  ASSUME TypeOK, CallInv, WindowInv, MadeInv, [Next]_vars
  PROVE  MadeInv'
  <1>1. ASSUME NEW c \in Calls, NEW r \in Requests[c], Begin(c, r)
        PROVE  MadeInv'
    <2>1. Begins(c, r)
      BY <1>1, BeginEffect
    <2> QED
      BY <2>1 DEF Begins, MadeInv, Prepared
  <1>2. ASSUME NEW c \in Calls, SendNext(c)
        PROVE  MadeInv'
    BY <1>2, SendEffect DEF Sends, MadeInv, Open
  <1>3. ASSUME NEW c \in Calls, MakeConstraint(c) \/ Ensured(c)
        PROVE  MadeInv'
    BY <1>3 DEF MakeConstraint, Ensured, MadeInv, Open, TypeOK, database
  <1>4. ASSUME NEW c \in Calls, Return(c) \/ FailReadBack(c) \/ Raise(c)
        PROVE  MadeInv'
    BY <1>4
       DEF Return, FailReadBack, Raise, MadeInv, Open, TypeOK, database,
       preparation
  <1>5. ASSUME NEW c \in Calls, Executes(c)
        PROVE  MadeInv'
    BY <1>5 DEF Executes, MadeInv
  <1>6. CASE (\E k \in Keys : Expire(k)) \/ UNCHANGED vars
    BY <1>6 DEF Expire, vars, MadeInv, database, preparation
  <1> QED
    BY <1>1, <1>2, <1>3, <1>4, <1>5, <1>6, NextCases DEF CallerStep

(* Every step keeps WindowInv.                                             *)
LEMMA WindowStep ==
  ASSUME TypeOK, CallInv, WindowInv, [Next]_vars
  PROVE  WindowInv'
  <1>1. ASSUME NEW c \in Calls, NEW r \in Requests[c], Begin(c, r)
        PROVE  WindowInv'
    <2>1. Begins(c, r)
      BY <1>1, BeginEffect
    <2> QED
      BY <2>1 DEF Begins, WindowInv, Open
  <1>2. ASSUME NEW c \in Calls, SendNext(c)
        PROVE  WindowInv'
    BY <1>2, SendEffect DEF Sends, WindowInv, Open, TypeOK
  <1>3. ASSUME NEW c \in Calls,
               \/ MakeConstraint(c) \/ Ensured(c) \/ Return(c)
               \/ FailReadBack(c) \/ Raise(c)
        PROVE  WindowInv'
    BY <1>3
       DEF MakeConstraint, Ensured, Return, FailReadBack, Raise, WindowInv,
       Open, TypeOK, database
  <1>4. ASSUME NEW c \in Calls, Executes(c)
        PROVE  WindowInv'
    BY <1>4 DEF Executes, Become, WindowInv, Open
  <1>5. ASSUME NEW k \in Keys, Expire(k)
        PROVE  WindowInv'
    BY <1>5 DEF Expire, Become, WindowInv, Open
  <1>6. CASE UNCHANGED vars
    BY <1>6 DEF vars, database, WindowInv, Open
  <1> QED
    BY <1>1, <1>2, <1>3, <1>4, <1>5, <1>6, NextCases DEF CallerStep

-----------------------------------------------------------------------------
(* What each statement does, besides what Executes says                    *)

(* What becomes of the table and of the points.                            *)
Wrote(c) == table' = [table EXCEPT ![Key(c)] = request[c].value]
Removed(c) == table' = [table EXCEPT ![Key(c)] = Absent]
Kept == table' = table
NoPoint == clock' = clock /\ points' = points

(* Get.                                                                    *)
Gets(c) ==
  /\ Statement(c) = "get" /\ reply'[c] = "done" /\ Open(c)
  /\ local'[c] = [local[c] EXCEPT !.value = table[Key(c)]]
  /\ Kept /\ NoPoint

(* LookUp.                                                                 *)
LooksUp(c) ==
  /\ Statement(c) \in {"check", "readBack"} /\ Open(c)
  /\ reply'[c] = IF table[Key(c)] = Absent THEN "missing" ELSE "done"
  /\ local'[c] = [local[c] EXCEPT !.stamp = Latest(Key(c))]
  /\ Kept /\ NoPoint

(* Insert, Put, Change and Delete.                                         *)
Writes(c) ==
  /\ local'[c] = local[c] /\ NoPoint
  /\ \/ /\ Statement(c) = "insert" /\ (table[Key(c)] = Absent \/ ~made)
        /\ reply'[c] = "done" /\ Wrote(c)
     \/ /\ Statement(c) = "insert" /\ table[Key(c)] # Absent
        /\ reply'[c] = "exists" /\ Kept
     \/ /\ Statement(c) = "put"
        /\ reply'[c] = "done" /\ Wrote(c)
     \/ /\ Statement(c) \in {"change", "changeIfDifferent"}
        /\ table[Key(c)] # Absent
        /\ reply'[c] = "done" /\ Wrote(c)
     \/ /\ Statement(c) \in {"change", "changeIfDifferent"}
        /\ \/ table[Key(c)] = Absent
           \/ /\ Statement(c) = "changeIfDifferent"
              /\ table[Key(c)] = request[c].value
        /\ reply'[c] = "missing" /\ Kept
     \/ /\ Statement(c) = "delete" /\ table[Key(c)] # Absent
        /\ reply'[c] = "done" /\ Removed(c)
     \/ /\ Statement(c) = "delete" /\ table[Key(c)] = Absent
        /\ reply'[c] = "missing" /\ Kept

(* WritePoint.                                                             *)
Appends(c) ==
  /\ Statement(c) = "append" /\ reply'[c] = "done" /\ local'[c] = local[c]
  /\ Wrote(c) /\ clock' = clock + 1
  /\ points'[Key(c)] = points[Key(c)] \union {clock + 1}
  /\ \A k \in Keys \ {Key(c)} : points'[k] = points[k]

(* Rewrite.                                                                *)
Rewrites(c) ==
  /\ Statement(c) = "rewrite" /\ reply'[c] = "done" /\ local'[c] = local[c]
  /\ clock' = clock
  /\ points'[Key(c)] = points[Key(c)] \union {local[c].stamp}
  /\ \A k \in Keys \ {Key(c)} : points'[k] = points[k]
  /\ IF Latest(Key(c)) > local[c].stamp THEN Kept ELSE Wrote(c)

(* DeleteUntil.                                                            *)
DeletesUntil(c) ==
  /\ Statement(c) = "deleteUntil" /\ reply'[c] = "done" /\ local'[c] = local[c]
  /\ clock' = clock
  /\ points'[Key(c)] = {n \in points[Key(c)] : n > local[c].stamp}
  /\ \A k \in Keys \ {Key(c)} : points'[k] = points[k]
  /\ IF table[Key(c)] # Absent /\ points'[Key(c)] = {} THEN Removed(c) ELSE Kept

(* ReadTable.                                                              *)
ReadsTable(c) ==
  /\ Statement(c) \in {"pageAndTotal", "page", "total"} /\ Open(c)
  /\ reply'[c] = "done"
  /\ local'[c] = [local[c] EXCEPT
       !.page = IF Statement(c) = "total" THEN @ ELSE Rows(table),
       !.total = IF Statement(c) = "page" THEN @ ELSE Cardinality(Rows(table)),
       !.todo = {}]
  /\ Kept /\ NoPoint

(* ReadPoints.                                                             *)
ReadsPoints(c) ==
  /\ Statement(c) = "points" /\ Open(c) /\ reply'[c] = "done"
  /\ local'[c] = [local[c] EXCEPT
       !.page = {k \in Keys : points[k] # {}},
       !.total = Cardinality(AllPoints), !.todo = {}]
  /\ Kept /\ NoPoint

(* FetchPage.                                                              *)
Fetches(c) ==
  /\ Statement(c) = "fetchPage" /\ Open(c) /\ reply'[c] = "done"
  /\ local'[c] = [local[c] EXCEPT !.page = @ \intersect Rows(table),
                                  !.todo = {}]
  /\ Kept /\ NoPoint

(* Scan.                                                                   *)
Scans(c, S) ==
  /\ Statement(c) \in {"scanPage", "scanTotal", "scanKeys"} /\ Open(c)
  /\ S # {} /\ S \subseteq local[c].todo
  /\ local'[c] = [local[c] EXCEPT
       !.page = IF Statement(c) = "scanTotal" THEN @
                ELSE @ \union (S \intersect Rows(table)),
       !.total = IF Statement(c) = "scanPage" THEN @
                 ELSE @ + Cardinality(S \intersect Rows(table)),
       !.todo = @ \ S]
  /\ reply'[c] = IF local[c].todo \ S = {} THEN "done" ELSE "none"
  /\ Kept /\ NoPoint

(* Search.                                                                 *)
Searches(c, S) ==
  /\ Statement(c) = "search" /\ Open(c) /\ reply'[c] = "done"
  /\ S \subseteq Rows(table) /\ Cardinality(S) <= Nearest
  /\ local'[c] = [local[c] EXCEPT !.page = S, !.todo = {}]
  /\ Kept /\ NoPoint

(* Any of these.                                                           *)
Does(c) ==
  \/ Gets(c) \/ LooksUp(c) \/ Writes(c)
  \/ Appends(c) \/ Rewrites(c) \/ DeletesUntil(c)
  \/ ReadsTable(c) \/ ReadsPoints(c) \/ Fetches(c)
  \/ \E S \in SUBSET Keys : Scans(c, S) \/ Searches(c, S)

(* The actions do what these say.                                          *)
LEMMA Effects ==
  ASSUME TypeOK, CallInv, NEW c \in Calls
  PROVE  /\ Get(c) => Gets(c)
         /\ LookUp(c) => LooksUp(c)
         /\ Insert(c) \/ Put(c) \/ Change(c) \/ Delete(c) => Writes(c)
         /\ WritePoint(c) => Appends(c)
         /\ Rewrite(c) => Rewrites(c)
         /\ DeleteUntil(c) => DeletesUntil(c)
         /\ ReadTable(c) => ReadsTable(c)
         /\ ReadPoints(c) => ReadsPoints(c)
         /\ FetchPage(c) => Fetches(c)
         /\ \A S \in SUBSET Keys :
              (Scan(c, S) => Scans(c, S)) /\ (Search(c, S) => Searches(c, S))
  <1>0. /\ reply \in [Calls -> {"none", "done", "missing", "exists"}]
        /\ DOMAIN local = Calls /\ DOMAIN points = Keys
        /\ pc[c] # 0 => Key(c) \in Keys
    BY Requested DEF TypeOK
  <1>1. Get(c) => Gets(c)
    BY <1>0
       DEF Get, Gets, Reads, Runs, Answer, Row, Key, Kept, NoPoint, database
  <1>2. LookUp(c) => LooksUp(c)
    BY <1>0
       DEF LookUp, LooksUp, Reads, Runs, Answer, Row, Key, Kept, NoPoint,
       database
  <1>3. Insert(c) => Writes(c)
    BY <1>0
       DEF Insert, Writes, Runs, Answer, Row, Key, Kept, NoPoint, Leave,
       Write, Become, Wrote
  <1>4. Put(c) => Writes(c)
    BY <1>0
       DEF Put, Writes, Runs, Answer, Row, Key, Kept, NoPoint, Leave, Write,
       Become, Wrote
  <1>5. Change(c) => Writes(c)
    BY <1>0
       DEF Change, Writes, Runs, Answer, Row, Key, Kept, NoPoint, Leave,
       Write, Become, Wrote
  <1>6. Delete(c) => Writes(c)
    BY <1>0
       DEF Delete, Writes, Runs, Answer, Row, Key, Kept, NoPoint, Leave,
       Remove, Become, Removed
  <1>7. WritePoint(c) => Appends(c)
    BY <1>0 DEF WritePoint, Appends, Runs, Answer, Key, Write, Become, Wrote
  <1>8. Rewrite(c) => Rewrites(c)
    BY <1>0
       DEF Rewrite, Rewrites, Runs, Answer, Key, Write, Become, Wrote, Kept,
       Leave
  <1>9. DeleteUntil(c) => DeletesUntil(c)
    BY <1>0
       DEF DeleteUntil, DeletesUntil, Runs, Answer, Key, Row, Remove, Become,
       Removed, Kept, Leave
  <1>10. ReadTable(c) => ReadsTable(c)
    BY <1>0
       DEF ReadTable, ReadsTable, Reads, Runs, Answer, Kept, NoPoint, database
  <1>11. ReadPoints(c) => ReadsPoints(c)
    BY <1>0
       DEF ReadPoints, ReadsPoints, Reads, Runs, Answer, Kept, NoPoint,
       database
  <1>12. FetchPage(c) => Fetches(c)
    BY <1>0
       DEF FetchPage, Fetches, Reads, Runs, Answer, Kept, NoPoint, database
  <1>13. ASSUME NEW S \in SUBSET Keys, Scan(c, S) PROVE Scans(c, S)
    BY <1>0, <1>13
       DEF Scan, Scans, Reads, Runs, Answer, Kept, NoPoint, database
  <1>14. ASSUME NEW S \in SUBSET Keys, Search(c, S) PROVE Searches(c, S)
    BY <1>0, <1>14
       DEF Search, Searches, Reads, Runs, Answer, Kept, NoPoint, database
  <1> QED
    BY <1>1, <1>2, <1>3, <1>4, <1>5, <1>6, <1>7, <1>8, <1>9, <1>10, <1>11,
       <1>12, <1>13, <1>14

(* NextCases, with what the statement does.                                *)
LEMMA Steps ==
  ASSUME TypeOK, CallInv, WindowInv, [Next]_vars
  PROVE  \/ \E c \in Calls : CallerStep(c)
         \/ \E c \in Calls : Executes(c) /\ Does(c)
         \/ \E k \in Keys : Expire(k)
         \/ UNCHANGED vars
  <1>1. ASSUME NEW c \in Calls,
               \/ Get(c) \/ LookUp(c) \/ Insert(c) \/ Put(c) \/ Change(c)
               \/ Delete(c) \/ WritePoint(c) \/ Rewrite(c) \/ DeleteUntil(c)
               \/ ReadTable(c) \/ ReadPoints(c) \/ FetchPage(c)
               \/ \E S \in SUBSET Keys : Scan(c, S) \/ Search(c, S)
        PROVE  Executes(c) /\ Does(c)
    <2>1. Executes(c)
      BY <1>1, ExecutesRead, ExecutesWrite, ExecutesPoint, ExecutesList
    <2>2. Does(c)
      BY <1>1, Effects DEF Does
    <2> QED
      BY <2>1, <2>2
  <1> QED
    BY <1>1 DEF Next, CallerStep

-----------------------------------------------------------------------------
(* What the calls keep                                                     *)

(* Every step keeps LocalInv.                                              *)
LEMMA LocalStep ==
  ASSUME TypeOK, CallInv, WindowInv, LocalInv, [Next]_vars
  PROVE  LocalInv'
  <1>0. local \in [Calls ->
               [value : Values \union {Absent}, page : SUBSET Keys,
                total : 0 .. Cardinality(Keys) + Cardinality(Calls),
                todo : SUBSET Keys, stamp : 0 .. clock]]
    BY DEF TypeOK
  <1>1. ASSUME NEW c \in Calls, NEW r \in Requests[c], Begin(c, r)
        PROVE  LocalInv'
    <2>1. Begins(c, r)
      BY <1>1, BeginEffect
    <2>2. Op(c) = "none"
      BY <2>1 DEF Begins, CallInv, Op, NoRequest
    <2> QED
      BY <1>0, <2>1, <2>2 DEF Begins, LocalInv, Op
  <1>2. ASSUME NEW c \in Calls, SendNext(c)
        PROVE  LocalInv'
    <2>1. Sends(c)
      BY <1>2, SendEffect
    <2>2. pc'[c] # 0
      <3>1. pc'[c] = pc[c] + 1 /\ pc[c] \in 0 .. 2
        BY <2>1 DEF Sends, TypeOK
      <3> QED
        BY <3>1
    <2> QED
      BY <1>0, <2>1, <2>2 DEF Sends, LocalInv, Op
  <1>3. ASSUME NEW c \in Calls,
               \/ MakeConstraint(c) \/ Ensured(c) \/ Return(c)
               \/ FailReadBack(c) \/ Raise(c)
        PROVE  LocalInv'
    BY <1>3
       DEF MakeConstraint, Ensured, Return, FailReadBack, Raise, LocalInv, Op
  <1>4. ASSUME NEW c \in Calls, Executes(c), Does(c)
        PROVE  LocalInv'
    <2>1. ASSUME /\ Op(c) # "get" => local'[c].value = local[c].value
                 /\ Op(c) \notin {"list", "search"} =>
                      local'[c].page = local[c].page
                 /\ Op(c) # "list" => local'[c].total = local[c].total
          PROVE  LocalInv'
      BY <1>4, <2>1 DEF Executes, LocalInv, Op
    <2>2. CASE Gets(c)
      BY <1>0, <1>4, <2>1, <2>2, Places DEF At, Executes, Gets
    <2>3. CASE LooksUp(c)
      BY <1>0, <2>1, <2>3 DEF LooksUp
    <2>4. CASE Writes(c) \/ Appends(c) \/ Rewrites(c) \/ DeletesUntil(c)
      BY <2>1, <2>4 DEF Writes, Appends, Rewrites, DeletesUntil
    <2>5. CASE ReadsTable(c)
      BY <1>0, <1>4, <2>1, <2>5, Places DEF At, Executes, ReadsTable
    <2>6. CASE ReadsPoints(c)
      BY <1>0, <1>4, <2>1, <2>6, Places DEF At, Executes, ReadsPoints
    <2>7. CASE Fetches(c)
      BY <1>0, <1>4, <2>1, <2>7, Places DEF At, Executes, Fetches
    <2>8. ASSUME NEW S \in SUBSET Keys, Scans(c, S) PROVE LocalInv'
      BY <1>0, <1>4, <2>1, <2>8, Places DEF At, Executes, Scans
    <2>9. ASSUME NEW S \in SUBSET Keys, Searches(c, S) PROVE LocalInv'
      BY <1>0, <1>4, <2>1, <2>9, Places DEF At, Executes, Searches
    <2> QED
      BY <1>4, <2>2, <2>3, <2>4, <2>5, <2>6, <2>7, <2>8, <2>9 DEF Does
  <1>5. CASE (\E k \in Keys : Expire(k)) \/ UNCHANGED vars
    BY <1>5 DEF Expire, vars, LocalInv, Op
  <1> QED
    BY <1>1, <1>2, <1>3, <1>4, <1>5, Steps DEF CallerStep

(* The windows of calls under way only grow, and others stay.              *)
LEMMA FoundStep ==
  ASSUME TypeOK, CallInv, WindowInv, FoundInv, [Next]_vars
  PROVE  FoundInv'
  <1>1. ASSUME NEW c \in Calls, NEW r \in Requests[c], Begin(c, r)
        PROVE  FoundInv'
    <2>1. Begins(c, r)
      BY <1>1, BeginEffect
    <2>2. reply'[c] = "none" /\ pc'[c] = 1
      BY <2>1 DEF Begins, CallInv
    <2>3. ~Found(c)'
      BY <2>2 DEF Found
    <2>4. \A d \in Calls \ {c} : /\ Found(d)' <=> Found(d)
                                 /\ window'[d] = window[d] /\ Key(d)' = Key(d)
      BY <2>1 DEF Begins, Found, Op, Key, Program
    <2> QED
      BY <2>3, <2>4 DEF FoundInv
  <1>2. ASSUME NEW c \in Calls, SendNext(c)
        PROVE  FoundInv'
    <2>1. Sends(c)
      BY <1>2, SendEffect
    <2>a. pc[c] # 0 /\ pc[c] \in 0 .. 2
      BY <2>1 DEF Sends, Open, TypeOK
    <2>b. Len(Program(c)) \in {1, 2}
      BY <2>a, Places
    <2>0. pc[c] < Len(Program(c))
      BY <2>1 DEF Sends
    <2>c. pc[c] = 1 /\ Len(Program(c)) = 2
      <3>1. \A i \in 0 .. 2, n \in {1, 2} : i # 0 /\ i < n => i = 1 /\ n = 2
        OBVIOUS
      <3> QED
        BY <2>a, <2>b, <2>0, <3>1, Zenon
    <2>2. pc[c] = 1 /\ (Found(c)' => Found(c))
      BY <2>1, <2>c DEF Sends, Found, Op, Program
    <2>3. \A d \in Calls \ {c} : Found(d)' <=> Found(d)
      BY <2>1 DEF Sends, Found, Op, Program
    <2> QED
      BY <2>1, <2>2, <2>3 DEF Sends, FoundInv, Key
  <1>3. ASSUME NEW c \in Calls, Return(c)
        PROVE  FoundInv'
    <2>1. /\ Open(c) /\ reply[c] # "none"
          /\ reply[c] = "done" => pc[c] = Len(Program(c))
          /\ \A d \in Calls \ {c} : window'[d] = window[d]
          /\ UNCHANGED <<adapter, request, pc, reply>>
      BY <1>3 DEF Return, TypeOK
    <2>2. ~Found(c)
      BY <2>1 DEF Found
    <2>3. \A d \in Calls : Found(d)' <=> Found(d)
      BY <2>1 DEF Found, Op, Program
    <2> QED
      BY <2>1, <2>2, <2>3 DEF FoundInv, Key
  <1>4. ASSUME NEW c \in Calls,
               \/ MakeConstraint(c) \/ Ensured(c) \/ FailReadBack(c) \/ Raise(c)
        PROVE  FoundInv'
    BY <1>4
       DEF MakeConstraint, Ensured, FailReadBack, Raise, FoundInv, Found, Op,
       Key, Program
  <1>5. ASSUME NEW c \in Calls, Executes(c), Does(c)
        PROVE  FoundInv'
    <2>1. \A d \in Calls : window[d] \subseteq window'[d] /\ Key(d)' = Key(d)
      BY <1>5 DEF Executes, Become, Key
    <2>2. \A d \in Calls \ {c} : Found(d)' <=> Found(d)
      BY <1>5 DEF Executes, Found, Op, Program
    <2>3. Found(c)' => \E t \in window'[c] : t[Key(c)] # Absent
      <3>1. CASE pc[c] = 2
        <4>1. Found(c)' => Found(c)
          BY <1>5, <3>1 DEF Found, Executes, Op, Program
        <4> QED
          BY <2>1, <4>1 DEF FoundInv
      <3>2. CASE pc[c] # 2 /\ Found(c)'
        <4>1. /\ pc[c] = 1 /\ reply'[c] = "done" /\ Len(Program(c)) = 2
              /\ Op(c) \in {"update", "delete"}
          BY <1>5, <3>2 DEF Found, Executes, Op, Program
        <4>2. Statement(c) = "check"
          BY <4>1, ChecksFirst
        <4>3. LooksUp(c)
          BY <1>5, <4>2 DEF Does, Gets, Writes, Appends, Rewrites,
             DeletesUntil, ReadsTable, ReadsPoints, Fetches, Scans, Searches
        <4>4. table[Key(c)] # Absent /\ table \in window[c]
          BY <4>1, <4>3 DEF LooksUp, WindowInv
        <4> QED
          BY <2>1, <4>4
      <3> QED
        BY <3>1, <3>2
    <2> QED
      BY <2>1, <2>2, <2>3 DEF FoundInv
  <1>6. ASSUME NEW k \in Keys, Expire(k)
        PROVE  FoundInv'
    <2>1. \A d \in Calls : window[d] \subseteq window'[d]
      BY <1>6 DEF Expire, Become
    <2> QED
      BY <1>6, <2>1 DEF Expire, FoundInv, Found, Op, Key, Program
  <1>7. CASE UNCHANGED vars
    BY <1>7 DEF vars, FoundInv, Found, Op, Key, Program
  <1> QED
    BY <1>1, <1>2, <1>3, <1>4, <1>5, <1>6, <1>7, Steps DEF CallerStep

-----------------------------------------------------------------------------
(* The document that was inserted and cannot be read back                  *)

(* An adapter that reads back deletes in one statement, and no row of it   *)
(* expires.                                                                *)
LEMMA ReadBackTerms ==
  ASSUME TypeOK, CallInv, ReadsBack
  PROVE  /\ Expiring[adapter] = {}
         /\ \A c \in Calls : pc[c] # 0 =>
              /\ Statement(c) # "deleteUntil"
              /\ Op(c) = "delete" => Len(Program(c)) = 1
              /\ Op(c) = "create" => /\ pc[c] = 1 => Statement(c) = "insert"
                                     /\ pc[c] = 2 => Statement(c) = "readBack"
  <1>1. /\ Fits(Programs[adapter])
        /\ Expiring[adapter] # {} =>
             Programs[adapter]["create"] \in {<<"insert">>, <<"put">>}
    BY ProgramsAssumption DEF TypeOK
  <1>2. Programs[adapter]["delete"] = <<"delete">>
    BY <1>1 DEF Fits, ReadsBack
  <1>3. ASSUME NEW c \in Calls, pc[c] # 0
        PROVE  /\ Statement(c) # "deleteUntil"
               /\ Op(c) = "delete" => Len(Program(c)) = 1
               /\ Op(c) = "create" => /\ pc[c] = 1 => Statement(c) = "insert"
                                      /\ pc[c] = 2 => Statement(c) = "readBack"
    <2>1. Op(c) = "delete" => Len(Program(c)) = 1
      BY <1>2 DEF Program, Op
    <2>2. Op(c) = "create" => Program(c) = <<"insert", "readBack">>
      BY DEF ReadsBack, Program, Op
    <2>3. Statement(c) = "deleteUntil" => Op(c) = "delete" /\ Len(Program(c)) = 2
      BY <1>3, Places DEF At
    <2> QED
      BY <2>1, <2>2, <2>3 DEF Statement
  <1> QED
    BY <1>1, <1>3 DEF ReadsBack

(* A delete() that has deleted stays one.                                  *)
LEMMA DeletedStays ==
  ASSUME TypeOK, CallInv, WindowInv, ReadsBack, [Next]_vars,
         NEW k \in Keys, Deleted(k)
  PROVE  Deleted(k)'
  <1>1. PICK d \in Calls : Op(d) = "delete" /\ Key(d) = k /\ reply[d] = "done"
    BY DEF Deleted
  <1>2. pc[d] # 0
    BY <1>1 DEF CallInv
  <1>3. Len(Program(d)) = 1 /\ pc[d] = 1
    <2>1. Len(Program(d)) = 1 /\ pc[d] \in 1 .. Len(Program(d))
      BY <1>1, <1>2, ReadBackTerms DEF CallInv
    <2>2. pc[d] \in 1 .. 1
      BY <2>1
    <2> QED
      BY <2>1, <2>2
  <1>4. reply'[d] = "done" /\ request'[d] = request[d]
    <2>1. ASSUME NEW c \in Calls, NEW r \in Requests[c], Begin(c, r)
          PROVE  reply'[d] = "done" /\ request'[d] = request[d]
      <3>1. Begins(c, r)
        BY <2>1, BeginEffect
      <3> QED
        BY <1>1, <1>2, <3>1 DEF Begins
    <2>2. ASSUME NEW c \in Calls, SendNext(c)
          PROVE  reply'[d] = "done" /\ request'[d] = request[d]
      <3>1. Sends(c)
        BY <2>2, SendEffect
      <3>2. c # d
        <4>1. pc[c] < Len(Program(c))
          BY <3>1 DEF Sends
        <4>2. c = d => pc[c] = 1 /\ Len(Program(c)) = 1
          BY <1>3
        <4>3. ~ (1 < 1)
          OBVIOUS
        <4> QED
          BY <4>1, <4>2, <4>3, Zenon
      <3> QED
        BY <1>1, <3>1, <3>2 DEF Sends
    <2>3. ASSUME NEW c \in Calls,
                 \/ MakeConstraint(c) \/ Ensured(c) \/ Return(c)
                 \/ FailReadBack(c) \/ Raise(c)
          PROVE  reply'[d] = "done" /\ request'[d] = request[d]
      BY <1>1, <2>3
         DEF MakeConstraint, Ensured, Return, FailReadBack, Raise
    <2>4. ASSUME NEW c \in Calls, Executes(c)
          PROVE  reply'[d] = "done" /\ request'[d] = request[d]
      BY <1>1, <2>4 DEF Executes
    <2>5. CASE (\E j \in Keys : Expire(j)) \/ UNCHANGED vars
      BY <1>1, <2>5 DEF Expire, vars
    <2> QED
      BY <2>1, <2>2, <2>3, <2>4, <2>5, Steps DEF CallerStep
  <1> QED
    BY <1>1, <1>4 DEF Deleted, Op, Key

(* A row goes away by a delete() only.                                     *)
LEMMA RowStays ==
  ASSUME TypeOK, CallInv, WindowInv, ReadsBack, [Next]_vars,
         NEW k \in Keys, table[k] # Absent \/ Deleted(k)
  PROVE  table'[k] # Absent \/ Deleted(k)'
  <1>1. CASE Deleted(k)
    BY <1>1, DeletedStays
  <1>2. CASE table'[k] = table[k] /\ ~Deleted(k)
    BY <1>2
  <1>3. ASSUME NEW c \in Calls, CallerStep(c)
        PROVE  table' = table
    <2>1. ASSUME NEW r \in Requests[c], Begin(c, r)
          PROVE  table' = table
      BY <2>1 DEF Begin, Ask, database
    <2> QED
      BY <1>3, <2>1 DEF CallerStep, MakeConstraint, Ensured, SendNext, Return,
         FailReadBack, Raise, database
  <1>4. ASSUME NEW c \in Calls, Executes(c), Does(c), table[k] # Absent
        PROVE  table'[k] # Absent \/ Deleted(k)'
    <2>0. pc[c] # 0
      BY <1>4 DEF Executes
    <2>1. CASE Kept
      BY <1>4, <2>1 DEF Kept
    <2>2. CASE Wrote(c)
      <3>1. request[c].value \in Values /\ Key(c) \in Keys /\ DOMAIN table = Keys
        BY <2>0, Requested DEF TypeOK, Tables
      <3> QED
        BY <1>4, <2>2, <3>1, RepositoryAssumption DEF Wrote
    <2>3. CASE Removed(c) /\ Statement(c) = "delete" /\ reply'[c] = "done"
      <3>1. Op(c) = "delete" /\ Key(c) \in Keys /\ DOMAIN table = Keys
        BY <2>0, <2>3, Places, Requested DEF At, TypeOK, Tables
      <3>2. CASE k = Key(c)
        BY <1>4, <2>3, <3>1, <3>2 DEF Deleted, Executes, Op, Key
      <3>3. CASE k # Key(c)
        BY <1>4, <2>3, <3>1, <3>3 DEF Removed
      <3> QED
        BY <3>2, <3>3
    <2>4. Statement(c) # "deleteUntil"
      BY <2>0, ReadBackTerms
    <2>5. \/ Kept \/ Wrote(c)
          \/ Removed(c) /\ Statement(c) = "delete" /\ reply'[c] = "done"
      BY <1>4, <2>4 DEF Does, Gets, LooksUp, Writes, Appends, Rewrites,
         DeletesUntil, ReadsTable, ReadsPoints, Fetches, Scans, Searches
    <2> QED
      BY <2>1, <2>2, <2>3, <2>5
  <1>5. ASSUME NEW j \in Keys, Expire(j)
        PROVE  FALSE
    BY <1>5, ReadBackTerms DEF Expire
  <1>6. CASE UNCHANGED vars
    BY <1>1, <1>2, <1>6 DEF vars, database
  <1> QED
    BY <1>1, <1>2, <1>3, <1>4, <1>5, <1>6, Steps

(* Every step keeps ReadBackInv.                                           *)
LEMMA ReadBackStep ==
  ASSUME TypeOK, CallInv, WindowInv, ReadBackInv, [Next]_vars
  PROVE  ReadBackInv'
  <1>1. adapter' = adapter
    BY NextCases
       DEF CallerStep, Begin, Ask, MakeConstraint, Ensured, SendNext,
       Return, FailReadBack, Raise, Executes, Expire, vars
  <1>2. ReadsBack' <=> ReadsBack
    BY <1>1 DEF ReadsBack
  <1>3. ASSUME NEW c \in Calls,
               request'[c] = request[c], reply'[c] = reply[c],
               pc'[c] = pc[c] \/ reply[c] = "done",
               told'[c] = "builtin" =>
                 told[c] = "builtin" \/ (LostReadBack(c) /\ pc[c] # 0)
        PROVE  Back(c)'
    <2>1. Op(c)' = Op(c) /\ Key(c)' = Key(c)
      BY <1>3 DEF Op, Key
    <2>2. LostReadBack(c) /\ pc[c] # 0 =>
            Op(c) = "create" /\ ReadsBack /\ pc[c] = 2 /\ reply[c] = "missing"
      <3>1. SUFFICES ASSUME LostReadBack(c), pc[c] # 0
                     PROVE  /\ Op(c) = "create" /\ ReadsBack
                            /\ pc[c] = 2 /\ reply[c] = "missing"
        OBVIOUS
      <3>2. /\ Op(c) = "create" /\ pc[c] = 2 /\ Len(Program(c)) = 2
            /\ reply[c] = "missing"
        BY <3>1, Places DEF LostReadBack, At
      <3>3. Fits(Programs[adapter]) /\ Program(c) = Programs[adapter]["create"]
        BY <3>2, ProgramsAssumption DEF TypeOK, Program, Op
      <3>4. ReadsBack
        <4> DEFINE p == Programs[adapter]["create"]
        <4>1. p \in {<<"insert">>, <<"insert", "readBack">>, <<"put">>,
                     <<"append">>}
          BY <3>3 DEF Fits
        <4>2. Len(p) = 2
          BY <3>2, <3>3
        <4> HIDE DEF p
        <4>3. p = <<"insert", "readBack">>
          BY <4>1, <4>2
        <4> QED
          BY <4>3 DEF ReadsBack, p
      <3> QED
        BY <3>2, <3>4
    <2>3. told'[c] = "builtin" => ReadsBack /\ Op(c) = "create"
      BY <1>3, <2>2 DEF ReadBackInv, Back
    <2>4. ASSUME ReadsBack, Op(c) = "create"
          PROVE  ReadBack(c)'
      <3>1. CASE pc[c] = 0
        BY <1>3, <2>1, <3>1 DEF CallInv, ReadBack
      <3>2. CASE pc[c] # 0
        <4>1. PICK k \in Keys : k = Key(c)
          BY <3>2, Requested
        <4>2. ReadBack(c)
          BY <2>4 DEF ReadBackInv, Back
        <4>3. told'[c] = "builtin" => Deleted(k)
          BY <1>3, <2>2, <4>1, <4>2 DEF ReadBack
        <4>4. Deleted(k) => Deleted(k)'
          BY <2>4, DeletedStays
        <4>5. table[k] # Absent \/ Deleted(k) =>
                table'[k] # Absent \/ Deleted(k)'
          BY <2>4, RowStays
        <4>6. Key(c)' = k
          BY <2>1, <4>1
        <4>7. /\ pc[c] = 2 \/ reply[c] = "done" => table[k] # Absent \/ Deleted(k)
              /\ pc[c] = 2 /\ reply[c] = "missing" => Deleted(k)
          BY <4>1, <4>2 DEF ReadBack
        <4>8. /\ pc'[c] = 2 \/ reply'[c] = "done" =>
                   table'[k] # Absent \/ Deleted(k)'
              /\ pc'[c] = 2 /\ reply'[c] = "missing" => Deleted(k)'
              /\ told'[c] = "builtin" => Deleted(k)'
          BY <1>3, <4>3, <4>4, <4>5, <4>7
        <4> QED
          BY <4>6, <4>8 DEF ReadBack, Deleted
      <3> QED
        BY <3>1, <3>2
    <2> QED
      BY <1>2, <2>1, <2>3, <2>4 DEF Back
  <1>4. ASSUME NEW c \in Calls, NEW r \in Requests[c], Begin(c, r)
        PROVE  ReadBackInv'
    <2>1. Begins(c, r)
      BY <1>4, BeginEffect
    <2>2. /\ pc'[c] = 1 /\ reply'[c] = "none" /\ told'[c] = "no"
      BY <2>1 DEF Begins, CallInv
    <2>3. ReadBack(c)'
      BY <2>2 DEF ReadBack
    <2>4. Back(c)'
      BY <2>2, <2>3 DEF Back
    <2>5. ASSUME NEW d \in Calls \ {c}
          PROVE  Back(d)'
      BY <1>3, <2>1 DEF Begins
    <2> QED
      BY <2>4, <2>5 DEF ReadBackInv
  <1>5. ASSUME NEW c \in Calls, SendNext(c)
        PROVE  ReadBackInv'
    <2>1. Sends(c)
      BY <1>5, SendEffect
    <2>2. ASSUME NEW d \in Calls \ {c}
          PROVE  Back(d)'
      BY <1>3, <2>1 DEF Sends
    <2>3. Back(c)'
      <3>1. /\ pc[c] # 0 /\ told'[c] = "no" /\ reply[c] = "done"
            /\ pc'[c] = pc[c] + 1 /\ reply'[c] = "none"
            /\ request' = request
        BY <2>1 DEF Sends, Open
      <3>2. ASSUME ReadsBack, Op(c) = "create"
            PROVE  ReadBack(c)'
        <4>1. PICK k \in Keys : k = Key(c)
          BY <3>1, Requested
        <4>2. table[k] # Absent \/ Deleted(k)
          BY <3>1, <3>2, <4>1 DEF ReadBackInv, Back, ReadBack
        <4>3. table'[k] # Absent \/ Deleted(k)'
          BY <3>2, <4>2, RowStays
        <4> QED
          BY <3>1, <4>1, <4>3 DEF ReadBack, Key, Deleted
      <3> QED
        BY <1>2, <3>1, <3>2 DEF Back, Op
    <2> QED
      BY <2>2, <2>3 DEF ReadBackInv
  <1>6. ASSUME NEW c \in Calls,
               \/ MakeConstraint(c) \/ Ensured(c) \/ Return(c)
               \/ FailReadBack(c) \/ Raise(c)
        PROVE  ReadBackInv'
    <2>1. /\ UNCHANGED <<request, pc, reply>>
          /\ \A d \in Calls : told'[d] = "builtin" =>
               told[d] = "builtin" \/ (LostReadBack(d) /\ pc[d] # 0)
      BY <1>6 DEF MakeConstraint, Ensured, Return, FailReadBack, Raise, Open,
         TypeOK
    <2>2. ASSUME NEW d \in Calls
          PROVE  Back(d)'
      BY <1>3, <2>1
    <2> QED
      BY <2>2 DEF ReadBackInv
  <1>7. ASSUME NEW c \in Calls, Executes(c), Does(c)
        PROVE  ReadBackInv'
    <2>1. ASSUME NEW d \in Calls \ {c}
          PROVE  Back(d)'
      BY <1>3, <1>7 DEF Executes
    <2>2. Back(c)'
      <3>1. pc[c] # 0 /\ UNCHANGED <<request, pc, told>>
        BY <1>7 DEF Executes
      <3>2. ASSUME ReadsBack, Op(c) = "create"
            PROVE  ReadBack(c)'
        <4>1. PICK k \in Keys : k = Key(c)
          BY <3>1, Requested
        <4>2. Deleted(k) => Deleted(k)'
          BY <3>2, DeletedStays
        <4>3. table[k] # Absent \/ Deleted(k) =>
                table'[k] # Absent \/ Deleted(k)'
          BY <3>2, RowStays
        <4>4. ReadBack(c)
          BY <3>2 DEF ReadBackInv, Back
        <4>5. pc'[c] = 2 \/ reply'[c] = "done" =>
                table'[k] # Absent \/ Deleted(k)'
          <5>1. CASE pc[c] = 2
            BY <3>1, <4>1, <4>3, <4>4, <5>1 DEF ReadBack
          <5>2. CASE pc[c] = 1
            <6>1. Statement(c) = "insert"
              BY <3>2, <5>2, ReadBackTerms
            <6>2. Writes(c)
              BY <1>7, <6>1 DEF Does, Gets, LooksUp, Appends, Rewrites,
                 DeletesUntil, ReadsTable, ReadsPoints, Fetches, Scans,
                 Searches
            <6>3. reply'[c] = "done" => Wrote(c)
              BY <6>1, <6>2 DEF Writes
            <6>4. request[c].value # Absent /\ DOMAIN table = Keys
              BY <3>1, Requested, RepositoryAssumption DEF TypeOK, Tables
            <6> QED
              BY <3>1, <4>1, <5>2, <6>3, <6>4 DEF Wrote
          <5> QED
            BY <3>1, <5>1, <5>2 DEF TypeOK
        <4>6. pc'[c] = 2 /\ reply'[c] = "missing" => Deleted(k)'
          <5>1. SUFFICES ASSUME pc[c] = 2, reply'[c] = "missing"
                         PROVE  Deleted(k)
            BY <3>1, <4>2
          <5>2. Statement(c) = "readBack"
            BY <3>2, <5>1, ReadBackTerms
          <5>3. LooksUp(c)
            BY <1>7, <5>2 DEF Does, Gets, Writes, Appends, Rewrites,
               DeletesUntil, ReadsTable, ReadsPoints, Fetches, Scans, Searches
          <5>4. table[k] = Absent
            BY <4>1, <5>1, <5>3 DEF LooksUp
          <5> QED
            BY <4>1, <4>4, <5>1, <5>4 DEF ReadBack
        <4>7. told'[c] = "builtin" => Deleted(k)'
          BY <3>1, <4>1, <4>2, <4>4 DEF ReadBack
        <4>8. Key(c)' = k
          BY <3>1, <4>1 DEF Key
        <4> QED
          BY <4>5, <4>6, <4>7, <4>8 DEF ReadBack, Deleted
      <3>3. told[c] = "builtin" => ReadsBack /\ Op(c) = "create"
        BY DEF ReadBackInv, Back
      <3> QED
        BY <1>2, <3>1, <3>2, <3>3 DEF Back, Op
    <2> QED
      BY <2>1, <2>2 DEF ReadBackInv
  <1>8. CASE (\E k \in Keys : Expire(k)) \/ UNCHANGED vars
    <2>1. ASSUME NEW d \in Calls
          PROVE  Back(d)'
      BY <1>3, <1>8 DEF Expire, vars
    <2> QED
      BY <2>1 DEF ReadBackInv
  <1> QED
    BY <1>4, <1>5, <1>6, <1>7, <1>8, Steps DEF CallerStep

-----------------------------------------------------------------------------
(* What a list() has collected                                             *)

(* The size of a set of rows and of a part of it.                          *)
LEMMA SmallerSet ==
  ASSUME NEW T \in SUBSET Keys, NEW S \in SUBSET T
  PROVE  /\ IsFiniteSet(S) /\ Cardinality(S) \in Nat
         /\ Cardinality(T) \in Nat /\ Cardinality(S) <= Cardinality(T)
  <1>1. IsFiniteSet(T)
    BY RepositoryAssumption, FS_Subset
  <1> QED
    BY <1>1, FS_Subset, FS_CardinalityType

(* The size of two sets of rows that have none in common.                  *)
LEMMA DisjointSum ==
  ASSUME NEW S \in SUBSET Keys, NEW T \in SUBSET Keys, S \intersect T = {}
  PROVE  Cardinality(S \union T) = Cardinality(S) + Cardinality(T)
  <1>1. IsFiniteSet(S) /\ IsFiniteSet(T)
    BY RepositoryAssumption, FS_Subset
  <1>2. Cardinality(S \intersect T) = 0
    BY FS_EmptySet
  <1>3. /\ Cardinality(S) \in Nat /\ Cardinality(T) \in Nat
        /\ Cardinality(S \union T) =
             Cardinality(S) + Cardinality(T) - Cardinality(S \intersect T)
    BY <1>1, FS_Union, FS_CardinalityType
  <1> QED
    BY <1>2, <1>3

(* The two statements of a list().                                         *)
LEMMA ListPairs ==
  ASSUME NEW a \in Adapters, Len(Programs[a]["list"]) = 2
  PROVE  LET p == Programs[a]["list"] IN
         \/ p[1] \in {"page", "scanPage"} /\ p[2] \in {"total", "scanTotal"}
         \/ p[1] = "scanKeys" /\ p[2] = "fetchPage"
  <1> DEFINE p == Programs[a]["list"]
  <1>1. p \in {<<"pageAndTotal">>, <<"page", "total">>, <<"points">>,
               <<"scanPage", "scanTotal">>, <<"scanKeys", "fetchPage">>}
    BY ProgramsAssumption DEF Fits
  <1>2. Len(p) = 2
    OBVIOUS
  <1> HIDE DEF p
  <1>3. \/ p[1] \in {"page", "scanPage"} /\ p[2] \in {"total", "scanTotal"}
        \/ p[1] = "scanKeys" /\ p[2] = "fetchPage"
    BY <1>1, <1>2
  <1> QED
    BY <1>3 DEF p

(* Bounds on a total survive when the set below shrinks and the one above  *)
(* grows.                                                                  *)
LEMMA WiderBounds ==
  ASSUME NEW A \in SUBSET Keys, NEW B \in SUBSET Keys,
         NEW A1 \in SUBSET A, NEW B1 \in SUBSET Keys, B \subseteq B1,
         NEW n \in Nat, Cardinality(A) <= n, n <= Cardinality(B)
  PROVE  Cardinality(A1) <= n /\ n <= Cardinality(B1)
  <1>1. /\ Cardinality(A) \in Nat /\ Cardinality(B) \in Nat
        /\ Cardinality(A1) \in Nat /\ Cardinality(B1) \in Nat
        /\ Cardinality(A1) <= Cardinality(A)
        /\ Cardinality(B) <= Cardinality(B1)
    BY SmallerSet
  <1> QED
    BY <1>1

(* Counting the hits h among the keys S, of those still to do.             *)
LEMMA CountedHits ==
  ASSUME NEW A \in SUBSET Keys, NEW B \in SUBSET Keys, NEW h \in SUBSET Keys,
         NEW todo \in SUBSET Keys, NEW S \in SUBSET todo, NEW n \in Nat,
         A \intersect S \subseteq h, h \subseteq B \intersect S,
         Cardinality(A \ todo) <= n, n <= Cardinality(B \ todo)
  PROVE  /\ Cardinality(A \ (todo \ S)) <= n + Cardinality(h)
         /\ n + Cardinality(h) <= Cardinality(B \ (todo \ S))
         /\ Cardinality(h) \in Nat
  <1>1. /\ A \ (todo \ S) = (A \ todo) \union (A \intersect S)
        /\ B \ (todo \ S) = (B \ todo) \union (B \intersect S)
    OBVIOUS
  <1>2. /\ Cardinality(A \ (todo \ S)) =
             Cardinality(A \ todo) + Cardinality(A \intersect S)
        /\ Cardinality(B \ (todo \ S)) =
             Cardinality(B \ todo) + Cardinality(B \intersect S)
    <2>1. /\ (A \ todo) \intersect (A \intersect S) = {}
          /\ (B \ todo) \intersect (B \intersect S) = {}
      OBVIOUS
    <2>2. /\ A \ todo \in SUBSET Keys /\ A \intersect S \in SUBSET Keys
          /\ B \ todo \in SUBSET Keys /\ B \intersect S \in SUBSET Keys
      OBVIOUS
    <2> QED
      BY <1>1, <2>1, <2>2, DisjointSum
  <1>3. /\ Cardinality(A \intersect S) <= Cardinality(h)
        /\ Cardinality(A \intersect S) \in Nat /\ Cardinality(h) \in Nat
    BY SmallerSet
  <1>4. /\ Cardinality(h) <= Cardinality(B \intersect S)
        /\ Cardinality(B \intersect S) \in Nat
    <2>1. B \intersect S \in SUBSET Keys
      OBVIOUS
    <2> QED
      BY <2>1, SmallerSet
  <1>5. Cardinality(A \ todo) \in Nat /\ Cardinality(B \ todo) \in Nat
    <2>1. A \ todo \in SUBSET Keys /\ B \ todo \in SUBSET Keys
      OBVIOUS
    <2> QED
      BY <2>1, SmallerSet
  <1> QED
    BY <1>2, <1>3, <1>4, <1>5

(* A step that leaves the call alone, and its window no smaller.           *)
LEMMA ListsOn ==
  ASSUME NEW c \in Calls, Lists(c), window[c] \subseteq window'[c],
         local[c].total \in Nat,
         UNCHANGED <<adapter, request[c], pc[c], reply[c], local[c]>>
  PROVE  Lists(c)'
  <1>1. /\ Stayed(c)' \subseteq Stayed(c) /\ Seen(c) \subseteq Seen(c)'
        /\ Stayed(c) \subseteq Keys /\ Seen(c)' \subseteq Keys
    BY DEF Stayed, Seen
  <1>2. PageRest(c)' = PageRest(c) /\ TotalRest(c)' = TotalRest(c)
    BY DEF PageRest, TotalRest, Statement, Program
  <1> DEFINE A == Stayed(c) \ TotalRest(c)
             B == Seen(c) \ TotalRest(c)
             A1 == Stayed(c)' \ TotalRest(c)'
             B1 == Seen(c)' \ TotalRest(c)'
  <1>3. A \in SUBSET Keys /\ B1 \in SUBSET Keys /\ A1 \subseteq A
        /\ B \subseteq B1 /\ B \in SUBSET Keys
    BY <1>1, <1>2
  <1>4. Cardinality(A) <= local[c].total /\ local[c].total <= Cardinality(B)
    BY DEF Lists
  <1> HIDE DEF A, B, A1, B1
  <1>5. Cardinality(A1) <= local[c].total /\ local[c].total <= Cardinality(B1)
    BY <1>3, <1>4, WiderBounds
  <1>6. /\ Cardinality(Stayed(c)' \ TotalRest(c)') <= local'[c].total
        /\ local'[c].total <= Cardinality(Seen(c)' \ TotalRest(c)')
    BY <1>5 DEF A1, B1
  <1>7. /\ Stayed(c)' \ PageRest(c)' \subseteq local'[c].page
        /\ local'[c].page \subseteq Seen(c)'
        /\ reply'[c] = "done" => local'[c].todo = {}
    BY <1>1, <1>2 DEF Lists
  <1> QED
    BY <1>6, <1>7 DEF Lists

(* A list() that begins has read nothing.                                  *)
LEMMA ListBegins ==
  ASSUME TypeOK, CallInv, LocalInv, NEW c \in Calls, NEW r \in Requests[c],
         Begins(c, r), Listing(c)'
  PROVE  Lists(c)'
  <1>1. /\ local'[c].page = {} /\ local'[c].total = 0 /\ local'[c].todo = Keys
        /\ pc'[c] = 1 /\ reply'[c] = "none"
    <2>1. Op(c) = "none" /\ reply[c] = "none"
      BY DEF Begins, CallInv, Op, NoRequest
    <2>2. local[c].page = {} /\ local[c].total = 0
      BY <2>1 DEF LocalInv
    <2>3. local[c] \in [value : Values \union {Absent}, page : SUBSET Keys,
                        total : 0 .. Cardinality(Keys) + Cardinality(Calls),
                        todo : SUBSET Keys, stamp : 0 .. clock]
      BY DEF TypeOK
    <2> QED
      BY <2>1, <2>2, <2>3 DEF Begins
  <1>2. PageRest(c)' = Keys
    BY <1>1 DEF PageRest
  <1>3. TotalRest(c)' = Keys
    <2>1. Len(Programs[adapter]["list"]) = 2 /\ adapter' = adapter
          /\ request'[c].op = "list"
      BY DEF Listing, Op, Program, Begins
    <2>2. Statement(c)' = Programs[adapter]["list"][1]
      BY <1>1, <2>1 DEF Statement, Program
    <2>3. Statement(c)' # "fetchPage"
      BY <2>1, <2>2, ListPairs DEF TypeOK
    <2> QED
      BY <1>1, <2>3 DEF TotalRest
  <1>4. Stayed(c)' \ Keys = {} /\ Seen(c)' \ Keys = {}
    BY DEF Stayed, Seen
  <1>5. Cardinality({}) = 0
    BY FS_EmptySet
  <1> QED
    BY <1>1, <1>2, <1>3, <1>4, <1>5 DEF Lists

(* Between the two statements everything is there that a scan finds.       *)
LEMMA ListSends ==
  ASSUME TypeOK, CallInv, ListInv, NEW c \in Calls, Sends(c), Listing(c)'
  PROVE  Lists(c)'
  <1>1. /\ Open(c) /\ reply[c] = "done" /\ Op(c) = "list"
        /\ Len(Programs[adapter]["list"]) = 2
        /\ Program(c) = Programs[adapter]["list"]
        /\ Program(c)' = Program(c)
    BY DEF Sends, Listing, Op, Program
  <1>2. pc[c] = 1 /\ pc'[c] = 2
    <2>1. pc[c] \in 0 .. 2 /\ pc[c] # 0 /\ pc[c] < Len(Program(c))
          /\ pc'[c] = pc[c] + 1
      BY DEF Sends, Open, TypeOK
    <2>2. Len(Program(c)) = 2
      BY <1>1
    <2>3. pc[c] < 2
      BY <2>1, <2>2
    <2> QED
      BY <2>1, <2>3
  <1>3. Lists(c) /\ local[c].todo = {}
    BY <1>1 DEF ListInv, Lists, Listing
  <1>4. /\ Statement(c) = Programs[adapter]["list"][1]
        /\ Statement(c)' = Programs[adapter]["list"][2]
    BY <1>1, <1>2 DEF Statement
  <1>5. /\ local'[c].page = local[c].page /\ local'[c].total = local[c].total
        /\ local'[c].todo = Keys /\ reply'[c] = "none"
        /\ Stayed(c)' = Stayed(c) /\ Seen(c)' = Seen(c)
    BY DEF Sends, Stayed, Seen
  <1>6. PageRest(c) = {} /\ PageRest(c)' = {}
    BY <1>2, <1>3 DEF PageRest
  <1>7. CASE /\ Statement(c) \in {"page", "scanPage"}
             /\ Statement(c)' \in {"total", "scanTotal"}
    <2>1. TotalRest(c) = Keys /\ TotalRest(c)' = Keys
      BY <1>5, <1>7 DEF TotalRest
    <2> QED
      BY <1>3, <1>5, <1>6, <2>1 DEF Lists
  <1>8. CASE Statement(c) = "scanKeys" /\ Statement(c)' = "fetchPage"
    <2>1. TotalRest(c) = {} /\ TotalRest(c)' = {}
      BY <1>3, <1>8 DEF TotalRest
    <2> QED
      BY <1>3, <1>5, <1>6, <2>1 DEF Lists
  <1> QED
    BY <1>1, <1>4, <1>7, <1>8, ListPairs DEF TypeOK

(* A piece of the list is read.                                            *)
LEMMA ListReads ==
  ASSUME TypeOK, CallInv, WindowInv, ListInv,
         NEW c \in Calls, Executes(c), Does(c), Listing(c)'
  PROVE  Lists(c)'
  <1>1. Listing(c) /\ Lists(c) /\ pc[c] # 0 /\ Op(c) = "list"
        /\ Len(Program(c)) = 2 /\ table \in window[c]
    BY DEF Listing, Executes, Open, Op, Program, ListInv, WindowInv
  <1>2. /\ pc'[c] = pc[c] /\ Statement(c)' = Statement(c)
        /\ PageRest(c)' = IF pc[c] = 1 THEN local'[c].todo ELSE {}
        /\ TotalRest(c)' =
             IF Statement(c) \in {"page", "scanPage"} THEN Keys
             ELSE IF Statement(c) = "fetchPage" THEN {} ELSE local'[c].todo
    BY DEF Executes, Statement, Program, PageRest, TotalRest
  <1>3. Kept => Stayed(c)' = Stayed(c) /\ Seen(c)' = Seen(c)
    <2>1. Kept => window'[c] = window[c]
      BY <1>1 DEF Kept, Executes, Become
    <2> QED
      BY <2>1 DEF Stayed, Seen
  <1>4. /\ Stayed(c) \subseteq Rows(table) /\ Rows(table) \subseteq Seen(c)
        /\ Seen(c) \subseteq Keys
    BY <1>1 DEF Stayed, Seen, Rows
  <1>5. local[c] \in [value : Values \union {Absent}, page : SUBSET Keys,
                      total : 0 .. Cardinality(Keys) + Cardinality(Calls),
                      todo : SUBSET Keys, stamp : 0 .. clock]
    BY DEF TypeOK
  <1>6. local[c].total \in Nat /\ local[c].todo \in SUBSET Keys
    BY <1>5, RepositoryAssumption, FS_CardinalityType
  <1>7. /\ Statement(c) \in {"page", "scanPage", "scanKeys"} => pc[c] = 1
        /\ Statement(c) \in {"total", "scanTotal", "fetchPage"} => pc[c] = 2
        /\ Statement(c) \in {"page", "scanPage", "scanKeys", "total",
                             "scanTotal", "fetchPage"}
    <2>1. Len(Programs[adapter]["list"]) = 2 /\ adapter \in Adapters
          /\ Statement(c) = Programs[adapter]["list"][pc[c]]
      BY <1>1 DEF Program, Op, TypeOK, Statement
    <2>2. pc[c] = 1 \/ pc[c] = 2
      BY <1>1 DEF TypeOK
    <2> QED
      BY <2>1, <2>2, ListPairs
  <1>8. CASE ReadsTable(c)
    <2>1. /\ Stayed(c)' = Stayed(c) /\ Seen(c)' = Seen(c)
          /\ local'[c].todo = {}
          /\ local'[c].page =
               IF Statement(c) = "total" THEN local[c].page ELSE Rows(table)
          /\ local'[c].total = IF Statement(c) = "page" THEN local[c].total
                              ELSE Cardinality(Rows(table))
      BY <1>3, <1>5, <1>8 DEF ReadsTable
    <2>2. Statement(c) \in {"page", "total"}
      BY <1>7, <1>8 DEF ReadsTable
    <2>3. CASE Statement(c) = "page"
      <3>1. TotalRest(c)' = Keys /\ TotalRest(c) = Keys
        BY <1>2, <2>3 DEF TotalRest
      <3> QED
        BY <1>1, <1>4, <2>1, <2>3, <3>1 DEF Lists
    <2>4. CASE Statement(c) = "total"
      <3>1. TotalRest(c)' = {} /\ PageRest(c)' = {} /\ PageRest(c) = {}
        BY <1>2, <1>7, <2>1, <2>4 DEF PageRest
      <3>2. /\ Cardinality(Stayed(c)) <= Cardinality(Rows(table))
            /\ Cardinality(Rows(table)) <= Cardinality(Seen(c))
        <4>1. Rows(table) \in SUBSET Keys
          BY DEF Rows
        <4> QED
          BY <1>4, <4>1, SmallerSet
      <3> QED
        BY <1>1, <2>1, <2>4, <3>1, <3>2 DEF Lists
    <2> QED
      BY <2>2, <2>3, <2>4
  <1>9. CASE Fetches(c)
    <2>1. /\ Stayed(c)' = Stayed(c) /\ Seen(c)' = Seen(c)
          /\ local'[c].todo = {} /\ local'[c].total = local[c].total
          /\ local'[c].page = local[c].page \intersect Rows(table)
          /\ Statement(c) = "fetchPage"
      BY <1>3, <1>5, <1>9 DEF Fetches
    <2>2. /\ PageRest(c)' = {} /\ PageRest(c) = {}
          /\ TotalRest(c)' = {} /\ TotalRest(c) = {}
      BY <1>2, <1>7, <2>1 DEF PageRest, TotalRest
    <2> QED
      BY <1>1, <1>4, <2>1, <2>2 DEF Lists
  <1>10. ASSUME NEW S \in SUBSET Keys, Scans(c, S)
         PROVE  Lists(c)'
    <2> DEFINE hits == S \intersect Rows(table)
    <2>1. /\ Stayed(c)' = Stayed(c) /\ Seen(c)' = Seen(c)
          /\ S \subseteq local[c].todo
          /\ local'[c].todo = local[c].todo \ S
          /\ local'[c].page = IF Statement(c) = "scanTotal" THEN local[c].page
                             ELSE local[c].page \union hits
          /\ local'[c].total = IF Statement(c) = "scanPage" THEN local[c].total
                              ELSE local[c].total + Cardinality(hits)
          /\ Statement(c) \in {"scanPage", "scanTotal", "scanKeys"}
          /\ reply'[c] = IF local[c].todo \ S = {} THEN "done" ELSE "none"
      BY <1>3, <1>5, <1>10 DEF Scans
    <2>2. /\ Stayed(c) \intersect S \subseteq hits
          /\ hits \subseteq Seen(c) \intersect S
      BY <1>4
    <2> HIDE DEF hits
    <2>3. reply'[c] = "done" => local'[c].todo = {}
      BY <2>1
    <2>4. /\ Stayed(c)' \ PageRest(c)' \subseteq local'[c].page
          /\ local'[c].page \subseteq Seen(c)'
      <3>1. /\ Stayed(c) \ PageRest(c) \subseteq local[c].page
            /\ local[c].page \subseteq Seen(c)
        BY <1>1 DEF Lists
      <3>2. CASE Statement(c) = "scanTotal"
        <4>1. PageRest(c)' = {} /\ PageRest(c) = {}
          BY <1>2, <1>7, <3>2 DEF PageRest
        <4> QED
          BY <2>1, <3>1, <3>2, <4>1
      <3>3. CASE Statement(c) # "scanTotal"
        <4>1. PageRest(c)' = local[c].todo \ S /\ PageRest(c) = local[c].todo
          BY <1>2, <1>7, <2>1, <3>3 DEF PageRest
        <4> QED
          BY <2>1, <2>2, <3>1, <3>3, <4>1
      <3> QED
        BY <3>2, <3>3
    <2>5. /\ Cardinality(Stayed(c)' \ TotalRest(c)') <= local'[c].total
          /\ local'[c].total <= Cardinality(Seen(c)' \ TotalRest(c)')
      <3>1. /\ Cardinality(Stayed(c) \ TotalRest(c)) <= local[c].total
            /\ local[c].total <= Cardinality(Seen(c) \ TotalRest(c))
        BY <1>1 DEF Lists
      <3>2. CASE Statement(c) = "scanPage"
        <4>1. TotalRest(c)' = Keys /\ TotalRest(c) = Keys
          BY <1>2, <3>2 DEF TotalRest
        <4> QED
          BY <2>1, <3>1, <3>2, <4>1
      <3>3. CASE Statement(c) # "scanPage"
        <4>1. TotalRest(c)' = local[c].todo \ S /\ TotalRest(c) = local[c].todo
          BY <1>2, <2>1, <3>3 DEF TotalRest
        <4>2. /\ Stayed(c) \in SUBSET Keys /\ Seen(c) \in SUBSET Keys
              /\ hits \in SUBSET Keys /\ S \in SUBSET local[c].todo
          BY <1>4, <2>1, <2>2 DEF Stayed
        <4>3. /\ Cardinality(Stayed(c) \ (local[c].todo \ S)) <=
                   local[c].total + Cardinality(hits)
              /\ local[c].total + Cardinality(hits) <=
                   Cardinality(Seen(c) \ (local[c].todo \ S))
          BY <1>6, <2>2, <3>1, <4>1, <4>2, CountedHits
        <4> QED
          BY <2>1, <3>3, <4>1, <4>3
      <3> QED
        BY <3>2, <3>3
    <2> QED
      BY <2>3, <2>4, <2>5 DEF Lists
  <1> QED
    BY <1>7, <1>8, <1>9, <1>10 DEF Does, Gets, LooksUp, Writes, Appends,
       Rewrites, DeletesUntil, ReadsPoints, Searches

(* Every step keeps ListInv.                                               *)
LEMMA ListStep ==
  ASSUME TypeOK, CallInv, WindowInv, LocalInv, ListInv, [Next]_vars
  PROVE  ListInv'
  <1>1. \A c \in Calls : local[c].total \in Nat
    <2>1. local \in [Calls ->
               [value : Values \union {Absent}, page : SUBSET Keys,
                total : 0 .. Cardinality(Keys) + Cardinality(Calls),
                todo : SUBSET Keys, stamp : 0 .. clock]]
      BY DEF TypeOK
    <2> QED
      BY <2>1
  <1>2. ASSUME NEW c \in Calls, window[c] \subseteq window'[c],
               UNCHANGED <<adapter, request[c], pc[c], reply[c], local[c]>>,
               Listing(c)' => Listing(c), Listing(c)'
        PROVE  Lists(c)'
    BY <1>1, <1>2, ListsOn DEF ListInv
  <1>3. ASSUME NEW c \in Calls, NEW r \in Requests[c], Begin(c, r)
        PROVE  ListInv'
    <2>1. Begins(c, r)
      BY <1>3, BeginEffect
    <2>2. ASSUME NEW d \in Calls \ {c}, Listing(d)'
          PROVE  Lists(d)'
      BY <1>2, <2>1, <2>2 DEF Begins, Listing, Open, Op, Program
    <2> QED
      BY <2>1, <2>2, ListBegins DEF ListInv
  <1>4. ASSUME NEW c \in Calls, SendNext(c)
        PROVE  ListInv'
    <2>1. Sends(c)
      BY <1>4, SendEffect
    <2>2. ASSUME NEW d \in Calls \ {c}, Listing(d)'
          PROVE  Lists(d)'
      BY <1>2, <2>1, <2>2 DEF Sends, Listing, Open, Op, Program
    <2> QED
      BY <2>1, <2>2, ListSends DEF ListInv
  <1>5. ASSUME NEW c \in Calls,
               \/ MakeConstraint(c) \/ Ensured(c) \/ Return(c)
               \/ FailReadBack(c) \/ Raise(c)
        PROVE  ListInv'
    <2>1. ASSUME NEW d \in Calls, Listing(d)'
          PROVE  Lists(d)'
      <3>1. /\ UNCHANGED <<adapter, request, pc, reply, local>>
            /\ \/ told' = told /\ window' = window
               \/ /\ told'[c] # "no"
                  /\ \A e \in Calls \ {c} :
                       told'[e] = told[e] /\ window'[e] = window[e]
        BY <1>5 DEF MakeConstraint, Ensured, Return, FailReadBack, Raise,
           database, TypeOK
      <3>2. told'[d] = "no" /\ told'[d] = told[d] /\ window'[d] = window[d]
        BY <2>1, <3>1 DEF Listing, Open
      <3> QED
        BY <1>2, <2>1, <3>1, <3>2 DEF Listing, Open, Op, Program
    <2> QED
      BY <2>1 DEF ListInv
  <1>6. ASSUME NEW c \in Calls, Executes(c), Does(c)
        PROVE  ListInv'
    <2>1. ASSUME NEW d \in Calls \ {c}, Listing(d)'
          PROVE  Lists(d)'
      BY <1>2, <1>6, <2>1 DEF Executes, Become, Listing, Open, Op, Program
    <2> QED
      BY <1>6, <2>1, ListReads DEF ListInv
  <1>7. ASSUME NEW k \in Keys, Expire(k)
        PROVE  ListInv'
    <2>1. ASSUME NEW d \in Calls, Listing(d)'
          PROVE  Lists(d)'
      BY <1>2, <1>7, <2>1 DEF Expire, Become, Listing, Open, Op, Program
    <2> QED
      BY <2>1 DEF ListInv
  <1>8. CASE UNCHANGED vars
    <2>1. ASSUME NEW d \in Calls, Listing(d)'
          PROVE  Lists(d)'
      BY <1>2, <1>8, <2>1 DEF vars, Listing, Open, Op, Program
    <2> QED
      BY <2>1 DEF ListInv
  <1> QED
    BY <1>3, <1>4, <1>5, <1>6, <1>7, <1>8, Steps DEF CallerStep

-----------------------------------------------------------------------------
(* The points of InfluxDB                                                  *)

(* The latest of some times.                                               *)
LEMMA MaxIn ==
  ASSUME NEW n \in Nat, NEW S \in SUBSET (0 .. n), S # {}
  PROVE  Max(S) \in S /\ \A x \in S : x <= Max(S)
  <1> DEFINE T == {n - x : x \in S}
             R == {ss \in Nat \X Nat : ss[1] < ss[2]}
  <1>1. T \subseteq Nat
    OBVIOUS
  <1>2. T # {}
    OBVIOUS
  <1>3. IsWellFoundedOn(R, Nat)
    BY NatLessThanWellFounded DEF OpToRel
  <1> HIDE DEF R
  <1>4. \E y \in T : \A z \in T : ~(<<z, y>> \in R)
    <2> HIDE DEF T
    <2> QED
      BY <1>1, <1>2, <1>3, WFMin
  <1>5. PICK y \in T : \A z \in T : ~(<<z, y>> \in R)
    BY <1>4
  <1>6. \A z \in T : y <= z
    <2> TAKE z \in T
    <2>1. z \in Nat /\ y \in Nat
      BY <1>1
    <2>2. <<z, y>> \notin R
      BY <1>5
    <2> HIDE DEF T
    <2> QED
      BY <2>1, <2>2 DEF R
  <1>7. PICK x \in S : y = n - x
    OBVIOUS
  <1>8. \A z \in S : z <= x
    BY <1>6, <1>7
  <1> QED
    BY <1>8 DEF Max

(* An adapter that appends points does so in all its operations.           *)
LEMMA PointTerms ==
  ASSUME TypeOK, CallInv
  PROVE  /\ AppendsPoints => Expiring[adapter] = {}
         /\ \A c \in Calls : pc[c] # 0 =>
              /\ AppendsPoints =>
                   Statement(c) \in {"get", "check", "append", "rewrite",
                                     "deleteUntil", "points", "search"}
              /\ Statement(c) \in {"append", "rewrite", "deleteUntil"} =>
                   AppendsPoints
              /\ Statement(c) = "points" => AppendsPoints
              /\ AppendsPoints /\ Op(c) = "create" => Len(Program(c)) = 1
              /\ Statement(c) = "append" => Op(c) = "create"
              /\ Statement(c) = "rewrite" => Op(c) = "update"
  <1> DEFINE P == Programs[adapter]
  <1>1. /\ Fits(P)
        /\ Expiring[adapter] # {} => P["create"] \in {<<"insert">>, <<"put">>}
    BY ProgramsAssumption DEF TypeOK
  <1>2. AppendsPoints => Expiring[adapter] = {}
    BY <1>1 DEF AppendsPoints
  <1>3. AppendsPoints => /\ P["update"] = <<"check", "rewrite">>
                         /\ P["delete"] = <<"check", "deleteUntil">>
                         /\ P["list"] = <<"points">>
    <2> SUFFICES ASSUME AppendsPoints
                 PROVE  /\ P["update"] = <<"check", "rewrite">>
                        /\ P["delete"] = <<"check", "deleteUntil">>
                        /\ P["list"] = <<"points">>
      OBVIOUS
    <2> DEFINE U == P["update"]
    <2>1. U = <<"check", "rewrite">> /\ P["list"] = <<"points">>
      BY <1>1 DEF AppendsPoints, Fits
    <2>2. \/ U \in {<<"change">>, <<"changeIfDifferent">>}
          \/ U \in {<<"check", "put">>, <<"check", "change">>}
          \/ P["delete"] = <<"check", "deleteUntil">>
      BY <1>1 DEF Fits
    <2> HIDE DEF U, P
    <2>3. U \notin {<<"change">>, <<"changeIfDifferent">>}
      BY <2>1
    <2>4. U \notin {<<"check", "put">>, <<"check", "change">>}
      BY <2>1
    <2> QED
      BY <2>1, <2>2, <2>3, <2>4 DEF U
  <1>4. P["update"] = <<"check", "rewrite">> => AppendsPoints
    BY <1>1 DEF Fits, AppendsPoints
  <1>5. P["delete"] = <<"check", "deleteUntil">> => AppendsPoints
    <2> SUFFICES ASSUME P["delete"] = <<"check", "deleteUntil">>
                 PROVE  AppendsPoints
      OBVIOUS
    <2> DEFINE D == P["delete"]
    <2>1. \/ D = <<"delete">> \/ D = <<"check", "delete">>
          \/ P["update"] = <<"check", "rewrite">>
      BY <1>1 DEF Fits
    <2>2. D = <<"check", "deleteUntil">>
      OBVIOUS
    <2> HIDE DEF D
    <2>3. D # <<"delete">> /\ D # <<"check", "delete">>
      BY <2>2
    <2> QED
      BY <1>4, <2>1, <2>3
  <1>6. ASSUME NEW c \in Calls, pc[c] # 0
        PROVE  /\ AppendsPoints =>
                   Statement(c) \in {"get", "check", "append", "rewrite",
                                     "deleteUntil", "points", "search"}
               /\ Statement(c) \in {"append", "rewrite", "deleteUntil"} =>
                   AppendsPoints
               /\ Statement(c) = "points" => AppendsPoints
               /\ AppendsPoints /\ Op(c) = "create" => Len(Program(c)) = 1
               /\ Statement(c) = "append" => Op(c) = "create"
               /\ Statement(c) = "rewrite" => Op(c) = "update"
    <2> DEFINE s == Statement(c)
    <2>1. /\ Op(c) \in Operations /\ pc[c] \in {1, 2}
          /\ pc[c] <= Len(Program(c))
          /\ Program(c) = P[Op(c)] /\ s = Program(c)[pc[c]]
      <3>1. Op(c) \in Operations
        BY <1>6, Requested
      <3>2. pc[c] \in {1, 2} /\ pc[c] <= Len(Program(c))
        BY <1>6 DEF TypeOK, CallInv
      <3> QED
        BY <3>1, <3>2 DEF Program, Op, Statement
    <2>0. /\ pc[c] \in {1, 2} /\ pc[c] <= Len(Program(c))
          /\ s = Program(c)[pc[c]]
      BY <2>1
    <2>2. /\ s = "append" => Op(c) = "create"
          /\ s = "rewrite" => Op(c) = "update"
      BY <1>6, Places DEF At
    <2>3. AppendsPoints /\ Op(c) = "create" => Len(Program(c)) = 1
      <3>1. AppendsPoints /\ Op(c) = "create" => Program(c) = <<"append">>
        BY <2>1 DEF AppendsPoints
      <3> QED
        BY <3>1
    <2>4. s \in {"append", "rewrite", "deleteUntil"} => AppendsPoints
      <3>1. CASE s = "append"
        <4>1. /\ P["create"] \in {<<"insert">>, <<"insert", "readBack">>,
                                  <<"put">>, <<"append">>}
              /\ Program(c) = P["create"]
          BY <1>1, <2>1, <2>2, <3>1 DEF Fits
        <4>3. Program(c) \in {<<"insert">>, <<"insert", "readBack">>,
                               <<"put">>, <<"append">>}
          BY <4>1
        <4>5. \A i \in {1, 2} : \A p \in
                  {<<"insert">>, <<"insert", "readBack">>, <<"put">>,
                   <<"append">>} :
                i <= Len(p) /\ p[i] = "append" => p = <<"append">>
          OBVIOUS
        <4>2. Program(c) = <<"append">>
          BY <2>0, <3>1, <4>3, <4>5, Zenon
        <4> QED
          BY <4>1, <4>2 DEF AppendsPoints
      <3>2. CASE s = "rewrite"
        <4>1. /\ P["update"] \in {<<"change">>, <<"changeIfDifferent">>,
                  <<"check", "put">>, <<"check", "change">>,
                  <<"check", "rewrite">>}
              /\ Program(c) = P["update"]
          BY <1>1, <2>1, <2>2, <3>2 DEF Fits
        <4>3. Program(c) \in {<<"change">>, <<"changeIfDifferent">>,
                <<"check", "put">>, <<"check", "change">>,
                <<"check", "rewrite">>}
          BY <4>1
        <4>5. \A i \in {1, 2} : \A p \in
                  {<<"change">>, <<"changeIfDifferent">>, <<"check", "put">>,
                   <<"check", "change">>, <<"check", "rewrite">>} :
                i <= Len(p) /\ p[i] = "rewrite" => p = <<"check", "rewrite">>
          OBVIOUS
        <4>2. Program(c) = <<"check", "rewrite">>
          BY <2>0, <3>2, <4>3, <4>5, Zenon
        <4> QED
          BY <1>4, <4>1, <4>2
      <3>3. CASE s = "deleteUntil"
        <4>1. Op(c) = "delete"
          BY <1>6, <3>3, Places DEF At
        <4>2. /\ P["delete"] \in {<<"delete">>, <<"check", "delete">>,
                                  <<"check", "deleteUntil">>}
              /\ Program(c) = P["delete"]
          BY <1>1, <2>1, <4>1 DEF Fits
        <4>4. Program(c) \in {<<"delete">>, <<"check", "delete">>,
                               <<"check", "deleteUntil">>}
          BY <4>2
        <4>5. \A i \in {1, 2} : \A p \in
                  {<<"delete">>, <<"check", "delete">>,
                   <<"check", "deleteUntil">>} :
                i <= Len(p) /\ p[i] = "deleteUntil" =>
                  p = <<"check", "deleteUntil">>
          OBVIOUS
        <4>3. Program(c) = <<"check", "deleteUntil">>
          BY <2>0, <3>3, <4>4, <4>5, Zenon
        <4> QED
          BY <1>5, <4>2, <4>3
      <3> QED
        BY <3>1, <3>2, <3>3
    <2>6. s = "points" => AppendsPoints
      <3> SUFFICES ASSUME s = "points"
                   PROVE  AppendsPoints
        OBVIOUS
      <3>1. /\ P["list"] \in {<<"pageAndTotal">>, <<"page", "total">>,
                <<"points">>, <<"scanPage", "scanTotal">>,
                <<"scanKeys", "fetchPage">>}
            /\ P["list"] = <<"points">> => AppendsPoints
            /\ Program(c) = P["list"]
        BY <1>1, <1>6, <2>1, Places DEF At, Fits, AppendsPoints
      <3>2. \A i \in {1, 2} : \A p \in {<<"pageAndTotal">>, <<"page", "total">>,
                <<"points">>, <<"scanPage", "scanTotal">>,
                <<"scanKeys", "fetchPage">>} :
              i <= Len(p) /\ p[i] = "points" => p = <<"points">>
        OBVIOUS
      <3> QED
        BY <2>0, <3>1, <3>2, Zenon
    <2>5. AppendsPoints => s \in {"get", "check", "append", "rewrite",
                                  "deleteUntil", "points", "search"}
      <3> SUFFICES ASSUME AppendsPoints
                   PROVE  s \in {"get", "check", "append", "rewrite",
                                 "deleteUntil", "points", "search"}
        OBVIOUS
      <3>1. Program(c) \in {<<"get">>, <<"append">>, <<"check", "rewrite">>,
              <<"check", "deleteUntil">>, <<"points">>, <<>>, <<"search">>}
        BY <1>1, <1>3, <2>1 DEF Fits, Operations, AppendsPoints
      <3> QED
        BY <2>1, <3>1
    <2> QED
      BY <2>2, <2>3, <2>4, <2>5, <2>6
  <1> QED
    BY <1>2, <1>6

(* A step that adds no point and takes no new time.                        *)
LEMMA OwnTimesOn ==
  ASSUME OwnTimes, \A k \in Keys : Mine(k)' \subseteq Mine(k) \union {0}
  PROVE  OwnTimes'
  BY DEF OwnTimes

(* No time is ahead of the clock.                                          *)
LEMMA MineBounded ==
  ASSUME TypeOK, NEW k \in Keys
  PROVE  Mine(k) \subseteq 0 .. clock
  <1>1. local \in [Calls ->
             [value : Values \union {Absent}, page : SUBSET Keys,
              total : 0 .. Cardinality(Keys) + Cardinality(Calls),
              todo : SUBSET Keys, stamp : 0 .. clock]]
    BY DEF TypeOK
  <1>2. points \in [Keys -> SUBSET (0 .. clock)]
    BY DEF TypeOK
  <1> QED
    BY <1>1, <1>2 DEF Mine

(* The creates that are done are all counted.                              *)
LEMMA CreatedGrows ==
  ASSUME TypeOK, CallInv, NEW c \in Calls, Executes(c)
  PROVE  /\ Created \subseteq Created'
         /\ Cardinality(Created) \in Nat /\ Cardinality(Created') \in Nat
         /\ Cardinality(Created) <= Cardinality(Created')
         /\ (Op(c) = "create" /\ reply'[c] = "done") =>
              Cardinality(Created) + 1 <= Cardinality(Created')
  <1>1. /\ Created \subseteq Created' /\ c \notin Created
        /\ (Op(c) = "create" /\ reply'[c] = "done") => c \in Created'
    BY DEF Created, Executes, Op
  <1>2. IsFiniteSet(Created) /\ IsFiniteSet(Created')
    BY RepositoryAssumption, FS_Subset DEF Created
  <1>3. Cardinality(Created \union {c}) = Cardinality(Created) + 1
    BY <1>1, <1>2, FS_AddElement
  <1> DEFINE C == Created
             D == Created'
  <1>4. IsFiniteSet(C) /\ IsFiniteSet(D) /\ IsFiniteSet(C \union {c})
    BY <1>2, FS_AddElement
  <1>5. C \subseteq D /\ (c \in D => C \union {c} \subseteq D)
    BY <1>1
  <1> HIDE DEF C, D
  <1>6. /\ Cardinality(C) \in Nat /\ Cardinality(D) \in Nat
        /\ Cardinality(C) <= Cardinality(D)
        /\ c \in D => Cardinality(C \union {c}) <= Cardinality(D)
    BY <1>4, <1>5, FS_Subset, FS_CardinalityType
  <1> QED
    BY <1>1, <1>3, <1>6 DEF C, D

(* The statements on points, and those that leave them alone.              *)
LEMMA PointReads ==
  ASSUME TypeOK, CallInv, PointInv, AppendsPoints,
         NEW c \in Calls, Executes(c), Does(c)
  PROVE  RowsHavePoints' /\ OwnTimes' /\ clock' <= Cardinality(Created')
  <1>1. RowsHavePoints /\ OwnTimes /\ clock <= Cardinality(Created)
    BY DEF PointInv
  <1>2. /\ clock \in Nat /\ points \in [Keys -> SUBSET (0 .. clock)]
        /\ DOMAIN table = Keys
        /\ \A k \in Keys : \A n \in points[k] : n \in 0 .. clock
    BY DEF TypeOK, Tables
  <1>3. /\ Key(c) \in Keys /\ request[c].value # Absent /\ pc[c] # 0
        /\ Statement(c) \in {"get", "check", "append", "rewrite",
                             "deleteUntil", "points", "search"}
        /\ Statement(c) = "append" => Op(c) = "create"
        /\ Statement(c) = "rewrite" => Op(c) = "update"
    BY Requested, PointTerms, RepositoryAssumption DEF Executes
  <1>4. local[c].stamp \in 0 .. clock
    <2>1. local \in [Calls ->
               [value : Values \union {Absent}, page : SUBSET Keys,
                total : 0 .. Cardinality(Keys) + Cardinality(Calls),
                todo : SUBSET Keys, stamp : 0 .. clock]]
      BY DEF TypeOK
    <2> QED
      BY <2>1
  <1>5. clock' = clock => clock' <= Cardinality(Created')
    BY <1>1, <1>2, CreatedGrows
  <1>6. /\ \A d \in Calls : Op(d)' = Op(d) /\ Key(d)' = Key(d)
        /\ \A d \in Calls \ {c} : local'[d] = local[d]
    BY DEF Executes, Op, Key
  <1>7. CASE Kept /\ NoPoint /\ local'[c].stamp \in Mine(Key(c)) \union {0}
             /\ Op(c) = "update"
    <2>1. \A k \in Keys : Mine(k)' \subseteq Mine(k) \union {0}
      BY <1>6, <1>7 DEF Mine, NoPoint
    <2> QED
      BY <1>1, <1>5, <1>7, <2>1, OwnTimesOn DEF RowsHavePoints, Kept, NoPoint
  <1>8. CASE Kept /\ NoPoint
             /\ (Op(c) # "update" \/ local'[c].stamp = local[c].stamp)
    <2>1. \A k \in Keys : Mine(k)' \subseteq Mine(k) \union {0}
      BY <1>6, <1>8 DEF Mine, NoPoint
    <2> QED
      BY <1>1, <1>5, <1>8, <2>1, OwnTimesOn DEF RowsHavePoints, Kept, NoPoint
  <1>9. CASE LooksUp(c)
    <2>1. local'[c].stamp = Latest(Key(c)) /\ Kept /\ NoPoint
      <3>1. local[c] \in [value : Values \union {Absent}, page : SUBSET Keys,
                          total : 0 .. Cardinality(Keys) + Cardinality(Calls),
                          todo : SUBSET Keys, stamp : 0 .. clock]
        BY DEF TypeOK
      <3> QED
        BY <1>9, <3>1 DEF LooksUp
    <2>2. Latest(Key(c)) \in points[Key(c)] \union {0}
      BY <1>2, <1>3, MaxIn DEF Latest
    <2>3. Latest(Key(c)) \in Mine(Key(c)) \union {0}
      BY <2>2 DEF Mine
    <2> QED
      BY <1>7, <1>8, <2>1, <2>3
  <1>10. CASE Appends(c)
    <2>1. /\ clock' = clock + 1 /\ table'[Key(c)] # Absent
          /\ \A k \in Keys \ {Key(c)} :
               points'[k] = points[k] /\ table'[k] = table[k]
          /\ points'[Key(c)] = points[Key(c)] \union {clock + 1}
      BY <1>2, <1>3, <1>10 DEF Appends, Wrote
    <2>2. RowsHavePoints'
      BY <1>1, <2>1 DEF RowsHavePoints
    <2>3. \A k \in Keys :
            Mine(k)' = Mine(k) \union (IF k = Key(c) THEN {clock + 1} ELSE {})
      BY <1>6, <1>10, <2>1 DEF Mine, Appends
    <2>4. \A k \in Keys : clock + 1 \notin Mine(k)
      BY <1>2, MineBounded
    <2>5. OwnTimes'
      BY <1>1, <2>3, <2>4 DEF OwnTimes
    <2>6. Cardinality(Created) + 1 <= Cardinality(Created')
          /\ Cardinality(Created) \in Nat /\ Cardinality(Created') \in Nat
      BY <1>3, <1>10, CreatedGrows DEF Appends
    <2>7. clock' <= Cardinality(Created')
      BY <1>1, <1>2, <2>1, <2>6
    <2> QED
      BY <2>2, <2>5, <2>7
  <1>11. CASE Rewrites(c)
    <2>1. /\ clock' = clock
          /\ \A k \in Keys \ {Key(c)} : points'[k] = points[k]
          /\ points'[Key(c)] = points[Key(c)] \union {local[c].stamp}
          /\ local'[c] = local[c] /\ Op(c) = "update"
      BY <1>3, <1>11 DEF Rewrites
    <2>2. /\ table'[Key(c)] # Absent
          /\ \A k \in Keys \ {Key(c)} : table'[k] = table[k]
      <3>1. CASE Latest(Key(c)) > local[c].stamp
        <4>1. Kept
          BY <1>11, <3>1 DEF Rewrites
        <4>2. points[Key(c)] # {}
          BY <1>4, <3>1 DEF Latest
        <4> QED
          BY <1>1, <1>3, <4>1, <4>2 DEF Kept, RowsHavePoints
      <3>2. CASE ~(Latest(Key(c)) > local[c].stamp)
        <4>1. Wrote(c)
          BY <1>11, <3>2 DEF Rewrites
        <4> QED
          BY <1>2, <1>3, <4>1 DEF Wrote
      <3> QED
        BY <3>1, <3>2
    <2>3. RowsHavePoints'
      BY <1>1, <2>1, <2>2 DEF RowsHavePoints
    <2>4. \A k \in Keys : Mine(k)' \subseteq Mine(k) \union {0}
      BY <1>6, <2>1 DEF Mine
    <2> QED
      BY <1>1, <1>5, <2>1, <2>3, <2>4, OwnTimesOn
  <1>12. CASE DeletesUntil(c)
    <2>1. /\ clock' = clock
          /\ \A k \in Keys \ {Key(c)} : points'[k] = points[k]
          /\ points'[Key(c)] \subseteq points[Key(c)]
          /\ local'[c] = local[c]
      BY <1>12 DEF DeletesUntil
    <2>2. /\ table'[Key(c)] = Absent <=> points'[Key(c)] = {}
          /\ \A k \in Keys \ {Key(c)} : table'[k] = table[k]
      <3>1. CASE table[Key(c)] # Absent /\ points'[Key(c)] = {}
        <4>1. Removed(c)
          BY <1>12, <3>1 DEF DeletesUntil
        <4> QED
          BY <1>2, <1>3, <3>1, <4>1 DEF Removed
      <3>2. CASE ~(table[Key(c)] # Absent /\ points'[Key(c)] = {})
        <4>1. Kept
          BY <1>12, <3>2 DEF DeletesUntil
        <4> QED
          BY <1>1, <1>3, <2>1, <3>2, <4>1 DEF Kept, RowsHavePoints
      <3> QED
        BY <3>1, <3>2
    <2>3. RowsHavePoints'
      BY <1>1, <2>1, <2>2 DEF RowsHavePoints
    <2>4. \A k \in Keys : Mine(k)' \subseteq Mine(k) \union {0}
      BY <1>6, <2>1 DEF Mine
    <2> QED
      BY <1>1, <1>5, <2>1, <2>3, <2>4, OwnTimesOn
  <1>13. CASE Gets(c) \/ ReadsPoints(c) \/ \E S \in SUBSET Keys : Searches(c, S)
    <2>1. Kept /\ NoPoint /\ local'[c].stamp = local[c].stamp
      <3>1. local[c] \in [value : Values \union {Absent}, page : SUBSET Keys,
                          total : 0 .. Cardinality(Keys) + Cardinality(Calls),
                          todo : SUBSET Keys, stamp : 0 .. clock]
        BY DEF TypeOK
      <3> QED
        BY <1>13, <3>1 DEF Gets, ReadsPoints, Searches
    <2> QED
      BY <1>8, <2>1
  <1> QED
    BY <1>3, <1>9, <1>10, <1>11, <1>12, <1>13
       DEF Does, Writes, ReadsTable, Fetches, Scans

(* A new point shares its time with no point of another entity.            *)
LEMMA PointStep ==
  ASSUME TypeOK, CallInv, WindowInv, LocalInv, PointInv, [Next]_vars
  PROVE  PointInv'
  <1>1. adapter' = adapter
    BY NextCases
       DEF CallerStep, Begin, Ask, MakeConstraint, Ensured, SendNext,
       Return, FailReadBack, Raise, Executes, Expire, vars
  <1>2. SUFFICES ASSUME AppendsPoints
                 PROVE  /\ RowsHavePoints' /\ OwnTimes'
                        /\ clock' <= Cardinality(Created')
    BY <1>1 DEF PointInv, AppendsPoints
  <1>3. RowsHavePoints /\ OwnTimes /\ clock <= Cardinality(Created)
    BY <1>2 DEF PointInv
  <1>4. ASSUME NEW c \in Calls, NEW r \in Requests[c], Begin(c, r)
        PROVE  PointInv'
    <2>1. Begins(c, r)
      BY <1>4, BeginEffect
    <2>2. Created' = Created
      BY <2>1 DEF Begins, Created, CallInv, Op
    <2>3. local[c].stamp = 0
      BY <2>1 DEF Begins, LocalInv
    <2>4. local'[c].stamp = 0
      <3>1. local[c] \in [value : Values \union {Absent}, page : SUBSET Keys,
                          total : 0 .. Cardinality(Keys) + Cardinality(Calls),
                          todo : SUBSET Keys, stamp : 0 .. clock]
        BY DEF TypeOK
      <3> QED
        BY <2>1, <2>3, <3>1 DEF Begins
    <2>5. \A k \in Keys : Mine(k)' \subseteq Mine(k) \union {0}
      <3>1. ASSUME NEW k \in Keys, NEW n \in Mine(k)'
            PROVE  n \in Mine(k) \union {0}
        <4>1. CASE n \in points'[k]
          BY <2>1, <4>1 DEF Begins, Mine
        <4>2. CASE n \notin points'[k]
          <5>1. PICK d \in Calls : /\ n = local'[d].stamp /\ Op(d)' = "update"
                                  /\ Key(d)' = k
            BY <3>1, <4>2 DEF Mine
          <5>2. CASE d = c
            BY <2>4, <5>1, <5>2
          <5>3. CASE d # c
            BY <2>1, <5>1, <5>3 DEF Begins, Mine, Op, Key
          <5> QED
            BY <5>2, <5>3
        <4> QED
          BY <4>1, <4>2
      <3> QED
        BY <3>1
    <2> QED
      BY <1>3, <2>1, <2>2, <2>5, OwnTimesOn
         DEF Begins, PointInv, RowsHavePoints
  <1>5. ASSUME NEW c \in Calls, SendNext(c)
        PROVE  PointInv'
    <2>1. Sends(c)
      BY <1>5, SendEffect
    <2>2. Created' = Created
      <3>1. Op(c) # "create"
        <4>1. pc[c] # 0 /\ pc[c] \in 0 .. 2 /\ pc[c] < Len(Program(c))
          BY <2>1 DEF Sends, Open, TypeOK
        <4>2. Op(c) = "create" => Len(Program(c)) = 1
          BY <1>2, <4>1, PointTerms
        <4>3. \A i \in 0 .. 2 : i # 0 => ~(i < 1)
          OBVIOUS
        <4> QED
          BY <4>1, <4>2, <4>3, Zenon
      <3> QED
        BY <2>1, <3>1 DEF Sends, Created, Op
    <2>3. \A k \in Keys : Mine(k)' \subseteq Mine(k) \union {0}
      BY <2>1 DEF Sends, Mine, Op, Key
    <2> QED
      BY <1>3, <2>1, <2>2, <2>3, OwnTimesOn
         DEF Sends, PointInv, RowsHavePoints
  <1>6. ASSUME NEW c \in Calls,
               \/ MakeConstraint(c) \/ Ensured(c) \/ Return(c)
               \/ FailReadBack(c) \/ Raise(c)
        PROVE  PointInv'
    <2>1. /\ UNCHANGED <<table, clock, points, request, reply, local>>
      BY <1>6
         DEF MakeConstraint, Ensured, Return, FailReadBack, Raise, database
    <2> QED
      BY <1>1, <1>3, <2>1
         DEF PointInv, RowsHavePoints, OwnTimes, Mine, Created,
         Op, Key
  <1>7. ASSUME NEW c \in Calls, Executes(c), Does(c)
        PROVE  PointInv'
    BY <1>2, <1>7, PointReads DEF PointInv
  <1>8. ASSUME NEW k \in Keys, Expire(k)
        PROVE  PointInv'
    BY <1>2, <1>8, PointTerms DEF Expire
  <1>9. ASSUME UNCHANGED vars
        PROVE  PointInv'
    BY <1>1, <1>3, <1>9
       DEF vars, database, PointInv, RowsHavePoints, OwnTimes,
       Mine, Created, Op, Key
  <1>10. PointInv'
    BY <1>4, <1>5, <1>6, <1>7, <1>8, <1>9, Steps DEF CallerStep
  <1> QED
    BY <1>1, <1>2, <1>10 DEF PointInv, AppendsPoints

(* What list() of InfluxDB counts: every entity once, and one more for     *)
(* each create() at the most.                                              *)
LEMMA PointsCounted ==
  ASSUME TypeOK, PointInv, AppendsPoints
  PROVE  LET page == {k \in Keys : points[k] # {}} IN
         /\ Cardinality(AllPoints) \in Nat
         /\ Cardinality(page) <= Cardinality(AllPoints)
         /\ Cardinality(AllPoints) <= Cardinality(page) + Cardinality(Created)
  <1> DEFINE page == {k \in Keys : points[k] # {}}
             Zero == {p \in AllPoints : p[2] = 0}
             Rest == {p \in AllPoints : p[2] # 0}
             f == [p \in AllPoints |-> p[1]]
             g == [p \in Zero |-> p[1]]
             h == [p \in Rest |-> p[2]]
  <1>1. /\ clock \in Nat /\ points \in [Keys -> SUBSET (0 .. clock)]
        /\ OwnTimes /\ clock <= Cardinality(Created)
    BY DEF TypeOK, PointInv
  <1>2. \A p \in AllPoints : /\ p = <<p[1], p[2]>> /\ p[1] \in Keys
                             /\ p[2] \in 0 .. clock /\ p[2] \in points[p[1]]
    BY DEF AllPoints
  <1>3. \A k \in Keys : \A n \in points[k] : <<k, n>> \in AllPoints
    BY <1>1 DEF AllPoints
  <1>4. IsFiniteSet(page) /\ Cardinality(page) \in Nat
    BY RepositoryAssumption, FS_Subset, FS_CardinalityType
  <1>5. IsFiniteSet(1 .. clock) /\ Cardinality(1 .. clock) = clock
    BY <1>1, FS_Interval
  <1>6. g \in Injection(Zero, page)
    BY <1>2 DEF Injection, IsInjective
  <1>7. h \in Injection(Rest, 1 .. clock)
    <2>1. h \in [Rest -> 1 .. clock]
      BY <1>1, <1>2
    <2>2. ASSUME NEW p \in Rest, NEW q \in Rest, p[2] = q[2]
          PROVE  p = q
      BY <1>1, <1>2, <2>2 DEF OwnTimes, Mine
    <2> QED
      BY <2>1, <2>2 DEF Injection, IsInjective
  <1>8. f \in Surjection(AllPoints, page)
    <2>1. f \in [AllPoints -> page]
      BY <1>2
    <2>2. ASSUME NEW k \in page
          PROVE  \E p \in AllPoints : f[p] = k
      <3>1. PICK n \in points[k] : TRUE
        OBVIOUS
      <3>2. <<k, n>> \in AllPoints /\ <<k, n>>[1] = k
        BY <1>3
      <3> QED
        BY <3>2
    <2> QED
      BY <2>1, <2>2 DEF Surjection
  <1> HIDE DEF f, g, h
  <1>9. /\ IsFiniteSet(Zero) /\ Cardinality(Zero) <= Cardinality(page)
        /\ IsFiniteSet(Rest) /\ Cardinality(Rest) <= clock
    <2> HIDE DEF Zero, Rest, page
    <2> QED
      BY <1>4, <1>5, <1>6, <1>7, FS_Injection
  <1>10. /\ AllPoints = Zero \union Rest
         /\ Zero \intersect Rest = {}
    OBVIOUS
  <1>11. IsFiniteSet(AllPoints) /\ Cardinality(AllPoints) \in Nat
    <2> HIDE DEF Zero, Rest, page
    <2>1. IsFiniteSet(AllPoints)
      BY <1>9, <1>10, FS_Union
    <2> QED
      BY <2>1, FS_CardinalityType
  <1>12. Cardinality(page) <= Cardinality(AllPoints)
    <2> HIDE DEF page, Zero, Rest
    <2> QED
      BY <1>8, <1>11, FS_Surjection
  <1>13. Cardinality(AllPoints) = Cardinality(Zero) + Cardinality(Rest)
    <2>1. Cardinality(AllPoints) =
            Cardinality(Zero) + Cardinality(Rest)
              - Cardinality(Zero \intersect Rest)
      BY <1>9, <1>10, FS_Union
    <2>2. Cardinality(Zero \intersect Rest) = 0
      BY <1>10, FS_EmptySet
    <2>3. Cardinality(Zero) \in Nat /\ Cardinality(Rest) \in Nat
      BY <1>9, FS_CardinalityType
    <2> QED
      BY <2>1, <2>2, <2>3
  <1>14. /\ Cardinality(Zero) \in Nat /\ Cardinality(Rest) \in Nat
         /\ Cardinality(Created) \in Nat
    <2>1. IsFiniteSet(Created)
      BY RepositoryAssumption, FS_Subset DEF Created
    <2> QED
      BY <1>9, <2>1, FS_CardinalityType
  <1> HIDE DEF Zero, Rest, page
  <1>15. Cardinality(AllPoints) <= Cardinality(page) + Cardinality(Created)
    BY <1>1, <1>4, <1>9, <1>13, <1>14
  <1> QED
    BY <1>11, <1>12, <1>15 DEF page

-----------------------------------------------------------------------------
(* Type correctness                                                        *)

(* What a call may have read when the clock is at n.                       *)
Local(n) ==
  [value : Values \union {Absent}, page : SUBSET Keys,
   total : 0 .. Cardinality(Keys) + Cardinality(Calls),
   todo : SUBSET Keys, stamp : 0 .. n]

(* The bounds on the numbers.                                              *)
LEMMA Sizes ==
  /\ IsFiniteSet(Keys) /\ Cardinality(Keys) \in Nat
  /\ IsFiniteSet(Calls) /\ Cardinality(Calls) \in Nat
  /\ Cardinality(Created) \in Nat /\ Cardinality(Created) <= Cardinality(Calls)
  /\ \A S \in SUBSET Keys : /\ Cardinality(S) \in Nat
                            /\ Cardinality(S) <= Cardinality(Keys)
  <1>1. Created \subseteq Calls
    BY DEF Created
  <1> QED
    BY <1>1, RepositoryAssumption, FS_Subset, FS_CardinalityType

(* Every step keeps ClockInv, and the clock does not run backwards.        *)
LEMMA ClockStep ==
  ASSUME TypeOK, CallInv, WindowInv, LocalInv, PointInv, ClockInv, [Next]_vars
  PROVE  ClockInv' /\ clock' \in Nat /\ clock <= clock'
  <1>1. adapter' = adapter
    BY NextCases
       DEF CallerStep, Begin, Ask, MakeConstraint, Ensured, SendNext,
       Return, FailReadBack, Raise, Executes, Expire, vars
  <1>2. clock \in Nat
    BY DEF TypeOK
  <1>3. ASSUME NEW c \in Calls, Executes(c), Does(c), clock' # clock
        PROVE  AppendsPoints /\ clock' = clock + 1
    <2>1. Statement(c) = "append" /\ clock' = clock + 1
      BY <1>3
         DEF Does, Gets, LooksUp, Writes, Appends, Rewrites, DeletesUntil,
         ReadsTable, ReadsPoints, Fetches, Scans, Searches, NoPoint
    <2> QED
      BY <1>3, <2>1, PointTerms DEF Executes
  <1>4. ASSUME NEW c \in Calls, CallerStep(c)
        PROVE  clock' = clock
    <2>1. ASSUME NEW r \in Requests[c], Begin(c, r)
          PROVE  clock' = clock
      BY <2>1 DEF Begin, Ask, database
    <2> QED
      BY <1>4, <2>1 DEF CallerStep, MakeConstraint, Ensured, SendNext, Return,
         FailReadBack, Raise, database
  <1>5. clock' = clock \/ (AppendsPoints /\ clock' = clock + 1)
    BY <1>3, <1>4, Steps DEF Expire, vars, database
  <1> QED
    BY <1>1, <1>2, <1>5 DEF ClockInv, AppendsPoints

(* What a statement leaves with the call that sent it.                     *)
LEMMA LocalTyped ==
  ASSUME TypeOK, CallInv, WindowInv, ListInv, ListInv', PointInv,
         NEW c \in Calls, Executes(c), Does(c)
  PROVE  local'[c] \in Local(clock)
  <1>1. local[c] \in Local(clock)
    BY DEF TypeOK, Local
  <1>2. Key(c) \in Keys /\ table[Key(c)] \in Values \union {Absent}
    BY Requested DEF Executes, TypeOK, Tables
  <1>3. CASE Gets(c)
    BY <1>1, <1>2, <1>3 DEF Gets, Local
  <1>4. CASE LooksUp(c)
    <2>1. Latest(Key(c)) \in 0 .. clock
      <3>1. /\ clock \in Nat /\ points[Key(c)] \in SUBSET (0 .. clock)
        BY <1>2 DEF TypeOK
      <3>2. points[Key(c)] # {} => Max(points[Key(c)]) \in points[Key(c)]
        BY <3>1, MaxIn
      <3> QED
        BY <3>1, <3>2 DEF Latest
    <2> QED
      BY <1>1, <1>4, <2>1 DEF LooksUp, Local
  <1>5. CASE Writes(c) \/ Appends(c) \/ Rewrites(c) \/ DeletesUntil(c)
    BY <1>1, <1>5 DEF Writes, Appends, Rewrites, DeletesUntil
  <1>6. CASE ReadsTable(c)
    <2>1. Rows(table) \in SUBSET Keys
      BY DEF Rows
    <2>2. Cardinality(Rows(table)) \in 0 .. Cardinality(Keys) + Cardinality(Calls)
      BY <2>1, Sizes
    <2> QED
      BY <1>1, <1>6, <2>1, <2>2 DEF ReadsTable, Local
  <1>7. CASE ReadsPoints(c)
    <2>1. Cardinality(AllPoints) \in 0 .. Cardinality(Keys) + Cardinality(Calls)
      <3> DEFINE page == {k \in Keys : points[k] # {}}
      <3>1. AppendsPoints
        BY <1>7, PointTerms DEF ReadsPoints, Executes
      <3>2. /\ Cardinality(AllPoints) \in Nat
            /\ Cardinality(AllPoints) <= Cardinality(page) + Cardinality(Created)
        BY <3>1, PointsCounted
      <3>3. page \in SUBSET Keys
        OBVIOUS
      <3> HIDE DEF page
      <3>4. Cardinality(page) \in Nat /\ Cardinality(page) <= Cardinality(Keys)
        BY <3>3, Sizes
      <3>5. /\ Cardinality(Created) \in Nat /\ Cardinality(Calls) \in Nat
            /\ Cardinality(Created) <= Cardinality(Calls)
            /\ Cardinality(Keys) \in Nat
        BY Sizes
      <3> QED
        BY <3>2, <3>4, <3>5
    <2>2. {k \in Keys : points[k] # {}} \in SUBSET Keys
      OBVIOUS
    <2>3. /\ local'[c] = [local[c] EXCEPT !.page = local'[c].page,
                            !.total = local'[c].total,
                            !.todo = local'[c].todo]
          /\ local'[c].page = {k \in Keys : points[k] # {}}
          /\ local'[c].total = Cardinality(AllPoints)
          /\ local'[c].todo = {}
      BY <1>1, <1>7 DEF ReadsPoints, Local
    <2> QED
      BY <1>1, <2>1, <2>2, <2>3 DEF Local
  <1>8. CASE Fetches(c)
    BY <1>1, <1>8 DEF Fetches, Local
  <1>9. ASSUME NEW S \in SUBSET Keys, Scans(c, S)
        PROVE  local'[c] \in Local(clock)
    <2>1. local'[c].total \in 0 .. Cardinality(Keys) + Cardinality(Calls)
      <3> DEFINE seen == Seen(c)' \ TotalRest(c)'
      <3>1. Op(c) = "list" /\ Len(Program(c)) = 2 /\ Open(c)
        BY <1>9, Places DEF Scans, Executes, At
      <3>2. Listing(c)'
        BY <3>1 DEF Listing, Open, Op, Program, Executes
      <3>3. local'[c].total <= Cardinality(seen)
        BY <3>2 DEF ListInv, Lists
      <3>4. seen \in SUBSET Keys
        BY DEF Seen
      <3>5. local'[c].total \in Nat
        <4>1. /\ local[c].total \in Nat
              /\ Cardinality(S \intersect Rows(table)) \in Nat
          BY <1>1, Sizes DEF Local
        <4> QED
          BY <1>1, <1>9, <4>1 DEF Scans, Local
      <3> HIDE DEF seen
      <3>6. Cardinality(seen) \in Nat /\ Cardinality(seen) <= Cardinality(Keys)
        BY <3>4, Sizes
      <3>7. Cardinality(Keys) \in Nat /\ Cardinality(Calls) \in Nat
        BY Sizes
      <3> QED
        BY <3>3, <3>5, <3>6, <3>7
    <2>2. /\ local'[c] = [local[c] EXCEPT !.page = local'[c].page,
                            !.total = local'[c].total,
                            !.todo = local'[c].todo]
          /\ local'[c].page \in SUBSET Keys
          /\ local'[c].todo \in SUBSET Keys
      BY <1>1, <1>9 DEF Scans, Local
    <2> QED
      BY <1>1, <2>1, <2>2 DEF Local
  <1>10. ASSUME NEW S \in SUBSET Keys, Searches(c, S)
         PROVE  local'[c] \in Local(clock)
    BY <1>1, <1>10 DEF Searches, Local
  <1> QED
    BY <1>3, <1>4, <1>5, <1>6, <1>7, <1>8, <1>9, <1>10 DEF Does

(* TypeOK, but for the local state of the calls.                           *)
OuterType ==
  /\ adapter \in Adapters /\ table \in Tables
  /\ made \in BOOLEAN /\ ensured \subseteq Repos
  /\ prep \in [Calls -> {"none", "sent", "made"}]
  /\ request \in [Calls -> [op : Operations, key : Keys, value : Values]
                          \union {NoRequest}]
  /\ \A c \in Calls : request[c] \in Requests[c] \union {NoRequest}
  /\ pc \in [Calls -> 0 .. 2]
  /\ reply \in [Calls -> {"none", "done", "missing", "exists"}]
  /\ told \in [Calls -> {"no", "yes", "raised", "builtin"}]
  /\ window \in [Calls -> SUBSET Tables]

(* Every step keeps the types of the variables that are not times.         *)
LEMMA OuterStep ==
  ASSUME TypeOK, CallInv, WindowInv, [Next]_vars
  PROVE  OuterType'
  <1>0. OuterType
    BY DEF TypeOK, OuterType
  <1>1. ASSUME NEW c \in Calls, NEW r \in Requests[c], Begin(c, r)
        PROVE  OuterType'
    <2>1. r \in [op : Operations, key : Keys, value : Values]
      BY RepositoryAssumption
    <2> QED
      BY <1>0, <1>1, <2>1 DEF OuterType, Begin, Ask, database
  <1>2. ASSUME NEW c \in Calls, MakeConstraint(c) \/ Ensured(c)
        PROVE  OuterType'
    <2>1. RepoOf[c] \in Repos
      BY RepositoryAssumption
    <2>2. CASE MakeConstraint(c)
      BY <1>0, <2>2 DEF OuterType, MakeConstraint
    <2>3. CASE Ensured(c)
      BY <1>0, <2>1, <2>3 DEF OuterType, Ensured, database
    <2> QED
      BY <1>2, <2>2, <2>3
  <1>3. ASSUME NEW c \in Calls, SendNext(c)
        PROVE  OuterType'
    <2>1. pc[c] + 1 \in 0 .. 2
      <3>1. pc'[c] = pc[c] + 1 /\ pc[c] \in 0 .. 2 /\ pc[c] # 0
        BY <1>0, <1>3 DEF SendNext, OuterType, Open
      <3>2. pc[c] < Len(Program(c))
        BY <1>3 DEF SendNext
      <3>3. Len(Program(c)) = 1 \/ Len(Program(c)) = 2
        BY <3>1, Places
      <3>4. \A i \in 0 .. 2 : (i < 1 \/ i < 2) => i + 1 \in 0 .. 2
        OBVIOUS
      <3> QED
        BY <3>1, <3>2, <3>3, <3>4, Zenon
    <2> QED
      BY <1>0, <1>3, <2>1 DEF OuterType, SendNext, database, preparation
  <1>4. ASSUME NEW c \in Calls, Return(c) \/ FailReadBack(c) \/ Raise(c)
        PROVE  OuterType'
    BY <1>0, <1>4
       DEF OuterType, Return, FailReadBack, Raise, database, preparation
  <1>5. ASSUME NEW t \in Tables, Become(t)
        PROVE  window' \in [Calls -> SUBSET Tables]
    BY <1>0, <1>5 DEF OuterType, Become
  <1>6. ASSUME NEW c \in Calls, Executes(c)
        PROVE  OuterType'
    BY <1>0, <1>5, <1>6 DEF OuterType, Executes
  <1>7. ASSUME NEW k \in Keys, Expire(k)
        PROVE  OuterType'
    <2>1. [table EXCEPT ![k] = Absent] \in Tables
      BY <1>0 DEF OuterType, Tables
    <2> QED
      BY <1>0, <1>5, <1>7, <2>1 DEF OuterType, Expire, preparation, Become
  <1>8. CASE UNCHANGED vars
    BY <1>0, <1>8 DEF OuterType, vars, database, preparation
  <1> QED
    BY <1>1, <1>2, <1>3, <1>4, <1>6, <1>7, <1>8, NextCases DEF CallerStep

(* The times stay below the clock.                                         *)
TimesOK ==
  /\ points \in [Keys -> SUBSET (0 .. clock)]
  /\ local \in [Calls -> Local(clock)]

(* Every step keeps the times below the clock.                             *)
LEMMA TimesStep ==
  ASSUME TypeOK, CallInv, WindowInv, LocalInv, ListInv, ListInv', PointInv,
         ClockInv, [Next]_vars
  PROVE  TimesOK'
  <1>0. /\ TimesOK /\ clock \in Nat /\ clock' \in Nat /\ clock <= clock'
        /\ Local(clock) \subseteq Local(clock')
        /\ 0 .. clock \subseteq 0 .. clock'
    <2>1. TimesOK /\ clock \in Nat
      BY DEF TypeOK, TimesOK, Local
    <2>2. clock' \in Nat /\ clock <= clock'
      BY ClockStep
    <2> QED
      BY <2>1, <2>2 DEF Local
  <1>1. ASSUME NEW c \in Calls, NEW r \in Requests[c], Begin(c, r)
        PROVE  TimesOK'
    <2>1. local' = [local EXCEPT ![c] = [local[c] EXCEPT !.todo = Keys]]
      BY <1>0, <1>1 DEF TimesOK, Begin, Ask
    <2>2. [local[c] EXCEPT !.todo = Keys] \in Local(clock)
      BY <1>0 DEF TimesOK, Local
    <2>3. clock' = clock /\ points' = points
      BY <1>1 DEF Begin, Ask, database
    <2> QED
      BY <1>0, <2>1, <2>2, <2>3 DEF TimesOK
  <1>2. ASSUME NEW c \in Calls, SendNext(c)
        PROVE  TimesOK'
    <2> DEFINE now == [local[c] EXCEPT !.todo = Keys,
             !.stamp = IF request[c].op = "delete" THEN clock ELSE @]
    <2>1. local' = [local EXCEPT ![c] = now]
      BY <1>0, <1>2 DEF TimesOK, SendNext
    <2>2. now \in Local(clock)
      <3>1. local[c] \in Local(clock) /\ clock \in 0 .. clock
        BY <1>0 DEF TimesOK
      <3>2. CASE request[c].op = "delete"
        BY <3>1, <3>2 DEF Local
      <3>3. CASE request[c].op # "delete"
        BY <3>1, <3>3 DEF Local
      <3> QED
        BY <3>2, <3>3
    <2>3. clock' = clock /\ points' = points
      BY <1>2 DEF SendNext, database
    <2> HIDE DEF now
    <2> QED
      BY <1>0, <2>1, <2>2, <2>3 DEF TimesOK
  <1>3. ASSUME NEW c \in Calls,
               \/ MakeConstraint(c) \/ Ensured(c) \/ Return(c)
               \/ FailReadBack(c) \/ Raise(c)
        PROVE  TimesOK'
    BY <1>0, <1>3 DEF TimesOK, MakeConstraint, Ensured, Return, FailReadBack,
       Raise, database
  <1>4. ASSUME NEW c \in Calls, Executes(c), Does(c)
        PROVE  TimesOK'
    <2>1. local' \in [Calls -> Local(clock)]
      <3>1. \A d \in Calls : local'[d] \in Local(clock)
        BY <1>0, <1>4, LocalTyped DEF Executes, TimesOK
      <3>2. local' = [d \in Calls |-> local'[d]]
        BY <1>4 DEF Executes
      <3> QED
        BY <3>1, <3>2
    <2>2. \A k \in Keys : points'[k] \subseteq 0 .. clock'
      <3>0. /\ \A k \in Keys : points[k] \subseteq 0 .. clock'
            /\ local[c].stamp \in 0 .. clock'
        BY <1>0 DEF TimesOK, Local
      <3>1. CASE points' = points
        BY <3>0, <3>1
      <3>2. CASE Appends(c)
        <4>1. clock + 1 \in 0 .. clock'
          BY <1>0, <3>2 DEF Appends
        <4> QED
          BY <3>0, <3>2, <4>1 DEF Appends
      <3>3. CASE Rewrites(c)
        BY <3>0, <3>3 DEF Rewrites
      <3>4. CASE DeletesUntil(c)
        BY <3>0, <3>4 DEF DeletesUntil
      <3> QED
        BY <1>4, <3>1, <3>2, <3>3, <3>4 DEF Does, Gets, LooksUp, Writes,
           ReadsTable, ReadsPoints, Fetches, Scans, Searches, NoPoint
    <2>3. points' = [k \in Keys |-> points'[k]]
      BY <1>4 DEF Executes
    <2>4. points' \in [Keys -> SUBSET (0 .. clock')]
      BY <2>2, <2>3
    <2> QED
      BY <1>0, <2>1, <2>4 DEF TimesOK
  <1>5. CASE (\E k \in Keys : Expire(k)) \/ UNCHANGED vars
    BY <1>0, <1>5 DEF TimesOK, Expire, vars, database
  <1> QED
    BY <1>1, <1>2, <1>3, <1>4, <1>5, Steps DEF CallerStep

(* Every step keeps TypeOK: the clock never passes the number of calls,    *)
(* and no total that of keys and calls together.                           *)
LEMMA TypeStep ==
  ASSUME TypeOK, CallInv, WindowInv, LocalInv, ListInv, ListInv', PointInv,
         PointInv', ClockInv, [Next]_vars
  PROVE  TypeOK'
  <1>1. OuterType' /\ TimesOK'
    BY OuterStep, TimesStep
  <1>2. clock' \in 0 .. Cardinality(Calls)
    <2>1. /\ ClockInv' /\ clock' \in Nat
          /\ AppendsPoints' => clock' <= Cardinality(Created')
      BY ClockStep DEF PointInv
    <2>2. /\ IsFiniteSet(Created') /\ Created' \subseteq Calls
          /\ Cardinality(Created') \in Nat /\ Cardinality(Calls) \in Nat
          /\ Cardinality(Created') <= Cardinality(Calls)
      <3>1. Created' \subseteq Calls
        BY DEF Created
      <3> QED
        BY <3>1, RepositoryAssumption, FS_Subset, FS_CardinalityType
    <2>3. CASE AppendsPoints'
      BY <2>1, <2>2, <2>3
    <2>4. CASE ~AppendsPoints'
      BY <2>1, <2>2, <2>4 DEF ClockInv
    <2> QED
      BY <2>3, <2>4
  <1> QED
    BY <1>1, <1>2 DEF TypeOK, OuterType, TimesOK, Local

-----------------------------------------------------------------------------
(* The invariant                                                           *)

(* The inductive invariant.                                                *)
IInv ==
  /\ TypeOK /\ CallInv /\ MadeInv /\ LocalInv /\ WindowInv
  /\ FoundInv /\ ListInv /\ PointInv /\ ClockInv /\ ReadBackInv

(* It holds of every table that an adapter may find.                       *)
LEMMA InitIInv == Init => IInv
  <1> SUFFICES ASSUME Init PROVE IInv
    OBVIOUS
  <1>1. /\ \A c \in Calls : /\ request[c] = NoRequest /\ pc[c] = 0
                           /\ reply[c] = "none" /\ told[c] = "no"
                           /\ local[c] = Nothing /\ window[c] = {}
                           /\ prep[c] = "none"
        /\ Prepare[adapter] # "constraint" => made
        /\ ensured = {} /\ clock = 0
    BY DEF Init
  <1>2. TypeOK
    <2>1. Nothing \in Local(clock)
      BY <1>1, Sizes DEF Nothing, Local
    <2>2. 0 .. clock = {0} /\ clock \in 0 .. Cardinality(Calls)
      BY <1>1, Sizes
    <2>3. points \in [Keys -> SUBSET (0 .. clock)]
      BY <2>2 DEF Init
    <2>4. table \in Tables
      BY RepositoryAssumption DEF Init
    <2> QED
      BY <2>1, <2>2, <2>3, <2>4 DEF Init, TypeOK, Local
  <1>3. CallInv /\ MadeInv /\ WindowInv
    BY <1>1 DEF CallInv, MadeInv, WindowInv, Open
  <1>4. LocalInv /\ FoundInv /\ ListInv /\ ClockInv /\ ReadBackInv
    BY <1>1 DEF LocalInv, Nothing, FoundInv, Found, Op, NoRequest, ListInv,
       Listing, Open, ClockInv, ReadBackInv, Back
  <1>5. PointInv
    <2>1. \A k \in Keys : points[k] = IF table[k] = Absent THEN {} ELSE {0}
      BY DEF Init
    <2>2. \A c \in Calls : Op(c) = "none"
      BY <1>1 DEF Op, NoRequest
    <2>3. RowsHavePoints
      BY <2>1 DEF RowsHavePoints
    <2>4. \A k \in Keys : Mine(k) \subseteq {0}
      BY <2>1, <2>2 DEF Mine
    <2>5. OwnTimes
      BY <2>4 DEF OwnTimes
    <2>6. clock <= Cardinality(Created)
      BY <1>1, Sizes
    <2> QED
      BY <2>3, <2>5, <2>6 DEF PointInv
  <1> QED
    BY <1>2, <1>3, <1>4, <1>5 DEF IInv

(* Every step keeps it.                                                    *)
LEMMA NextIInv == IInv /\ [Next]_vars => IInv'
  <1> SUFFICES ASSUME IInv, [Next]_vars PROVE IInv'
    OBVIOUS
  <1>1. /\ TypeOK /\ CallInv /\ MadeInv /\ LocalInv /\ WindowInv
        /\ FoundInv /\ ListInv /\ PointInv /\ ClockInv /\ ReadBackInv
    BY DEF IInv
  <1>2. CallInv' /\ MadeInv' /\ LocalInv' /\ WindowInv' /\ FoundInv'
    BY <1>1, CallStep, MadeStep, LocalStep, WindowStep, FoundStep
  <1>3. ListInv' /\ PointInv' /\ ClockInv' /\ ReadBackInv'
    BY <1>1, ListStep, PointStep, ClockStep, ReadBackStep
  <1>4. TypeOK'
    BY <1>1, <1>3, TypeStep
  <1> QED
    BY <1>2, <1>3, <1>4 DEF IInv

(* The invariant the other theorems rest on.                               *)
THEOREM Invariance == Spec => []IInv
  <1>1. Init => IInv
    BY InitIInv
  <1>2. IInv /\ [Next]_vars => IInv'
    BY NextIInv
  <1> QED
    BY <1>1, <1>2, PTL DEF Spec

(* The variables hold values of their types.  The bounds on clock and      *)
(* total are those that list() and create() keep, however calls            *)
(* interleave.                                                             *)
THEOREM TypeCorrect == Spec => []TypeOK
  <1>1. IInv => TypeOK
    BY DEF IInv
  <1> QED
    BY <1>1, Invariance, PTL

(* FalkorDB: once a repository takes the unique constraint for granted, or *)
(* one of its calls has a statement under way, the database has it, also   *)
(* when a first call has been cancelled while it waited or two calls make  *)
(* it at once.                                                             *)
THEOREM ConstraintInPlace == Spec => []EnsuredIsMade
  <1>1. IInv => EnsuredIsMade
    BY DEF IInv, MadeInv, EnsuredIsMade, Open
  <1> QED
    BY <1>1, Invariance, PTL

(* MongoDB: create() ends in a built-in error only if a delete() of the    *)
(* same id has removed the document before create() read it back.          *)
THEOREM OnlyADeleteLosesIt == Spec => []LostBeforeReadBack
  <1>1. IInv => LostBeforeReadBack
    BY DEF IInv, ReadBackInv, Back, ReadBack, Deleted, Op, Key,
       LostBeforeReadBack
  <1> QED
    BY <1>1, Invariance, PTL

-----------------------------------------------------------------------------
(* Every call acts as EntityStore says                                     *)

(* EntityStore counts as this module does.                                 *)
LEMMA SameCardinality ==
  ASSUME NEW S
  PROVE  Promised!Cardinality(S) = Cardinality(S)
  BY DEF Promised!Cardinality, Cardinality

(* What is there of a decision that is not made yet, and of one that is.   *)
LEMMA DecisionIs ==
  ASSUME NEW c \in Calls
  PROVE  /\ Decided(c) = "none" => decision[c] = Promised!Undecided
         /\ Decided(c) # "none" =>
              decision[c] = Promised!Reply(Decided(c), local[c].value,
                                           local[c].page, local[c].total)
         /\ Decided(c) # "none" => decision[c] # Promised!Undecided
         /\ decision = [d \in Calls |-> decision[d]]
  BY DEF decision, Promised!Undecided, Promised!Plain, Promised!Reply

(* The same after a step.                                                  *)
LEMMA DecisionIsNext ==
  ASSUME NEW c \in Calls
  PROVE  /\ Decided(c)' = "none" => decision'[c] = Promised!Undecided
         /\ Decided(c)' # "none" =>
              decision'[c] = Promised!Reply(Decided(c)', local'[c].value,
                                            local'[c].page, local'[c].total)
         /\ decision' = [d \in Calls |-> decision'[d]]
  BY DEF decision, Promised!Undecided, Promised!Plain, Promised!Reply

(* It is a function of the calls.                                          *)
LEMMA DecisionShape ==
  decision = [d \in Calls |-> decision[d]]
  BY DEF decision

(* A step that changes the decision of no call changes none.               *)
LEMMA DecisionFunction ==
  ASSUME \A d \in Calls : decision'[d] = decision[d]
  PROVE  decision' = decision
  <1>1. decision = [d \in Calls |-> decision[d]]
    BY DecisionShape
  <1>2. decision' = [d \in Calls |-> decision'[d]]
    BY DEF decision
  <1> QED
    BY <1>1, <1>2

(* A call that a step leaves alone.                                        *)
LEMMA DecisionStays ==
  ASSUME NEW c \in Calls,
         UNCHANGED <<adapter, request[c], pc[c], reply[c], local[c]>>
  PROVE  decision'[c] = decision[c]
  BY DEF decision, Decided, Program

(* A call is under way here and in EntityStore at the same time.           *)
LEMMA OpenMaps ==
  ASSUME CallInv
  PROVE  \A c \in Calls : Promised!Open(c) <=> Open(c)
  BY DEF CallInv, Promised!Open, Open, heard, NoRequest, Promised!NoRequest

(* The statement that is executed, and the decision it takes, seen from    *)
(* EntityStore.                                                            *)
LEMMA DecideMaps ==
  ASSUME NEW c \in Calls, Executes(c), Decided(c) = "none"
  PROVE  Promised!Decide(c, decision'[c])
  <1>1. \A d \in Calls \ {c} : decision'[d] = decision[d]
    BY DecisionStays DEF Executes
  <1>2. decision' = [decision EXCEPT ![c] = decision'[c]]
    BY <1>1, DecisionIs, DecisionIsNext
  <1>3. decision[c] = Promised!Undecided
    BY DecisionIs
  <1>4. UNCHANGED <<Contract(adapter), request, heard>>
    BY DEF Executes, Contract, heard
  <1> QED
    BY <1>2, <1>3, <1>4 DEF Promised!Decide

(* The table changes here as it does in EntityStore.                       *)
LEMMA BecomeMaps ==
  ASSUME CallInv, NEW t, Become(t)
  PROVE  Promised!Become(t)
  BY OpenMaps DEF Become, Promised!Become

(* A statement that decides nothing and writes nothing leaves EntityStore  *)
(* alone.                                                                  *)
LEMMA StutterMaps ==
  ASSUME TypeOK, WindowInv, NEW c \in Calls, Executes(c), Kept,
         decision'[c] = decision[c]
  PROVE  UNCHANGED Promised!evars
  <1>1. \A d \in Calls \ {c} : decision'[d] = decision[d]
    BY DecisionStays DEF Executes
  <1>2. decision' = decision
    BY <1>1, DecisionIs, DecisionIsNext
  <1>3. window' = window
    BY DEF Executes, Become, Kept, WindowInv, TypeOK
  <1> QED
    BY <1>2, <1>3 DEF Executes, Contract, heard, Kept, Promised!evars

(* When a call decides.                                                    *)
LEMMA DecidesAt ==
  ASSUME NEW c \in Calls, Executes(c), NEW op, NEW i, NEW n, At(c, op, i, n)
  PROVE  /\ i = 1 /\ n = 1 => Decided(c) = "none" /\ Decided(c)' = reply'[c]
         /\ i = 1 /\ n = 2 /\ op = "create" =>
              Decided(c) = "none" /\ Decided(c)' = reply'[c]
         /\ i = 2 /\ n = 2 /\ op = "create" =>
              Decided(c) = "done" /\ Decided(c)' = "done"
         /\ i = 1 /\ n = 2 /\ op # "create" =>
              /\ Decided(c) = "none"
              /\ Decided(c)' = IF reply'[c] = "done" THEN "none" ELSE reply'[c]
         /\ i = 2 /\ n = 2 /\ op \in {"update", "delete"} =>
              /\ Decided(c) = "none"
              /\ Decided(c)' = IF reply'[c] = "none" THEN "none" ELSE "done"
         /\ i = 2 /\ n = 2 /\ op = "list" =>
              Decided(c) = "none" /\ Decided(c)' = reply'[c]
  BY DEF Executes, At, Op, Decided, Program

(* A decision on a write is a tag and nothing else.                        *)
LEMMA PlainDecision ==
  ASSUME LocalInv', NEW c \in Calls, Executes(c),
         Op(c) \in {"create", "update", "delete"}, Decided(c)' # "none"
  PROVE  decision'[c] = Promised!Plain(Decided(c)')
  <1>1. /\ local'[c].value = Absent /\ local'[c].page = {}
        /\ local'[c].total = 0
    <2>1. Op(c)' = Op(c)
      BY DEF Executes, Op
    <2> QED
      BY <2>1 DEF LocalInv
  <1> QED
    BY <1>1, DecisionIsNext DEF Promised!Plain

(* A step of EntityStore, or none.                                         *)
Maps == Promised!Next \/ UNCHANGED Promised!evars

(* The moments that an update() or a delete() may rely on.                 *)
LEMMA WitnessIs ==
  ASSUME TypeOK, CallInv, NEW c \in Calls, pc[c] # 0,
         Op(c) \in {"update", "delete"}
  PROVE  /\ Len(Program(c)) = 1 => /\ Promised!Witness(c) = {table}
         /\ Len(Program(c)) = 2 => /\ Promised!Witness(c) = window[c]
                                   /\ ~Contract(adapter).atomic
  BY Terms DEF Promised!Witness

(* An update() or a delete() that decides "done" or "missing".             *)
LEMMA DoneMaps ==
  ASSUME LocalInv', CallInv, NEW c \in Calls, Executes(c),
         Op(c) \in {"update", "delete"},
         Decided(c) = "none", Decided(c)' = "done",
         \E t \in Promised!Witness(c) : t[Key(c)] # Absent,
         \/ Op(c) = "update" /\ Wrote(c)
         \/ Op(c) = "delete" /\ Removed(c)
         \/ Kept /\ ~Contract(adapter).atomic
  PROVE  Maps
  <1>1. Promised!Decide(c, Promised!Plain("done"))
    BY DecideMaps, PlainDecision
  <1>2. Promised!Become(table')
    BY BecomeMaps DEF Executes
  <1>3. \E t \in Promised!Witness(c) : Promised!Exists(c, t)
    BY DEF Promised!Exists, Key
  <1>4. CASE Op(c) = "update"
    <2>1. Promised!Act(c, Promised!Written(c))
      BY <1>2, <1>4 DEF Promised!Act, Promised!Written, Wrote, Kept, Key
    <2>2. Promised!Update(c)
      BY <1>1, <1>3, <1>4, <2>1 DEF Promised!Update, Op
    <2> QED
      BY <2>2 DEF Maps, Promised!Next
  <1>5. CASE Op(c) = "delete"
    <2>1. Promised!Act(c, Promised!Removed(c))
      BY <1>2, <1>5 DEF Promised!Act, Promised!Removed, Removed, Kept, Key
    <2>2. Promised!Delete(c)
      BY <1>1, <1>3, <1>5, <2>1 DEF Promised!Delete, Op
    <2> QED
      BY <2>2 DEF Maps, Promised!Next
  <1> QED
    BY <1>4, <1>5

(* An update() or a delete() that finds no row, at the moment or earlier;  *)
(* or (MySQL, MariaDB) an update() that would change nothing.              *)
LEMMA MissingMaps ==
  ASSUME LocalInv', CallInv, NEW c \in Calls, Executes(c),
         Op(c) \in {"update", "delete"}, Kept,
         Decided(c) = "none", Decided(c)' = "missing",
         \/ \E t \in Promised!Witness(c) : t[Key(c)] = Absent
         \/ /\ Op(c) = "update" /\ ~Contract(adapter).faithful
            /\ Promised!Written(c) = table
  PROVE  Maps
  <1>1. Promised!Decide(c, Promised!Plain("missing"))
    BY DecideMaps, PlainDecision
  <1>2. Promised!Become(table)
    BY BecomeMaps DEF Executes, Kept
  <1>3. (\E t \in Promised!Witness(c) : t[Key(c)] = Absent) =>
           \E t \in Promised!Witness(c) : ~Promised!Exists(c, t)
    BY DEF Promised!Exists, Key
  <1>4. CASE Op(c) = "update"
    <2>1. Promised!Update(c)
      BY <1>1, <1>2, <1>3, <1>4 DEF Promised!Update, Op
    <2> QED
      BY <2>1 DEF Maps, Promised!Next
  <1>5. CASE Op(c) = "delete"
    <2>1. Promised!Delete(c)
      BY <1>1, <1>2, <1>3, <1>5 DEF Promised!Delete, Op
    <2> QED
      BY <2>1 DEF Maps, Promised!Next
  <1> QED
    BY <1>4, <1>5

(* A create() that decides.                                                *)
LEMMA CreateMaps ==
  ASSUME LocalInv', CallInv, NEW c \in Calls, Executes(c), Op(c) = "create",
         Decided(c) = "none", Decided(c)' = reply'[c],
         \/ /\ reply'[c] = "done" /\ Wrote(c)
            /\ Contract(adapter).exclusive => table[Key(c)] = Absent
         \/ /\ reply'[c] = "exists" /\ Kept
            /\ Contract(adapter).exclusive /\ table[Key(c)] # Absent
  PROVE  Maps
  <1>1. Promised!Decide(c, Promised!Plain(reply'[c]))
    BY DecideMaps, PlainDecision
  <1>2. Promised!Become(table')
    BY BecomeMaps DEF Executes
  <1>3. Promised!Create(c)
    BY <1>1, <1>2 DEF Promised!Create, Promised!Exists, Promised!Written,
       Wrote, Kept, Key, Op
  <1> QED
    BY <1>3 DEF Maps, Promised!Next

(* A get().                                                                *)
LEMMA GetMaps ==
  ASSUME TypeOK, CallInv, WindowInv, LocalInv', NEW c \in Calls,
         Executes(c), Gets(c)
  PROVE  Maps
  <1>1. At(c, "get", 1, 1) /\ pc[c] # 0
    BY Places DEF Executes, Gets
  <1>2. Decided(c) = "none" /\ Decided(c)' = "done"
    BY <1>1, DecidesAt DEF Gets
  <1>3. /\ local'[c].value = table[Key(c)]
        /\ local'[c].page = {} /\ local'[c].total = 0
    <2>1. Op(c)' = "get"
      BY <1>1 DEF At, Executes, Op
    <2>2. local[c] \in Local(clock)
      BY DEF TypeOK, Local
    <2> QED
      BY <2>1, <2>2 DEF LocalInv, Gets, Local
  <1>4. Promised!Decide(c, Promised!Reply("done", table[Key(c)], {}, 0))
    BY <1>2, <1>3, DecideMaps, DecisionIsNext
  <1>5. UNCHANGED <<table, window>>
    BY DEF Gets, Kept, Executes, Become, WindowInv, TypeOK
  <1>6. Promised!Get(c)
    BY <1>1, <1>4, <1>5 DEF Promised!Get, At, Op, Key
  <1> QED
    BY <1>6 DEF Maps, Promised!Next

(* A look-up decides only if it finds nothing; the read-back of MongoDB    *)
(* decides nothing.                                                        *)
LEMMA LookUpMaps ==
  ASSUME TypeOK, CallInv, WindowInv, LocalInv, LocalInv', NEW c \in Calls,
         Executes(c), LooksUp(c)
  PROVE  Maps
  <1>1. pc[c] # 0 /\ Kept /\ table \in window[c]
        /\ reply'[c] = IF table[Key(c)] = Absent THEN "missing" ELSE "done"
    BY DEF Executes, LooksUp, WindowInv
  <1>2. CASE Statement(c) = "check"
    <2>1. PICK op \in {"update", "delete"} : At(c, op, 1, 2)
      BY <1>1, <1>2, Places
    <2>2. /\ Decided(c) = "none"
          /\ Decided(c)' = IF reply'[c] = "done" THEN "none" ELSE reply'[c]
      BY <2>1, DecidesAt
    <2>3. CASE table[Key(c)] = Absent
      <3>1. Promised!Witness(c) = window[c]
        BY <1>1, <2>1, WitnessIs DEF At
      <3> QED
        BY <1>1, <2>1, <2>2, <2>3, <3>1, MissingMaps DEF At
    <2>4. CASE table[Key(c)] # Absent
      <3>1. decision'[c] = decision[c]
        BY <1>1, <2>2, <2>4, DecisionIs, DecisionIsNext
      <3> QED
        BY <1>1, <3>1, StutterMaps DEF Maps
    <2> QED
      BY <2>3, <2>4
  <1>3. CASE Statement(c) = "readBack"
    <2>1. At(c, "create", 2, 2)
      BY <1>1, <1>3, Places
    <2>2. Decided(c) = "done" /\ Decided(c)' = "done"
      BY <2>1, DecidesAt
    <2>3. decision[c] = Promised!Plain("done")
      BY <2>1, <2>2, DecisionIs DEF LocalInv, At, Promised!Plain
    <2>4. decision'[c] = Promised!Plain("done")
      BY <2>1, <2>2, PlainDecision DEF At
    <2> QED
      BY <1>1, <2>3, <2>4, StutterMaps DEF Maps
  <1> QED
    BY <1>2, <1>3 DEF LooksUp

(* The statements that write one row.                                      *)
LEMMA WriteMaps ==
  ASSUME TypeOK, CallInv, WindowInv, MadeInv, FoundInv, LocalInv',
         NEW c \in Calls, Executes(c), Writes(c)
  PROVE  Maps
  <1>0. pc[c] # 0 /\ prep[c] = "none" /\ reply[c] = "none" /\ made
    BY DEF Executes, MadeInv
  <1>1. CASE Statement(c) = "insert"
    <2>1. PICK n \in {1, 2} : At(c, "create", 1, n)
      BY <1>0, <1>1, Places
    <2>2. Decided(c) = "none" /\ Decided(c)' = reply'[c] /\ Op(c) = "create"
      BY <2>1, DecidesAt DEF At
    <2>3. Contract(adapter).exclusive
      BY <1>0, <1>1, Terms
    <2>4. \/ reply'[c] = "done" /\ Wrote(c) /\ table[Key(c)] = Absent
          \/ reply'[c] = "exists" /\ Kept /\ table[Key(c)] # Absent
      BY <1>0, <1>1 DEF Writes
    <2> QED
      BY <2>2, <2>3, <2>4, CreateMaps
  <1>2. CASE Statement(c) = "put" /\ Op(c) = "create"
    <2>1. At(c, "create", 1, 1)
      BY <1>0, <1>2, Places DEF At
    <2>2. Decided(c) = "none" /\ Decided(c)' = reply'[c]
      BY <2>1, DecidesAt
    <2>3. ~Contract(adapter).exclusive
      BY <1>0, <1>2, Terms
    <2>4. reply'[c] = "done" /\ Wrote(c)
      BY <1>2 DEF Writes
    <2> QED
      BY <1>2, <2>2, <2>3, <2>4, CreateMaps
  <1>3. CASE Op(c) \in {"update", "delete"} /\ Len(Program(c)) = 2
    <2>1. At(c, Op(c), 2, 2)
      BY <1>0, <1>3, Places DEF At, Writes
    <2>2. reply'[c] # "none"
      BY DEF Writes
    <2>3. Decided(c) = "none" /\ Decided(c)' = "done"
      BY <1>3, <2>1, <2>2, DecidesAt
    <2>4. /\ Promised!Witness(c) = window[c] /\ ~Contract(adapter).atomic
      BY <1>0, <1>3, WitnessIs
    <2>5. Found(c)
      BY <1>0, <1>3, <2>1 DEF Found, At
    <2>6. \E t \in window[c] : t[Key(c)] # Absent
      BY <2>5 DEF FoundInv
    <2>7. \/ Op(c) = "update" /\ Wrote(c)
          \/ Op(c) = "delete" /\ Removed(c)
          \/ Kept
      BY <1>0, <1>3, Places DEF Writes, At
    <2> QED
      BY <1>3, <2>3, <2>4, <2>6, <2>7, DoneMaps
  <1>4. CASE Op(c) \in {"update", "delete"} /\ Len(Program(c)) = 1
    <2>1. At(c, Op(c), 1, 1)
      BY <1>0, <1>4, Places DEF At, Writes
    <2>2. Decided(c) = "none" /\ Decided(c)' = reply'[c]
      BY <2>1, DecidesAt
    <2>3. Promised!Witness(c) = {table}
      BY <1>0, <1>4, WitnessIs
    <2>4. CASE reply'[c] = "done"
      <3>1. /\ table[Key(c)] # Absent
            /\ \/ Op(c) = "update" /\ Wrote(c)
               \/ Op(c) = "delete" /\ Removed(c)
        BY <1>0, <1>4, <2>1, <2>4, Places DEF Writes, At
      <3> QED
        BY <1>4, <2>2, <2>3, <2>4, <3>1, DoneMaps
    <2>5. CASE reply'[c] # "done"
      <3>1. reply'[c] = "missing" /\ Kept
            /\ \/ table[Key(c)] = Absent
               \/ /\ Statement(c) = "changeIfDifferent"
                  /\ table[Key(c)] = request[c].value
        BY <1>0, <1>4, <2>5, Places DEF Writes, At
      <3>2. CASE table[Key(c)] = Absent
        BY <1>4, <2>2, <2>3, <3>1, <3>2, MissingMaps
      <3>3. CASE /\ Statement(c) = "changeIfDifferent"
                 /\ table[Key(c)] = request[c].value
        <4>1. ~Contract(adapter).faithful /\ Op(c) = "update"
          BY <1>0, <3>3, Terms, Places DEF At
        <4>2. Promised!Written(c) = table
          BY <3>3 DEF TypeOK, Tables, Promised!Written, Key
        <4> QED
          BY <2>2, <3>1, <4>1, <4>2, MissingMaps
      <3> QED
        BY <3>1, <3>2, <3>3
    <2> QED
      BY <2>4, <2>5
  <1> QED
    BY <1>0, <1>1, <1>2, <1>3, <1>4, Places DEF Writes, At

(* The statements that write points.  A point that a newer one hides, and  *)
(* a delete() that leaves a newer one, come to nothing, as Act allows.     *)
LEMMA PointMaps ==
  ASSUME TypeOK, CallInv, WindowInv, FoundInv, LocalInv',
         NEW c \in Calls, Executes(c),
         Appends(c) \/ Rewrites(c) \/ DeletesUntil(c)
  PROVE  Maps
  <1>0. pc[c] # 0 /\ reply[c] = "none"
    BY DEF Executes
  <1>1. CASE Appends(c)
    <2>1. At(c, "create", 1, 1)
      BY <1>0, <1>1, Places DEF Appends
    <2>2. Decided(c) = "none" /\ Decided(c)' = reply'[c] /\ Op(c) = "create"
      BY <2>1, DecidesAt DEF At
    <2>3. ~Contract(adapter).exclusive
      BY <1>0, <1>1, <2>2, Terms DEF Appends
    <2>4. reply'[c] = "done" /\ Wrote(c)
      BY <1>1 DEF Appends
    <2> QED
      BY <2>2, <2>3, <2>4, CreateMaps
  <1>2. CASE Rewrites(c) \/ DeletesUntil(c)
    <2>1. PICK op \in {"update", "delete"} :
            /\ At(c, op, 2, 2)
            /\ op = "update" => Wrote(c) \/ Kept
            /\ op = "delete" => Removed(c) \/ Kept
      BY <1>0, <1>2, Places DEF Rewrites, DeletesUntil
    <2>2. reply'[c] = "done"
      BY <1>2 DEF Rewrites, DeletesUntil
    <2>3. Decided(c) = "none" /\ Decided(c)' = "done"
      BY <2>1, <2>2, DecidesAt
    <2>4. /\ Promised!Witness(c) = window[c] /\ ~Contract(adapter).atomic
          /\ Op(c) = op
      BY <1>0, <2>1, WitnessIs DEF At
    <2>5. Found(c)
      BY <1>0, <2>1 DEF Found, At
    <2>6. \E t \in window[c] : t[Key(c)] # Absent
      BY <2>5 DEF FoundInv
    <2> QED
      BY <2>1, <2>3, <2>4, <2>6, DoneMaps
  <1> QED
    BY <1>1, <1>2

(* A list() that has read all.                                             *)
LEMMA ListDecides ==
  ASSUME TypeOK, WindowInv, LocalInv', NEW c \in Calls, Executes(c), Kept,
         Op(c) = "list", Decided(c) = "none", Decided(c)' = "done",
         local'[c].page \in SUBSET Keys,
         local'[c].total \in 0 .. Cardinality(Keys) + Cardinality(Calls),
         IF Contract(adapter).snapshot
           THEN /\ local'[c].page = Rows(table)
                /\ local'[c].total \in Cardinality(Rows(table)) ..
                     Cardinality(Rows(table)) + Promised!Again
           ELSE /\ Stayed(c) \subseteq local'[c].page
                /\ local'[c].page \subseteq Seen(c)
                /\ Cardinality(Stayed(c)) <= local'[c].total
                /\ local'[c].total <= Cardinality(Seen(c))
  PROVE  Maps
  <1> DEFINE page == local'[c].page
             total == local'[c].total
  <1>1. Op(c)' = "list"
    BY DEF Executes, Op
  <1>2. Promised!Decide(c, Promised!Reply("done", Absent, page, total))
    BY <1>1, DecideMaps, DecisionIsNext DEF LocalInv
  <1>3. UNCHANGED <<table, window>>
    BY DEF Kept, Executes, Become, WindowInv, TypeOK
  <1>4. \A t \in window[c] : \A k \in Keys :
          k \in Promised!Rows(t) <=> t[k] # Absent
    BY DEF Promised!Rows
  <1>5. /\ Stayed(c) =
             {k \in Keys : \A t \in window[c] : k \in Promised!Rows(t)}
        /\ Seen(c) = UNION {Promised!Rows(t) : t \in window[c]}
        /\ Rows(table) = Promised!Rows(table)
    BY <1>4 DEF Stayed, Seen, Rows, Promised!Rows
  <1> HIDE DEF page, total
  <1>7. /\ page \in SUBSET Keys
        /\ total \in
             0 .. Promised!Cardinality(Keys) + Promised!Cardinality(Calls)
        /\ IF Contract(adapter).snapshot
             THEN /\ page = Promised!Rows(table)
                  /\ total \in Promised!Cardinality(page) ..
                       Promised!Cardinality(page) + Promised!Again
             ELSE /\ Stayed(c) \subseteq page /\ page \subseteq Seen(c)
                  /\ Promised!Cardinality(Stayed(c)) <= total
                  /\ total <= Promised!Cardinality(Seen(c))
    BY <1>5, SameCardinality DEF page, total
  <1>6. Promised!List(c)
    BY <1>2, <1>3, <1>5, <1>7 DEF Promised!List, Op
  <1> QED
    BY <1>6 DEF Maps, Promised!Next

(* What list() of InfluxDB may count twice.                                *)
LEMMA AgainIs ==
  /\ Promised!Again \in Nat
  /\ ~Contract(adapter).entities => Cardinality(Created) <= Promised!Again
  <1> DEFINE creates == {d \in Calls : request[d].op = "create"}
  <1>1. Created \subseteq creates /\ creates \subseteq Calls
    BY DEF Created, Op
  <1> HIDE DEF creates
  <1>2. /\ IsFiniteSet(creates) /\ Cardinality(creates) \in Nat
        /\ Cardinality(Created) <= Cardinality(creates)
    BY <1>1, RepositoryAssumption, FS_Subset, FS_CardinalityType
  <1>3. Promised!Again = IF Contract(adapter).entities THEN 0
                         ELSE Cardinality(creates)
    BY SameCardinality DEF Promised!Again, creates
  <1> QED
    BY <1>2, <1>3

(* A piece of a list().                                                    *)
LEMMA ListMaps ==
  ASSUME TypeOK, CallInv, WindowInv, LocalInv', ListInv', PointInv,
         NEW c \in Calls, Executes(c),
         \/ ReadsTable(c) \/ ReadsPoints(c) \/ Fetches(c)
         \/ \E S \in SUBSET Keys : Scans(c, S),
         local'[c] \in Local(clock)
  PROVE  Maps
  <1>0. pc[c] # 0 /\ reply[c] = "none" /\ Kept /\ Open(c)
        /\ reply'[c] \in {"none", "done"}
    BY DEF Executes, ReadsTable, ReadsPoints, Fetches, Scans
  <1>1. /\ local'[c].page \in SUBSET Keys
        /\ local'[c].total \in 0 .. Cardinality(Keys) + Cardinality(Calls)
    BY DEF Local
  <1>2. PICK i \in {1, 2}, n \in {1, 2} : At(c, "list", i, n)
    <2>1. Op(c) = "list" /\ (Len(Program(c)) = 1 \/ Len(Program(c)) = 2)
      BY <1>0, Places
         DEF ReadsTable, ReadsPoints, Fetches, Scans, At
    <2>2. pc[c] \in {1, 2}
      BY <1>0 DEF TypeOK
    <2> QED
      BY <2>1, <2>2 DEF At
  <1>5. Op(c) = "list" /\ pc[c] = i /\ Len(Program(c)) = n
    BY <1>2 DEF At
  <1>6. Contract(adapter).snapshot <=> n = 1
    BY <1>0, <1>5, Terms
  <1>3. CASE n = 1 /\ i = 1
    <2>1. Contract(adapter).snapshot
      BY <1>3, <1>6
    <2>2. Decided(c) = "none" /\ Decided(c)' = reply'[c]
      BY <1>2, <1>3, DecidesAt
    <2>0. /\ local[c] \in Local(clock)
          /\ Cardinality(Rows(table)) \in Nat /\ Rows(table) \in SUBSET Keys
          /\ Promised!Again \in Nat
      <3>1. /\ local[c] \in Local(clock) /\ Rows(table) \in SUBSET Keys
        BY DEF TypeOK, Local, Rows
      <3>2. Cardinality(Rows(table)) \in Nat
        BY <3>1, Sizes
      <3> QED
        BY <3>1, <3>2, AgainIs
    <2>3. CASE ReadsTable(c)
      <3>1. /\ local'[c].page = Rows(table) /\ reply'[c] = "done"
            /\ local'[c].total = Cardinality(Rows(table))
        <4>1. Statement(c) = "pageAndTotal"
          <5>1. Len(Program(c)) # 2
            BY <1>3, <1>5
          <5> QED
            BY <1>0, <2>3, <5>1, Places DEF At, ReadsTable
        <4> QED
          BY <2>0, <2>3, <4>1 DEF ReadsTable, Local
      <3> QED
        BY <1>0, <1>1, <1>5, <2>0, <2>1, <2>2, <3>1, ListDecides
    <2>4. CASE ReadsPoints(c)
      <3>1. AppendsPoints /\ ~Contract(adapter).entities
        BY <1>0, <2>4, PointTerms, Terms DEF ReadsPoints
      <3>2. /\ local'[c].page = Rows(table) /\ reply'[c] = "done"
            /\ local'[c].total = Cardinality(AllPoints)
        <4>1. /\ local'[c].page = {k \in Keys : points[k] # {}}
              /\ reply'[c] = "done"
              /\ local'[c].total = Cardinality(AllPoints)
          BY <2>0, <2>4 DEF ReadsPoints, Local
        <4>2. Rows(table) = {k \in Keys : points[k] # {}}
          BY <3>1 DEF Rows, PointInv, RowsHavePoints
        <4> QED
          BY <4>1, <4>2
      <3>3. Cardinality(AllPoints) \in Cardinality(Rows(table)) ..
              Cardinality(Rows(table)) + Promised!Again
        <4>1. Rows(table) = {k \in Keys : points[k] # {}}
          BY <3>1 DEF Rows, PointInv, RowsHavePoints
        <4>2. /\ Cardinality(AllPoints) \in Nat
              /\ Cardinality(Rows(table)) <= Cardinality(AllPoints)
              /\ Cardinality(AllPoints) <=
                   Cardinality(Rows(table)) + Cardinality(Created)
          BY <3>1, <4>1, PointsCounted
        <4>3. /\ Cardinality(Created) <= Promised!Again
              /\ Cardinality(Created) \in Nat /\ Promised!Again \in Nat
          BY <3>1, AgainIs, Sizes
        <4> QED
          BY <2>0, <4>2, <4>3
      <3> QED
        BY <1>0, <1>1, <1>5, <2>0, <2>1, <2>2, <3>2, <3>3, ListDecides
    <2>5. Statement(c) \notin {"fetchPage", "scanPage", "scanTotal", "scanKeys"}
      <3>1. Len(Program(c)) # 2
        BY <1>3, <1>5
      <3> QED
        BY <1>0, <3>1, Places DEF At
    <2> QED
      BY <2>3, <2>4, <2>5 DEF Fetches, Scans
  <1>4. CASE n = 2
    <2>1. ~Contract(adapter).snapshot
      BY <1>4, <1>6
    <2>2. CASE i = 1
      <3>1. /\ Decided(c) = "none"
            /\ Decided(c)' = IF reply'[c] = "done" THEN "none" ELSE reply'[c]
        BY <1>2, <1>4, <2>2, DecidesAt
      <3>2. decision'[c] = decision[c]
        BY <1>0, <3>1, DecisionIs, DecisionIsNext
      <3> QED
        BY <1>0, <3>2, StutterMaps DEF Maps
    <2>3. CASE i = 2
      <3>1. Decided(c) = "none" /\ Decided(c)' = reply'[c]
        BY <1>2, <1>4, <2>3, DecidesAt
      <3>2. CASE reply'[c] = "none"
        <4>1. decision'[c] = decision[c]
          BY <3>1, <3>2, DecisionIs, DecisionIsNext
        <4> QED
          BY <1>0, <4>1, StutterMaps DEF Maps
      <3>3. CASE reply'[c] = "done"
        <4>1. Listing(c)'
          BY <1>0, <1>4, <1>5 DEF Listing, Open, Op, Program, Executes
        <4>2. Lists(c)' /\ local'[c].todo = {}
          BY <3>3, <4>1 DEF ListInv, Lists
        <4>3. Statement(c)' \in {"total", "scanTotal", "fetchPage"}
          <5>1. /\ Statement(c)' = Programs[adapter]["list"][2]
                /\ Len(Programs[adapter]["list"]) = 2
            BY <1>4, <1>5, <2>3 DEF Executes, Statement, Program, Op
          <5> QED
            BY <5>1, ListPairs DEF TypeOK
        <4>4. PageRest(c)' = {} /\ TotalRest(c)' = {}
          BY <1>5, <2>3, <4>2, <4>3 DEF PageRest, TotalRest, Executes
        <4>5. Stayed(c)' = Stayed(c) /\ Seen(c)' = Seen(c)
          <5>1. window'[c] = window[c]
            BY <1>0 DEF Executes, Become, Kept, WindowInv
          <5> QED
            BY <5>1 DEF Stayed, Seen
        <4>6. /\ Stayed(c) \subseteq local'[c].page
              /\ local'[c].page \subseteq Seen(c)
              /\ Cardinality(Stayed(c)) <= local'[c].total
              /\ local'[c].total <= Cardinality(Seen(c))
          BY <4>2, <4>4, <4>5 DEF Lists
        <4> QED
          BY <1>0, <1>1, <1>5, <2>1, <3>1, <3>3, <4>6, ListDecides
      <3> QED
        BY <1>0, <3>2, <3>3
    <2> QED
      BY <1>2, <2>2, <2>3
  <1>7. n = 1 => i = 1
    <2>1. pc[c] \in 1 .. Len(Program(c))
      BY <1>0, Places
    <2>2. i \in 1 .. n
      BY <1>5, <2>1
    <2> QED
      BY <2>2
  <1> QED
    BY <1>3, <1>4, <1>7

(* A search().                                                             *)
LEMMA SearchMaps ==
  ASSUME TypeOK, CallInv, WindowInv, LocalInv', NEW c \in Calls,
         Executes(c), NEW S \in SUBSET Keys, Searches(c, S)
  PROVE  Maps
  <1>1. At(c, "search", 1, 1) /\ pc[c] # 0
    BY Places DEF Executes, Searches
  <1>2. Decided(c) = "none" /\ Decided(c)' = "done"
    BY <1>1, DecidesAt DEF Searches
  <1>3. /\ local'[c].page = S
        /\ local'[c].value = Absent /\ local'[c].total = 0
    <2>1. Op(c)' = "search"
      BY <1>1 DEF At, Executes, Op
    <2>2. local[c] \in Local(clock)
      BY DEF TypeOK, Local
    <2> QED
      BY <2>1, <2>2 DEF LocalInv, Searches, Local
  <1>4. Promised!Decide(c, Promised!Reply("done", Absent, S, 0))
    BY <1>2, <1>3, DecideMaps, DecisionIsNext
  <1>5. UNCHANGED <<table, window>>
    BY DEF Searches, Kept, Executes, Become, WindowInv, TypeOK
  <1>6. /\ S \in SUBSET Promised!Rows(table)
        /\ Promised!Cardinality(S) <= Nearest
    BY SameCardinality DEF Searches, Rows, Promised!Rows
  <1>7. Promised!Search(c)
    BY <1>1, <1>4, <1>5, <1>6 DEF Promised!Search, At, Op
  <1> QED
    BY <1>7 DEF Maps, Promised!Next

(* The end of a time to live.                                              *)
LEMMA ExpireMaps ==
  ASSUME TypeOK, CallInv, NEW k \in Keys, Expire(k)
  PROVE  Maps
  <1>1. ~Contract(adapter).lasting
    BY DEF Expire, Contract
  <1>2. Promised!Become([table EXCEPT ![k] = Absent])
    BY BecomeMaps DEF Expire
  <1>3. \A d \in Calls : decision'[d] = decision[d]
    BY DecisionStays DEF Expire
  <1>4. decision' = decision
    BY <1>3, DecisionFunction
  <1>5. UNCHANGED <<Contract(adapter), request, heard>>
    BY DEF Expire, Contract, heard
  <1>6. Promised!Expire(k)
    BY <1>1, <1>2, <1>4, <1>5 DEF Promised!Expire, Expire
  <1> QED
    BY <1>6 DEF Maps, Promised!Next

(* Every step is one of EntityStore's, or leaves it alone.                 *)
LEMMA CallerMaps ==
  ASSUME TypeOK, CallInv, WindowInv, NEW c \in Calls, CallerStep(c)
  PROVE  Maps
  <1>1. ASSUME NEW r \in Requests[c], Begin(c, r)
        PROVE  Maps
    <2>1. Begins(c, r)
      BY <1>1, BeginEffect
    <2>2. pc[c] = 0 /\ reply[c] = "none" /\ request[c] = Promised!NoRequest
      BY <2>1 DEF Begins, CallInv, NoRequest, Promised!NoRequest
    <2>3. pc'[c] = 1 /\ reply'[c] = "none"
      BY <2>1, <2>2 DEF Begins
    <2>4. Decided(c) = "none" /\ Decided(c)' = "none"
      BY <2>2, <2>3 DEF Decided
    <2>5. \A d \in Calls \ {c} : decision'[d] = decision[d]
      BY <2>1, DecisionStays DEF Begins
    <2>6. decision' = decision
      BY <2>4, <2>5, DecisionIs, DecisionIsNext, DecisionFunction
    <2>7. Promised!Begin(c, r)
      BY <1>1, <2>2, <2>6
         DEF Begin, Ask, database, Contract, heard, Promised!Begin
    <2> QED
      BY <2>7 DEF Maps, Promised!Next
  <1>2. CASE MakeConstraint(c) \/ Ensured(c)
    <2>1. \A d \in Calls : decision'[d] = decision[d]
      BY <1>2, DecisionStays DEF MakeConstraint, Ensured
    <2>2. decision' = decision
      BY <2>1, DecisionFunction
    <2> QED
      BY <1>2, <2>2 DEF MakeConstraint, Ensured, database, Contract, heard,
         Maps, Promised!evars
  <1>3. CASE SendNext(c)
    <2>1. Sends(c)
      BY <1>3, SendEffect
    <2>2. pc[c] = 1 /\ Len(Program(c)) = 2 /\ reply[c] = "done"
      <3>1. /\ Open(c) /\ reply[c] = "done" /\ pc[c] < Len(Program(c))
        BY <2>1 DEF Sends
      <3>2. Len(Program(c)) = 1 \/ Len(Program(c)) = 2
        BY <3>1, Places DEF Open
      <3>3. pc[c] = 1 \/ pc[c] = 2
        BY <3>1 DEF Open, TypeOK
      <3>4. \A i, n \in {1, 2} : i < n => i = 1 /\ n = 2
        OBVIOUS
      <3> QED
        BY <3>1, <3>2, <3>3, <3>4, Zenon
    <2>3. /\ pc'[c] = 2 /\ Len(Program(c))' = 2 /\ reply'[c] = "none"
          /\ Op(c)' = Op(c)
      BY <2>1, <2>2 DEF Sends, Program, Op
    <2>4. Decided(c) = IF Op(c) = "create" THEN "done" ELSE "none"
      BY <2>2 DEF Decided, Op
    <2>5. Decided(c)' = IF Op(c) = "create" THEN "done" ELSE "none"
      BY <2>3 DEF Decided, Op
    <2>6. decision'[c] = decision[c]
      BY <2>1, <2>4, <2>5, DecisionIs, DecisionIsNext DEF Sends
    <2>7. \A d \in Calls \ {c} : decision'[d] = decision[d]
      BY <2>1, DecisionStays DEF Sends
    <2>8. decision' = decision
      BY <2>6, <2>7, DecisionFunction
    <2> QED
      BY <2>1, <2>8 DEF Sends, Contract, heard, Maps, Promised!evars
  <1>4. CASE Return(c)
    <2>1. Promised!Open(c) /\ pc[c] # 0
      BY <1>4, OpenMaps DEF Return, Open
    <2>2. Decided(c) # "none"
      BY <1>4, <2>1 DEF Return, Decided
    <2>3. decision[c] # Promised!Undecided
      BY <2>2, DecisionIs
    <2>4. decision' = decision
      <3>1. \A d \in Calls : decision'[d] = decision[d]
        BY <1>4, DecisionStays DEF Return
      <3> QED
        BY <3>1, DecisionFunction
    <2>5. heard' = [heard EXCEPT ![c] = "yes"]
      BY <1>4 DEF Return, heard, TypeOK
    <2>6. Promised!Tell(c)
      BY <1>4, <2>1, <2>3, <2>4, <2>5
         DEF Return, database, Contract, Promised!Tell
    <2> QED
      BY <2>6 DEF Maps, Promised!Next
  <1>5. CASE FailReadBack(c) \/ Raise(c)
    <2>1. Promised!Open(c)
      BY <1>5, OpenMaps DEF FailReadBack, Raise
    <2>2. decision' = decision
      <3>1. \A d \in Calls : decision'[d] = decision[d]
        BY <1>5, DecisionStays DEF FailReadBack, Raise
      <3> QED
        BY <3>1, DecisionFunction
    <2>3. heard' = [heard EXCEPT ![c] = "raised"]
      BY <1>5 DEF FailReadBack, Raise, heard, TypeOK
    <2>4. Promised!Raise(c)
      BY <1>5, <2>1, <2>2, <2>3
         DEF FailReadBack, Raise, database, Contract, Promised!Raise
    <2> QED
      BY <2>4 DEF Maps, Promised!Next
  <1> QED
    BY <1>1, <1>2, <1>3, <1>4, <1>5 DEF CallerStep

(* The table an adapter finds is one that EntityStore may begin with.      *)
LEMMA InitMaps ==
  ASSUME Init
  PROVE  Promised!Init
  <1>1. table \in [Keys -> Values \union {Absent}]
    BY RepositoryAssumption DEF Init, Tables
  <1>2. decision = [c \in Calls |-> decision[c]]
    BY DecisionShape
  <1>3. \A c \in Calls : decision[c] = Promised!Undecided
    <2>1. \A c \in Calls : Decided(c) = "none"
      BY DEF Init, Decided
    <2> QED
      BY <2>1, DecisionIs
  <1>4. decision = [c \in Calls |-> Promised!Undecided]
    BY <1>2, <1>3
  <1> QED
    BY <1>1, <1>4 DEF Init, heard, Promised!Init, NoRequest,
       Promised!NoRequest

(* A statement that is executed is a step of EntityStore, or none.         *)
LEMMA ExecutesMaps ==
  ASSUME IInv, IInv', NEW c \in Calls, Executes(c), Does(c)
  PROVE  Maps
  <1>1. /\ TypeOK /\ CallInv /\ MadeInv /\ LocalInv /\ WindowInv
        /\ FoundInv /\ ListInv /\ PointInv /\ ListInv' /\ LocalInv'
    BY DEF IInv
  <1>2. local'[c] \in Local(clock)
    BY <1>1, LocalTyped
  <1>3. CASE Gets(c)
    BY <1>1, <1>3, GetMaps
  <1>4. CASE LooksUp(c)
    BY <1>1, <1>4, LookUpMaps
  <1>5. CASE Writes(c)
    BY <1>1, <1>5, WriteMaps
  <1>6. CASE Appends(c) \/ Rewrites(c) \/ DeletesUntil(c)
    BY <1>1, <1>6, PointMaps
  <1>7. CASE \/ ReadsTable(c) \/ ReadsPoints(c) \/ Fetches(c)
             \/ \E S \in SUBSET Keys : Scans(c, S)
    BY <1>1, <1>2, <1>7, ListMaps
  <1>8. ASSUME NEW S \in SUBSET Keys, Searches(c, S)
        PROVE  Maps
    BY <1>1, <1>8, SearchMaps
  <1> QED
    BY <1>3, <1>4, <1>5, <1>6, <1>7, <1>8 DEF Does

(* Every call of every adapter acts as EntityStore says under the contract *)
(* of that adapter: it takes effect at one moment between its begin and    *)
(* its answer, or relies on a row it has seen in that time, or (if it has  *)
(* raised) acts later or never; list() without a snapshot returns a page   *)
(* and a total that what was there during the call allows.                 *)
THEOREM Refinement == Spec => ImplementsEntityStore
  <1>1. Init => Promised!Init
    BY InitMaps
  <1>2. IInv /\ IInv' /\ [Next]_vars => [Promised!Next]_(Promised!evars)
    <2> SUFFICES ASSUME IInv, IInv', [Next]_vars PROVE Maps
      BY DEF Maps
    <2>1. TypeOK /\ CallInv /\ WindowInv
      BY DEF IInv
    <2>2. ASSUME NEW k \in Keys, Expire(k)
          PROVE  Maps
      BY <2>1, <2>2, ExpireMaps
    <2>3. CASE UNCHANGED vars
      <3>1. decision' = decision
        <4>1. \A d \in Calls : decision'[d] = decision[d]
          BY <2>3, DecisionStays DEF vars
        <4> QED
          BY <4>1, DecisionFunction
      <3> QED
        BY <2>3, <3>1
           DEF vars, database, Contract, heard, Maps, Promised!evars
    <2> QED
      BY <2>1, <2>2, <2>3, Steps, CallerMaps, ExecutesMaps
  <1> QED
    BY <1>1, <1>2, Invariance, PTL
       DEF Spec, ImplementsEntityStore, Promised!Spec

(* The statements of the fourteen adapters do go together as               *)
(* ProgramsAssumption says, so the theorems above are about each of them.  *)
THEOREM ProgramsFit ==
  \A a \in DOMAIN RepositoryPrograms : Fits(RepositoryPrograms[a])
  <1>0. DOMAIN RepositoryPrograms =
          {"postgres", "cockroachdb", "mysql", "mariadb", "oracle",
           "cassandra", "milvus", "qdrant", "influxdb", "redis", "falkordb",
           "dynamodb", "mongo", "chromadb"}
    BY DEF RepositoryPrograms
  <1>1. Fits(RepositoryPrograms["postgres"])
    BY DEF RepositoryPrograms, Operation, Fits, PostgresGet, PostgresCreate,
       PostgresUpdate, PostgresDelete, PostgresList, NoSearch
  <1>2. Fits(RepositoryPrograms["cockroachdb"])
    BY
       DEF RepositoryPrograms, Operation, Fits, CockroachDBGet,
       CockroachDBCreate,
       CockroachDBUpdate, CockroachDBDelete, CockroachDBList, NoSearch
  <1>3. Fits(RepositoryPrograms["mysql"])
    BY DEF RepositoryPrograms, Operation, Fits, MySQLGet, MySQLCreate,
       MySQLUpdate, MySQLDelete, MySQLList, NoSearch
  <1>4. Fits(RepositoryPrograms["mariadb"])
    BY DEF RepositoryPrograms, Operation, Fits, MariaDBGet, MariaDBCreate,
       MariaDBUpdate, MariaDBDelete, MariaDBList, NoSearch
  <1>5. Fits(RepositoryPrograms["oracle"])
    BY DEF RepositoryPrograms, Operation, Fits, OracleGet, OracleCreate,
       OracleUpdate, OracleDelete, OracleList, NoSearch
  <1>6. Fits(RepositoryPrograms["cassandra"])
    BY DEF RepositoryPrograms, Operation, Fits, CassandraGet, CassandraCreate,
       CassandraUpdate, CassandraDelete, CassandraList, NoSearch
  <1>7. Fits(RepositoryPrograms["milvus"])
    BY DEF RepositoryPrograms, Operation, Fits, MilvusGet, MilvusCreate,
       MilvusUpdate, MilvusDelete, MilvusList, MilvusSearch
  <1>8. Fits(RepositoryPrograms["qdrant"])
    BY DEF RepositoryPrograms, Operation, Fits, QdrantGet, QdrantCreate,
       QdrantUpdate, QdrantDelete, QdrantList, QdrantSearch
  <1>9. Fits(RepositoryPrograms["influxdb"])
    BY DEF RepositoryPrograms, Operation, Fits, InfluxDBGet, InfluxDBCreate,
       InfluxDBUpdate, InfluxDBDelete, InfluxDBList, NoSearch
  <1>10. Fits(RepositoryPrograms["redis"])
    BY DEF RepositoryPrograms, Operation, Fits, RedisGet, RedisCreate,
       RedisUpdate, RedisDelete, RedisList, NoSearch
  <1>11. Fits(RepositoryPrograms["falkordb"])
    BY DEF RepositoryPrograms, Operation, Fits, FalkorDBGet, FalkorDBCreate,
       FalkorDBUpdate, FalkorDBDelete, FalkorDBList, NoSearch
  <1>12. Fits(RepositoryPrograms["dynamodb"])
    BY DEF RepositoryPrograms, Operation, Fits, DynamoDBGet, DynamoDBCreate,
       DynamoDBUpdate, DynamoDBDelete, DynamoDBList, NoSearch
  <1>13. Fits(RepositoryPrograms["mongo"])
    BY DEF RepositoryPrograms, Operation, Fits, MongoGet, MongoCreate,
       MongoUpdate, MongoDelete, MongoList, NoSearch
  <1>14. Fits(RepositoryPrograms["chromadb"])
    BY DEF RepositoryPrograms, Operation, Fits, ChromaDBGet, ChromaDBCreate,
       ChromaDBUpdate, ChromaDBDelete, ChromaDBList, ChromaDBSearch
  <1> QED
    BY <1>0, <1>1, <1>2, <1>3, <1>4, <1>5, <1>6, <1>7,
       <1>8, <1>9, <1>10, <1>11, <1>12, <1>13, <1>14
=============================================================================
