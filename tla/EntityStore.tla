---------------------------- MODULE EntityStore ----------------------------
(***************************************************************************)
(* What BaseRepository promises its callers: get, create, update, delete,  *)
(* list and search act on one table, each call once, between its begin and *)
(* its answer.  A call that raises may have acted, or act later.           *)
(* `contract` says how much of the promise is kept:                        *)
(*   exclusive  create() of an id that exists raises and changes nothing   *)
(*   atomic     update() and delete() test and act at one moment; if not,  *)
(*              they rely on a row seen, or missed, earlier in the call    *)
(*   snapshot   the page and the total of list() are of one moment         *)
(*   entities   the total of list() is of entities; if not, it counts what *)
(*              calls of create() have stored under an id besides the first*)
(*   faithful   update() finds every row that exists; if not, it misses    *)
(*              one that it would leave as it is                           *)
(*   lasting    rows do not expire                                         *)
(***************************************************************************)
EXTENDS Naturals, FiniteSets

CONSTANTS Keys, Values, Absent, Calls, Requests, Nearest

VARIABLES
  contract,
  table,     \* the entity of each key, or Absent
  request,   \* what a call was asked for, NoRequest before it begins
  reply,     \* what the call has found out, Undecided before
  told,      \* "no", "yes", or "raised": whether the caller has the reply
  window     \* the tables there have been since the call began

evars == <<contract, table, request, reply, told, window>>

NoRequest == [op |-> "none", key |-> Absent, value |-> Absent]

Reply(tag, value, page, total) ==
  [tag |-> tag, value |-> value, page |-> page, total |-> total]
Plain(tag) == Reply(tag, Absent, {}, 0)
Undecided == Plain("none")

Rows(t) == {k \in Keys : t[k] # Absent}

Open(c) == request[c] # NoRequest /\ told[c] = "no"

Init ==
  /\ table \in [Keys -> Values \union {Absent}]
  /\ request = [c \in Calls |-> NoRequest]
  /\ reply = [c \in Calls |-> Undecided]
  /\ told = [c \in Calls |-> "no"]
  /\ window = [c \in Calls |-> {}]

Begin(c, r) ==
  /\ request[c] = NoRequest
  /\ request' = [request EXCEPT ![c] = r]
  /\ window' = [window EXCEPT ![c] = {table}]
  /\ UNCHANGED <<contract, table, reply, told>>

(* The table becomes t, and the calls under way may have seen it.          *)
Become(t) ==
  /\ table' = t
  /\ window' = [c \in Calls |-> IF Open(c) THEN window[c] \union {t}
                                ELSE window[c]]

Decide(c, r) ==
  /\ reply[c] = Undecided
  /\ reply' = [reply EXCEPT ![c] = r]
  /\ UNCHANGED <<contract, request, told>>

Written(c) == [table EXCEPT ![request[c].key] = request[c].value]
Removed(c) == [table EXCEPT ![request[c].key] = Absent]
Exists(c, t) == t[request[c].key] # Absent

(* The moments an update() or delete() may rely on.                        *)
Witness(c) == IF contract.atomic THEN {table} ELSE window[c]

(* A write that is not atomic may come to nothing: the row is gone, or a   *)
(* newer one hides it.                                                     *)
Act(c, t) == Become(t) \/ (~contract.atomic /\ Become(table))

Get(c) ==
  /\ request[c].op = "get"
  /\ Decide(c, Reply("done", table[request[c].key], {}, 0))
  /\ UNCHANGED <<table, window>>

Create(c) ==
  /\ request[c].op = "create"
  /\ IF contract.exclusive /\ Exists(c, table)
       THEN Decide(c, Plain("exists")) /\ Become(table)
       ELSE Decide(c, Plain("done")) /\ Become(Written(c))

Update(c) ==
  /\ request[c].op = "update"
  /\ \/ /\ \E t \in Witness(c) : Exists(c, t)
        /\ Decide(c, Plain("done")) /\ Act(c, Written(c))
     \/ /\ \/ \E t \in Witness(c) : ~Exists(c, t)
           \/ ~contract.faithful /\ Written(c) = table
        /\ Decide(c, Plain("missing")) /\ Become(table)

Delete(c) ==
  /\ request[c].op = "delete"
  /\ \/ /\ \E t \in Witness(c) : Exists(c, t)
        /\ Decide(c, Plain("done")) /\ Act(c, Removed(c))
     \/ /\ \E t \in Witness(c) : ~Exists(c, t)
        /\ Decide(c, Plain("missing")) /\ Become(table)

Again ==
  IF contract.entities THEN 0
  ELSE Cardinality({d \in Calls : request[d].op = "create"})

(* Without a snapshot: a row of the page has been there, one that is not   *)
(* on it has been missing, and the total lies between the rows that stayed *)
(* and those that were there at all.                                       *)
List(c) ==
  /\ request[c].op = "list"
  /\ \E page \in SUBSET Keys, total \in 0 .. Cardinality(Keys) + Cardinality(Calls) :
       /\ IF contract.snapshot
            THEN /\ page = Rows(table)
                 /\ total \in Cardinality(page) .. Cardinality(page) + Again
            ELSE LET stayed == {k \in Keys : \A t \in window[c] : k \in Rows(t)}
                     seen == UNION {Rows(t) : t \in window[c]}
                 IN /\ stayed \subseteq page /\ page \subseteq seen
                    /\ Cardinality(stayed) <= total /\ total <= Cardinality(seen)
       /\ Decide(c, Reply("done", Absent, page, total))
  /\ UNCHANGED <<table, window>>

Search(c) ==
  /\ request[c].op = "search"
  /\ \E page \in SUBSET Rows(table) :
       /\ Cardinality(page) <= Nearest
       /\ Decide(c, Reply("done", Absent, page, 0))
  /\ UNCHANGED <<table, window>>

Tell(c) ==
  /\ Open(c) /\ reply[c] # Undecided
  /\ told' = [told EXCEPT ![c] = "yes"]
  /\ window' = [window EXCEPT ![c] = {}]
  /\ UNCHANGED <<contract, table, request, reply>>

Raise(c) ==
  /\ Open(c)
  /\ told' = [told EXCEPT ![c] = "raised"]
  /\ UNCHANGED <<contract, table, request, reply, window>>

Expire(k) ==
  /\ ~contract.lasting /\ table[k] # Absent
  /\ Become([table EXCEPT ![k] = Absent])
  /\ UNCHANGED <<contract, request, reply, told>>

Next ==
  \/ \E c \in Calls :
       \/ \E r \in Requests[c] : Begin(c, r)
       \/ Get(c) \/ Create(c) \/ Update(c) \/ Delete(c) \/ List(c) \/ Search(c)
       \/ Tell(c) \/ Raise(c)
  \/ \E k \in Keys : Expire(k)

Spec == Init /\ [][Next]_evars
=============================================================================
