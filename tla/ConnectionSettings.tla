------------------------- MODULE ConnectionSettings -------------------------
(***************************************************************************)
(* ConnectionCache with the settings its tasks ask with: asks[t] is one of *)
(* two settings objects whose fields are all equal but one, `differs`, or  *)
(* 0 for a task that takes no part.  Both give the cache key of            *)
(* ConnectionCache, so that field is not part of the key; when it is, the  *)
(* tasks have nothing to do with each other.  built[p] is the settings     *)
(* object pool p was created from.                                         *)
(***************************************************************************)
EXTENDS ConnectionCache, SettingsFields

CONSTANT Askings   \* Askings[a]: the values of asks with adapter a

(* The fields of every adapter that bound its calls but do not shape the   *)
(* client (connection_timeout, operation_timeout, max_retries,             *)
(* adapter_name): the first stands for all.                                *)
CallFields == {"connection_timeout"}

ASSUME SettingsAssumption ==
  /\ Askings \in [Adapters -> SUBSET [Tasks -> {0, 1, 2}]]
  /\ Adapters \subseteq DOMAIN KeyFields

VARIABLES asks, differs, built

svars == <<vars, asks, differs, built>>

SettingsInit ==
  /\ Init
  /\ asks \in Askings[adapter]
  /\ differs \in (CallFields \union ClientFields[adapter]) \ KeyFields[adapter]
  /\ built = [p \in Pools |-> 0]

(* A pool is created from the settings of the task that missed.            *)
SettingsStep(t) ==
  /\ asks[t] # 0 /\ Step(t)
  /\ built' = [p \in Pools |->
                 IF pool[p] = "absent" /\ pool'[p] # "absent" THEN asks[t]
                 ELSE built[p]]
  /\ UNCHANGED <<asks, differs>>

SettingsNext == \E t \in Tasks : SettingsStep(t)

SettingsSpec ==
  /\ SettingsInit /\ [][SettingsNext]_svars
  /\ \A t \in Tasks :
       WF_svars((Closed(t) \/ CloseRaises(t)) /\ UNCHANGED <<asks, differs, built>>)

-----------------------------------------------------------------------------
(* Properties                                                              *)

(* Settings i and j build the same client.                                 *)
Alike(i, j) == i = j \/ differs \notin ClientFields[adapter]

GotItsOwn == \A t \in Tasks : at[t] = "using" => Alike(built[held[t]], asks[t])

(* A task works on a pool that is built as its own settings would build    *)
(* it, whoever created it and whatever was closed and created since: the   *)
(* cache key has every field the client is built from, the password of     *)
(* Cassandra apart.                                                        *)
ServedAsConfigured == differs # "cassandra_password" => GotItsOwn
=============================================================================
