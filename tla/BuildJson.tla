----------------------------- MODULE BuildJson -----------------------------
(***************************************************************************)
(* The objects of json-c (external) in a turn of build_json()'s loop, and  *)
(* who owns them: one turn per device makes the array state and the object *)
(* dev, adds state to dev, prints dev and puts both.                       *)
(***************************************************************************)
EXTENDS Integers

CONSTANT devsize   \* number of devices

VARIABLES
  i,       \* the turn of the loop
  pc,      \* the next call
  rc,      \* reference counts of state and dev
  mine,    \* 1 while build_json() owns the object
  inside,  \* 1 while dev owns state
  last     \* history: the object put last, and whether it was owned

vars == <<i, pc, rc, mine, inside, last>>

Objects == {"state", "dev"}

Init ==
  /\ i = 0 /\ pc = "new"
  /\ rc = [o \in Objects |-> 0] /\ mine = [o \in Objects |-> 0]
  /\ inside = 0 /\ last = <<"dev", 1>>

\* json_object_new_array(), with its three numbers, and json_object_new_object()
\* with its fields: each gives ownership.
NewObjects ==
  /\ pc = "new" /\ i < devsize
  /\ rc' = [o \in Objects |-> 1] /\ mine' = [o \in Objects |-> 1]
  /\ inside' = 0 /\ pc' = "add"
  /\ UNCHANGED <<i, last>>

\* json_object_object_add(dev, "status", state): dev owns state from here on,
\* its reference count stays.  dev is printed after this.
AddStatus ==
  /\ pc = "add"
  /\ inside' = 1 /\ mine' = [mine EXCEPT !["state"] = 0]
  /\ pc' = "put state"
  /\ UNCHANGED <<i, rc, last>>

\* json_object_put(state)
PutState ==
  /\ pc = "put state"
  /\ last' = <<"state", mine["state"]>>
  /\ rc' = [rc EXCEPT !["state"] = @ - 1]
  /\ pc' = "put dev"
  /\ UNCHANGED <<i, mine, inside>>

\* json_object_put(dev): dev goes, and puts what it owns.
PutDev ==
  /\ pc = "put dev"
  /\ last' = <<"dev", mine["dev"]>>
  /\ rc' = [rc EXCEPT !["dev"] = @ - 1, !["state"] = @ - inside]
  /\ mine' = [mine EXCEPT !["dev"] = 0] /\ inside' = 0
  /\ pc' = "new" /\ i' = i + 1

\* strcpy(json_str, str2); the next report makes the list again.
Finish ==
  /\ pc = "new" /\ i = devsize
  /\ i' = 0
  /\ UNCHANGED <<pc, rc, mine, inside, last>>

Next == NewObjects \/ AddStatus \/ PutState \/ PutDev \/ Finish

Spec == Init /\ [][Next]_vars

\* "You must have ownership of obj prior to doing this or you will cause an
\* imbalance in the reference count" (json_object.h on json_object_put()).
OwnedWhenPut == last[2] = 1
=============================================================================
