------------------------------ MODULE KVStore ------------------------------
(***************************************************************************)
(* The store of kv-server/kv-server.c: an unordered array of keys and      *)
(* pointers to malloced values.  Each operation is an action that says     *)
(* with which response it ends.  Slots from kv_count on are never read and *)
(* not modelled: kv_count is the length of the array.                      *)
(***************************************************************************)
EXTENDS Integers, Sequences, FiniteSets

CONSTANTS
  Key, Value,
  MAX_PAIRS,          \* 100
  Pointers            \* what malloc may return

ASSUME KVStoreAssumption ==
  /\ MAX_PAIRS \in Nat
  /\ IsFiniteSet(Pointers) /\ Cardinality(Pointers) >= MAX_PAIRS

VARIABLES
  store,              \* the pairs [key, value], value being a pointer
  heap                \* the strings at the pointers that are malloced

kv_count == Len(store)
Slots == 1 .. kv_count

StoreInit ==
  /\ store = <<>>
  /\ heap = [p \in {} |-> {}]

(* The loops of all four functions: the first slot that has the key.       *)
Finds(i, key) ==
  /\ i \in Slots /\ store[i].key = key
  /\ \A k \in Slots : store[k].key = key => i <= k
Has(key) == \E i \in Slots : store[i].key = key

(* The heap after free(p), and after malloc has returned q and strcpy has  *)
(* filled it.                                                              *)
Freed(p) == [q \in DOMAIN heap \ {p} |-> heap[q]]
Filled(h, q, value) == [p \in DOMAIN h \cup {q} |-> IF p = q THEN value ELSE h[p]]

-----------------------------------------------------------------------------
AlreadyThere_OffByOne(key) == \E i \in 1 .. kv_count - 1 : store[i].key = key  \* faulty
AlreadyThere(key) == Has(key)

Full == kv_count >= MAX_PAIRS

handle_create(key, value, response) ==
  \/ /\ AlreadyThere(key)
     /\ response = <<"Error: Key already exists">>
     /\ UNCHANGED <<store, heap>>
  \/ /\ ~AlreadyThere(key) /\ Full
     /\ response = <<"Error: Store full">>
     /\ UNCHANGED <<store, heap>>
  \/ /\ ~AlreadyThere(key) /\ ~Full
     /\ \E q \in Pointers \ DOMAIN heap :
          /\ store' = Append(store, [key |-> key, value |-> q])
          /\ heap' = Filled(heap, q, value)
     /\ response = <<"OK">>

(* A response is its text; "Value: " is followed by the value, so that no  *)
(* value reads like another response.                                      *)
ValueLine(value) == <<"Value: ", value>>

(* read_value, with what main answers for the string or NULL it returns.   *)
read_value(key, response) ==
  /\ \/ \E i \in Slots : Finds(i, key) /\ response = ValueLine(heap[store[i].value])
     \/ ~Has(key) /\ response = <<"Error: Key not found">>
  /\ UNCHANGED <<store, heap>>

update_value(key, value, response) ==
  \/ \E i \in Slots :
       /\ Finds(i, key)
       /\ \E q \in Pointers \ DOMAIN Freed(store[i].value) :
            /\ heap' = Filled(Freed(store[i].value), q, value)
            /\ store' = [store EXCEPT ![i].value = q]
       /\ response = <<"OK">>
  \/ /\ ~Has(key)
     /\ response = <<"Error: Key not found">>
     /\ UNCHANGED <<store, heap>>

delete_value_Unmoved(key, response) ==  \* faulty
  \/ \E i \in Slots :
       /\ Finds(i, key)
       /\ heap' = Freed(store[i].value)
       /\ store' = SubSeq(store, 1, kv_count - 1)
       /\ response = <<"OK">>
  \/ /\ ~Has(key)
     /\ response = <<"Error: Key not found">>
     /\ UNCHANGED <<store, heap>>

(* The last pair moves into the slot that is freed.                        *)
delete_value(key, response) ==
  \/ \E i \in Slots :
       /\ Finds(i, key)
       /\ heap' = Freed(store[i].value)
       /\ store' = SubSeq([store EXCEPT ![i] = store[kv_count]], 1, kv_count - 1)
       /\ response = <<"OK">>
  \/ /\ ~Has(key)
     /\ response = <<"Error: Key not found">>
     /\ UNCHANGED <<store, heap>>

-----------------------------------------------------------------------------
StoreTypeOK ==
  /\ store \in Seq([key : Key, value : Pointers])
  /\ kv_count <= MAX_PAIRS
  /\ DOMAIN heap \subseteq Pointers
  /\ \A p \in DOMAIN heap : heap[p] \in Value

(* No key is in two slots.                                                 *)
KeysUnique == \A i, k \in Slots : store[i].key = store[k].key => i = k

(* Every malloced string belongs to exactly one slot, and every slot's     *)
(* pointer is malloced: values are neither leaked, nor shared, nor used    *)
(* after free.                                                             *)
ValuesOwned ==
  /\ DOMAIN heap = {store[i].value : i \in Slots}
  /\ \A i, k \in Slots : store[i].value = store[k].value => i = k

(* The map the store stands for.                                           *)
Contents ==
  [k \in {store[i].key : i \in Slots} |->
     heap[store[CHOOSE i \in Slots : store[i].key = k].value]]
=============================================================================
