--------------------------- MODULE KVServerProofs ---------------------------
(***************************************************************************)
(* Theorems about KVStore and KVServer, for every set of keys, values,     *)
(* pointers, clients and connections: the store is sound, the service is a *)
(* map, and the protocol between client and server keeps one command on a  *)
(* connection.                                                             *)
(***************************************************************************)
EXTENDS KVServer, FiniteSetTheorems, SequenceTheorems, TLAPS

StoreOK == StoreTypeOK /\ KeysUnique /\ ValuesOwned

-----------------------------------------------------------------------------
(* The map that an array of pairs stands for.                              *)

KeysOf(st) == {st[i].key : i \in 1 .. Len(st)}
UniqueKeys(st) == \A i, k \in 1 .. Len(st) : st[i].key = st[k].key => i = k
ContentsOf(st, h) ==
  [k \in KeysOf(st) |-> h[st[CHOOSE i \in 1 .. Len(st) : st[i].key = k].value]]

(* g is the map that the pairs in st stand for.                            *)
StandsFor(st, h, g) ==
  /\ DOMAIN g = KeysOf(st)
  /\ g = [k \in DOMAIN g |-> g[k]]
  /\ \A i \in 1 .. Len(st) : g[st[i].key] = h[st[i].value]

(* An array without repeated keys stands for one map, its contents.        *)
LEMMA ContentsUnique ==
  ASSUME NEW st, NEW h, UniqueKeys(st)
  PROVE  /\ StandsFor(st, h, ContentsOf(st, h))
         /\ \A g : StandsFor(st, h, g) => g = ContentsOf(st, h)
<1>1. \A i \in 1 .. Len(st) : (CHOOSE j \in 1 .. Len(st) : st[j].key = st[i].key) = i
  BY DEF UniqueKeys
<1>2. \A i \in 1 .. Len(st) : st[i].key \in KeysOf(st)
  BY DEF KeysOf
<1>3. \A i \in 1 .. Len(st) : ContentsOf(st, h)[st[i].key] = h[st[i].value]
  BY <1>1, <1>2 DEF ContentsOf
<1>4. StandsFor(st, h, ContentsOf(st, h))
  BY <1>3 DEF StandsFor, ContentsOf
<1>5. ASSUME NEW g, StandsFor(st, h, g) PROVE g = ContentsOf(st, h)
  <2>1. \A k \in KeysOf(st) : g[k] = ContentsOf(st, h)[k]
    BY <1>3, <1>5 DEF StandsFor, KeysOf
  <2>2. g = [k \in KeysOf(st) |-> g[k]]
    BY <1>5 DEF StandsFor
  <2>3. ContentsOf(st, h) = [k \in KeysOf(st) |-> ContentsOf(st, h)[k]]
    BY DEF ContentsOf
  <2>4. QED
    BY <2>1, <2>2, <2>3
<1>6. QED
  BY <1>4, <1>5

(* There are as many keys as pairs.                                        *)
LEMMA KeysCounted ==
  ASSUME NEW st, Len(st) \in Nat, UniqueKeys(st)
  PROVE  IsFiniteSet(KeysOf(st)) /\ Cardinality(KeysOf(st)) = Len(st)
<1> DEFINE f == [i \in 1 .. Len(st) |-> st[i].key]
<1>1. f \in Bijection(1 .. Len(st), KeysOf(st))
  BY DEF Bijection, Injection, Surjection, IsInjective, KeysOf, UniqueKeys
<1>2. ExistsBijection(1 .. Len(st), KeysOf(st))
  BY <1>1 DEF ExistsBijection
<1>3. IsFiniteSet(1 .. Len(st)) /\ Cardinality(1 .. Len(st)) = Len(st)
  BY FS_Interval
<1>4. QED
  BY <1>2, <1>3, FS_Bijection

(* What Contents is while the store is sound.                              *)
LEMMA ContentsFacts ==
  ASSUME StoreOK
  PROVE  /\ StandsFor(store, heap, Contents)
         /\ \A key : Has(key) <=> key \in DOMAIN Contents
         /\ Cardinality(DOMAIN Contents) = kv_count
<1>1. UniqueKeys(store) /\ Len(store) \in Nat
  BY DEF StoreOK, StoreTypeOK, KeysUnique, UniqueKeys, Slots, kv_count
<1>2. Contents = ContentsOf(store, heap)
  BY DEF Contents, ContentsOf, KeysOf, Slots, kv_count
<1>3. StandsFor(store, heap, Contents)
  BY <1>1, <1>2, ContentsUnique
<1>4. \A key : Has(key) <=> key \in KeysOf(store)
  BY DEF Has, KeysOf, Slots, kv_count
<1>5. QED
  BY <1>1, <1>3, <1>4, KeysCounted DEF StandsFor, kv_count

(* To know Contents after a step it is enough to know what the new array   *)
(* stands for.                                                             *)
LEMMA ContentsAfter ==
  ASSUME StoreOK', NEW g, StandsFor(store', heap', g)
  PROVE  Contents' = g
<1>1. UniqueKeys(store')
  BY DEF StoreOK, KeysUnique, UniqueKeys, Slots, kv_count
<1>2. Contents' = ContentsOf(store', heap')
  BY DEF Contents, ContentsOf, KeysOf, Slots, kv_count
<1>3. QED
  BY <1>1, <1>2, ContentsUnique

(* An operation that leaves the array and the strings alone.               *)
LEMMA StoreUnchanged ==
  ASSUME StoreOK, UNCHANGED <<store, heap>>
  PROVE  StoreOK' /\ Contents' = Contents
BY DEF StoreOK, StoreTypeOK, KeysUnique, ValuesOwned, Contents, Slots, kv_count

-----------------------------------------------------------------------------
(* The four operations keep the store sound, and do to the map it stands   *)
(* for what their responses say.                                           *)

Added(f, key, value) ==
  [k \in DOMAIN f \cup {key} |-> IF k = key THEN value ELSE f[k]]
Without(f, key) == [k \in DOMAIN f \ {key} |-> f[k]]

CreateEffect(key, value, response) ==
  IF key \in DOMAIN Contents
  THEN response = <<"Error: Key already exists">> /\ Contents' = Contents
  ELSE IF Cardinality(DOMAIN Contents) < MAX_PAIRS
  THEN response = <<"OK">> /\ Contents' = Added(Contents, key, value)
  ELSE response = <<"Error: Store full">> /\ Contents' = Contents

(* A pair and its string are added together.                               *)
LEMMA CreateStep ==
  ASSUME StoreOK, NEW key \in Key, NEW value \in Value, NEW response,
         handle_create(key, value, response)
  PROVE  StoreOK' /\ CreateEffect(key, value, response)
<1>1. /\ store \in Seq([key : Key, value : Pointers])
      /\ kv_count \in Nat /\ kv_count = Len(store) /\ MAX_PAIRS \in Nat
  BY KVStoreAssumption DEF StoreOK, StoreTypeOK, kv_count
<1>2. CASE UNCHANGED <<store, heap>> /\ (AlreadyThere(key) \/ Full)
  <2>1. \/ AlreadyThere(key) /\ response = <<"Error: Key already exists">>
        \/ ~AlreadyThere(key) /\ Full /\ response = <<"Error: Store full">>
    BY <1>2 DEF handle_create
  <2>2. StoreOK' /\ Contents' = Contents
    BY <1>2, StoreUnchanged
  <2>3. /\ AlreadyThere(key) <=> key \in DOMAIN Contents
        /\ Full <=> ~(Cardinality(DOMAIN Contents) < MAX_PAIRS)
    BY <1>1, ContentsFacts DEF AlreadyThere, Full
  <2>4. QED
    BY <2>1, <2>2, <2>3 DEF CreateEffect
<1>3. CASE ~AlreadyThere(key) /\ ~Full
  <2>1. PICK q \in Pointers \ DOMAIN heap :
          /\ store' = Append(store, [key |-> key, value |-> q])
          /\ heap' = Filled(heap, q, value)
    BY <1>3 DEF handle_create
  <2> DEFINE n == Len(store)
  <2>2. /\ store' \in Seq([key : Key, value : Pointers])
        /\ Len(store') = n + 1
        /\ \A i \in 1 .. n : store'[i] = store[i]
        /\ store'[n + 1].key = key /\ store'[n + 1].value = q
    BY <1>1, <2>1, AppendProperties
  <2>3. /\ DOMAIN heap' = DOMAIN heap \cup {q}
        /\ heap'[q] = value
        /\ \A p \in DOMAIN heap : heap'[p] = heap[p]
    BY <2>1 DEF Filled
  <2>4. StoreTypeOK'
    BY <1>1, <1>3, <2>1, <2>2, <2>3 DEF StoreOK, StoreTypeOK, Full, kv_count
  <2>5. \A i \in 1 .. n : store[i].key # key /\ store[i].value \in DOMAIN heap
    BY <1>3 DEF AlreadyThere, Has, StoreOK, ValuesOwned, Slots, kv_count
  <2>6. \A i \in 1 .. n + 1 : i \in 1 .. n \/ i = n + 1
    BY <1>1
  <2>7. KeysUnique'
    BY <1>1, <2>2, <2>5, <2>6 DEF StoreOK, KeysUnique, Slots, kv_count
  <2>8. ValuesOwned'
    <3>1. \A i, k \in 1 .. n + 1 : store'[i].value = store'[k].value => i = k
      BY <1>1, <2>1, <2>2, <2>5, <2>6 DEF StoreOK, ValuesOwned, Slots, kv_count
    <3>2. {store'[i].value : i \in 1 .. n + 1} = {store[i].value : i \in 1 .. n} \cup {q}
      BY <1>1, <2>2, <2>6
    <3>3. QED
      BY <2>2, <2>3, <3>1, <3>2 DEF StoreOK, ValuesOwned, Slots, kv_count
  <2>9. StoreOK'
    BY <2>4, <2>7, <2>8 DEF StoreOK
  <2>10. StandsFor(store', heap', Added(Contents, key, value))
    <3>1. StandsFor(store, heap, Contents)
      BY ContentsFacts
    <3>2. KeysOf(store') = KeysOf(store) \cup {key}
      BY <1>1, <2>2, <2>6 DEF KeysOf
    <3>3. \A i \in 1 .. n + 1 :
            Added(Contents, key, value)[store'[i].key] = heap'[store'[i].value]
      BY <1>1, <2>1, <2>2, <2>3, <2>5, <2>6, <3>1 DEF Added, StandsFor, KeysOf
    <3>4. QED
      BY <2>2, <3>1, <3>2, <3>3 DEF StandsFor, Added
  <2>11. key \notin DOMAIN Contents /\ Cardinality(DOMAIN Contents) < MAX_PAIRS
    BY <1>1, <1>3, ContentsFacts DEF AlreadyThere, Full
  <2>12. response = <<"OK">>
    BY <1>3 DEF handle_create
  <2>13. QED
    BY <2>9, <2>10, <2>11, <2>12, ContentsAfter DEF CreateEffect
<1>4. QED
  BY <1>2, <1>3 DEF handle_create

(* The slot an operation finds has the key, and its string.                *)
LEMMA FoundSlot ==
  ASSUME StoreOK, NEW i \in Slots, NEW key, Finds(i, key)
  PROVE  /\ key \in DOMAIN Contents
         /\ Contents[key] = heap[store[i].value]
         /\ store[i].value \in DOMAIN heap
         /\ i \in 1 .. Len(store) /\ store[i].key = key
         /\ \A k \in 1 .. Len(store) : store[k].key = key => k = i
BY ContentsFacts
DEF Finds, Has, StandsFor, StoreOK, KeysUnique, ValuesOwned, Slots, kv_count

ReadEffect(key, response) ==
  /\ response = IF key \in DOMAIN Contents THEN <<"Value: ", Contents[key]>>
                                           ELSE <<"Error: Key not found">>
  /\ Contents' = Contents

(* What is read is what the map has.                                       *)
LEMMA ReadStep ==
  ASSUME StoreOK, NEW key \in Key, NEW response, read_value(key, response)
  PROVE  StoreOK' /\ ReadEffect(key, response)
<1>1. StoreOK' /\ Contents' = Contents
  BY StoreUnchanged DEF read_value
<1>2. CASE \E i \in Slots : Finds(i, key) /\ response = ValueLine(heap[store[i].value])
  BY <1>1, <1>2, FoundSlot DEF ReadEffect, ValueLine
<1>3. CASE ~Has(key) /\ response = <<"Error: Key not found">>
  BY <1>1, <1>3, ContentsFacts DEF ReadEffect
<1>4. QED
  BY <1>2, <1>3 DEF read_value

UpdateEffect(key, value, response) ==
  IF key \in DOMAIN Contents
  THEN response = <<"OK">> /\ Contents' = [Contents EXCEPT ![key] = value]
  ELSE response = <<"Error: Key not found">> /\ Contents' = Contents

(* The old string is freed before the new one is malloced: it may get the  *)
(* same pointer, but no other slot's.                                      *)
LEMMA UpdateStep ==
  ASSUME StoreOK, NEW key \in Key, NEW value \in Value, NEW response,
         update_value(key, value, response)
  PROVE  StoreOK' /\ UpdateEffect(key, value, response)
<1>1. CASE ~Has(key) /\ response = <<"Error: Key not found">> /\ UNCHANGED <<store, heap>>
  BY <1>1, StoreUnchanged, ContentsFacts DEF UpdateEffect
<1>2. CASE \E i \in Slots :
             /\ Finds(i, key)
             /\ \E q \in Pointers \ DOMAIN Freed(store[i].value) :
                  /\ heap' = Filled(Freed(store[i].value), q, value)
                  /\ store' = [store EXCEPT ![i].value = q]
             /\ response = <<"OK">>
  <2>1. PICK i \in Slots : /\ Finds(i, key)
                           /\ \E q \in Pointers \ DOMAIN Freed(store[i].value) :
                                /\ heap' = Filled(Freed(store[i].value), q, value)
                                /\ store' = [store EXCEPT ![i].value = q]
    BY <1>2
  <2>2. PICK q \in Pointers \ DOMAIN Freed(store[i].value) :
          /\ heap' = Filled(Freed(store[i].value), q, value)
          /\ store' = [store EXCEPT ![i].value = q]
    BY <2>1
  <2> DEFINE n == Len(store)
             old == store[i].value
  <2>3. /\ store \in Seq([key : Key, value : Pointers]) /\ n \in Nat
        /\ i \in 1 .. n /\ old \in DOMAIN heap /\ store[i].key = key
        /\ key \in DOMAIN Contents
    BY <2>1, FoundSlot DEF StoreOK, StoreTypeOK
  <2>4. /\ store' \in Seq([key : Key, value : Pointers])
        /\ Len(store') = n
        /\ \A k \in 1 .. n : store'[k].key = store[k].key
        /\ store'[i].value = q
        /\ \A k \in 1 .. n : k # i => store'[k] = store[k]
    <3>0. store[i] \in [key : Key, value : Pointers]
      BY <2>3, ElementOfSeq
    <3>1. [store[i] EXCEPT !.value = q] \in [key : Key, value : Pointers]
      BY <2>2, <3>0
    <3>2. store' = [store EXCEPT ![i] = [store[i] EXCEPT !.value = q]]
      BY <2>2
    <3>3. QED
      BY <2>3, <3>1, <3>2, ExceptSeq
  <2>5. /\ DOMAIN heap' = (DOMAIN heap \ {old}) \cup {q}
        /\ heap'[q] = value
        /\ \A p \in DOMAIN heap \ {old} : p # q /\ heap'[p] = heap[p]
        /\ q \notin DOMAIN heap \ {old}
    BY <2>2 DEF Filled, Freed
  <2>6. \A k \in 1 .. n : k # i => store[k].value \in DOMAIN heap \ {old}
    BY <2>3 DEF StoreOK, ValuesOwned, Slots, kv_count
  <2>7. StoreTypeOK'
    BY <2>2, <2>4, <2>5 DEF StoreOK, StoreTypeOK, kv_count
  <2>8. KeysUnique'
    BY <2>4 DEF StoreOK, KeysUnique, Slots, kv_count
  <2>9. ValuesOwned'
    <3>1. \A k, j \in 1 .. n : store'[k].value = store'[j].value => k = j
      BY <2>3, <2>4, <2>5, <2>6 DEF StoreOK, ValuesOwned, Slots, kv_count
    <3>2. {store'[k].value : k \in 1 .. n}
            = ({store[k].value : k \in 1 .. n} \ {old}) \cup {q}
      BY <2>3, <2>4, <2>6
    <3>3. QED
      BY <2>4, <2>5, <3>1, <3>2 DEF StoreOK, ValuesOwned, Slots, kv_count
  <2>10. StoreOK'
    BY <2>7, <2>8, <2>9 DEF StoreOK
  <2>11. StandsFor(store', heap', [Contents EXCEPT ![key] = value])
    <3>1. StandsFor(store, heap, Contents)
      BY ContentsFacts
    <3>2. KeysOf(store') = KeysOf(store)
      BY <2>4 DEF KeysOf
    <3>3. \A k \in 1 .. n : k # i => store[k].key # key
      BY <2>1, FoundSlot
    <3>4. \A k \in 1 .. n : [Contents EXCEPT ![key] = value][store'[k].key]
                              = heap'[store'[k].value]
      BY <2>3, <2>4, <2>5, <2>6, <3>1, <3>3 DEF StandsFor, KeysOf
    <3>5. QED
      BY <2>4, <3>1, <3>2, <3>4 DEF StandsFor
  <2>12. QED
    BY <1>2, <2>3, <2>10, <2>11, ContentsAfter DEF UpdateEffect
<1>3. QED
  BY <1>1, <1>2 DEF update_value

DeleteEffect(key, response) ==
  IF key \in DOMAIN Contents
  THEN response = <<"OK">> /\ Contents' = Without(Contents, key)
  ELSE response = <<"Error: Key not found">> /\ Contents' = Contents

(* The pair that moves into the hole keeps its key and its string.         *)
LEMMA DeleteStep ==
  ASSUME StoreOK, NEW key \in Key, NEW response, delete_value(key, response)
  PROVE  StoreOK' /\ DeleteEffect(key, response)
<1>1. CASE ~Has(key) /\ response = <<"Error: Key not found">> /\ UNCHANGED <<store, heap>>
  BY <1>1, StoreUnchanged, ContentsFacts DEF DeleteEffect
<1>2. CASE \E i \in Slots :
             /\ Finds(i, key)
             /\ heap' = Freed(store[i].value)
             /\ store' = SubSeq([store EXCEPT ![i] = store[kv_count]], 1, kv_count - 1)
             /\ response = <<"OK">>
  <2>1. PICK i \in Slots :
          /\ Finds(i, key)
          /\ heap' = Freed(store[i].value)
          /\ store' = SubSeq([store EXCEPT ![i] = store[kv_count]], 1, kv_count - 1)
    BY <1>2
  <2> DEFINE n == Len(store)
             old == store[i].value
             filled == [store EXCEPT ![i] = store[n]]
  <2>2. /\ store \in Seq([key : Key, value : Pointers]) /\ n \in Nat
        /\ i \in 1 .. n /\ n \in 1 .. n /\ old \in DOMAIN heap /\ store[i].key = key
        /\ key \in DOMAIN Contents
        /\ \A k \in 1 .. n : store[k] \in [key : Key, value : Pointers]
    <3>1. /\ i \in 1 .. n /\ old \in DOMAIN heap /\ store[i].key = key
          /\ key \in DOMAIN Contents
      BY <2>1, FoundSlot
    <3>2. store \in Seq([key : Key, value : Pointers]) /\ n \in Nat
      BY DEF StoreOK, StoreTypeOK
    <3>3. \A k \in 1 .. n : store[k] \in [key : Key, value : Pointers]
      BY <3>2, ElementOfSeq
    <3>4. n \in 1 .. n
      BY <3>1, <3>2
    <3>5. QED
      BY <3>1, <3>2, <3>3, <3>4
  <2>3. /\ filled \in Seq([key : Key, value : Pointers]) /\ Len(filled) = n
        /\ \A k \in 1 .. n : filled[k] = IF k = i THEN store[n] ELSE store[k]
    BY <2>2, ExceptSeq
  <2>4. /\ store' \in Seq([key : Key, value : Pointers]) /\ Len(store') = n - 1
        /\ \A k \in 1 .. n - 1 : store'[k] = IF k = i THEN store[n] ELSE store[k]
    <3> HIDE DEF filled
    <3>1. store' = SubSeq(filled, 1, n - 1)
      BY <2>1 DEF filled, kv_count
    <3>2. \A k \in 1 .. n - 1 : filled[k] \in [key : Key, value : Pointers]
      BY <2>2, <2>3
    <3>3. /\ Len(store') = n - 1
          /\ \A k \in 1 .. n - 1 : store'[k] = filled[k]
      BY <2>2, <2>3, <3>1, 1 \in 1 .. n, n - 1 \in 0 .. n, SubSeqProperties
    <3>4. store' \in Seq([key : Key, value : Pointers])
      BY <2>2, <3>1, <3>2, <3>3
    <3>5. QED
      BY <2>2, <2>3, <3>3, <3>4
  (* Slot k of the new array is slot From(k) of the old one.               *)
  <2> DEFINE From(k) == IF k = i THEN n ELSE k
  <2>5. /\ \A k \in 1 .. n - 1 : /\ From(k) \in 1 .. n /\ From(k) # i
                                 /\ store'[k] = store[From(k)]
        /\ \A k, j \in 1 .. n - 1 : From(k) = From(j) => k = j
        /\ \A j \in 1 .. n : j # i => \E k \in 1 .. n - 1 : From(k) = j
    <3>1. \A j \in 1 .. n : j # i => \E k \in 1 .. n - 1 : From(k) = j
      <4> SUFFICES ASSUME NEW j \in 1 .. n, j # i
                   PROVE  \E k \in 1 .. n - 1 : From(k) = j
        OBVIOUS
      <4>1. CASE j = n
        BY <2>2, <4>1
      <4>2. CASE j # n
        BY <2>2, <4>2
      <4>3. QED
        BY <4>1, <4>2
    <3>2. QED
      BY <2>2, <2>4, <3>1
  <2> HIDE DEF From, filled
  <2>6. /\ DOMAIN heap' = DOMAIN heap \ {old}
        /\ \A p \in DOMAIN heap \ {old} : heap'[p] = heap[p]
    BY <2>1 DEF Freed
  <2>7. \A k \in 1 .. n : k # i => store[k].value \in DOMAIN heap \ {old}
    BY <2>2 DEF StoreOK, ValuesOwned, Slots, kv_count
  <2>8. StoreTypeOK'
    BY <2>2, <2>4, <2>6, KVStoreAssumption DEF StoreOK, StoreTypeOK, kv_count
  <2>9. KeysUnique'
    BY <2>4, <2>5 DEF StoreOK, KeysUnique, Slots, kv_count
  <2>10. ValuesOwned'
    <3>1. \A k, j \in 1 .. n - 1 : store'[k].value = store'[j].value => k = j
      BY <2>5 DEF StoreOK, ValuesOwned, Slots, kv_count
    <3>2. {store'[k].value : k \in 1 .. n - 1}
            = {store[k].value : k \in 1 .. n} \ {old}
      <4>1. \A k \in 1 .. n - 1 : store'[k].value = store[From(k)].value
        BY <2>5
      <4>2. \A k \in 1 .. n : k # i => store[k].value # old
        BY <2>7
      <4>3. \A k \in 1 .. n - 1 :
              store'[k].value \in {store[j].value : j \in 1 .. n} \ {old}
        BY <2>5, <4>1, <4>2
      <4>4. \A j \in 1 .. n : j # i => \E k \in 1 .. n - 1 : store'[k].value = store[j].value
        BY <2>5, <4>1
      <4>5. ASSUME NEW v \in {store[j].value : j \in 1 .. n} \ {old}
            PROVE  v \in {store'[k].value : k \in 1 .. n - 1}
        BY <4>4
      <4>6. QED
        BY <4>3, <4>5
    <3>3. QED
      BY <2>4, <2>6, <3>1, <3>2 DEF StoreOK, ValuesOwned, Slots, kv_count
  <2>11. StoreOK'
    BY <2>8, <2>9, <2>10 DEF StoreOK
  <2>12. StandsFor(store', heap', Without(Contents, key))
    <3>1. StandsFor(store, heap, Contents)
      BY ContentsFacts
    <3>2. \A k \in 1 .. n : k # i => store[k].key # key
      BY <2>1, FoundSlot
    <3>3. KeysOf(store') = KeysOf(store) \ {key}
      <4>1. \A k \in 1 .. n - 1 : store'[k].key \in KeysOf(store) \ {key}
        BY <2>5, <3>2 DEF KeysOf
      <4>2. \A j \in 1 .. n : j # i => \E k \in 1 .. n - 1 : store'[k].key = store[j].key
        BY <2>5
      <4>3. KeysOf(store') \subseteq KeysOf(store) \ {key}
        BY <2>4, <4>1 DEF KeysOf
      <4>4. KeysOf(store) \ {key} \subseteq KeysOf(store')
        BY <2>2, <2>4, <4>2 DEF KeysOf
      <4>5. QED
        BY <4>3, <4>4
    <3>4. \A k \in 1 .. n - 1 : Without(Contents, key)[store'[k].key]
                                  = heap'[store'[k].value]
      BY <2>5, <2>6, <2>7, <3>1, <3>2 DEF StandsFor, KeysOf, Without
    <3>5. QED
      BY <2>4, <3>1, <3>3, <3>4 DEF StandsFor, Without
  <2>13. QED
    BY <1>2, <2>2, <2>11, <2>12, ContentsAfter DEF DeleteEffect
<1>3. QED
  BY <1>1, <1>2 DEF delete_value

-----------------------------------------------------------------------------
(* The connections.                                                        *)

(* A client has one command under way: not yet read, or answered and the   *)
(* answer not yet read; or none.                                           *)
Exchange(c, s) ==
  \/ sent[c] = None /\ requests[s] = <<>> /\ replies[s] = <<>>
  \/ sent[c] # None /\ requests[s] = <<sent[c]>> /\ replies[s] = <<>>
  \/ /\ sent[c] # None /\ requests[s] = <<>>
     /\ \E response \in Responses : replies[s] = <<<<sent[c], response>>>>

(* What a client has left behind: at most one command, or "disconnect".    *)
LeftBehind(s) ==
  /\ replies[s] = <<>>
  /\ requests[s] = <<>> \/ \E cmd \in Commands \cup {Disconnect} : requests[s] = <<cmd>>

ConnectionsInv ==
  /\ TypeOK /\ DOMAIN known = Clients
  /\ \A c, d \in Clients : sockfd[c] # None /\ sockfd[c] = sockfd[d] => c = d
  /\ \A c \in Clients : sockfd[c] = None => sent[c] = None /\ known[c] = None
  /\ \A c \in Clients : sockfd[c] # None => Exchange(c, sockfd[c])
  /\ \A s \in Connections : ~Open(s) => LeftBehind(s)
  /\ \A s \in Connections : replies[s] # <<>> => newsockfd = s

(* What is true of the map.                                                *)
Holds(fact) ==
  fact # None =>
    IF fact[2] = None THEN ~Has(fact[1])
                      ELSE Has(fact[1]) /\ Contents[fact[1]] = fact[2]

(* What a client knows once it has read the answer that waits for it.      *)
WillKnow(c) ==
  IF sockfd[c] # None /\ replies[sockfd[c]] # <<>>
  THEN Learnt(sent[c], Head(replies[sockfd[c]])[2], known[c])
  ELSE known[c]

SessionInv ==
  \A c \in Clients :
    /\ known[c] # None => newsockfd = sockfd[c]
    /\ Holds(WillKnow(c))

-----------------------------------------------------------------------------
(* What the steps below use of sequences and commands.                     *)

LEMMA One ==
  ASSUME NEW x
  PROVE  /\ Append(<<>>, x) = <<x>> /\ Len(<<x>>) = 1 /\ <<x>> # <<>>
         /\ Head(<<x>>) = x /\ Tail(<<x>>) = <<>> /\ <<x>>[1] = x
OBVIOUS

LEMMA CommandShape ==
  ASSUME NEW cmd \in Commands
  PROVE  /\ cmd.op \in {"create", "read", "update", "delete", "invalid"}
         /\ cmd.op # "invalid" => cmd.key \in Key
         /\ cmd.op \in {"create", "update"} => cmd.value \in Value
         /\ cmd # Disconnect /\ cmd # None
<1>1. cmd \in AllCommands
  BY KVServerAssumption
<1>2. /\ cmd.op \in {"create", "read", "update", "delete", "invalid"}
      /\ cmd.op # "invalid" => cmd.key \in Key
      /\ cmd.op \in {"create", "update"} => cmd.value \in Value
  BY <1>1 DEF AllCommands
<1>3. cmd # Disconnect
  BY <1>2 DEF Disconnect
<1>4. cmd # None
  BY KVServerAssumption
<1>5. QED
  BY <1>2, <1>3, <1>4

Effect(cmd, response) ==
  /\ cmd.op = "create" => CreateEffect(cmd.key, cmd.value, response)
  /\ cmd.op = "read" => ReadEffect(cmd.key, response)
  /\ cmd.op = "update" => UpdateEffect(cmd.key, cmd.value, response)
  /\ cmd.op = "delete" => DeleteEffect(cmd.key, response)
  /\ cmd.op = "invalid" => response = <<"Error: Invalid command">> /\ Contents' = Contents

(* The server's dispatch, on the store.                                    *)
LEMMA ExecuteStep ==
  ASSUME StoreOK, NEW cmd \in Commands, NEW response, Execute(cmd, response)
  PROVE  StoreOK' /\ Effect(cmd, response)
<1>1. CASE cmd.op = "create"
  BY <1>1, CommandShape, CreateStep DEF Execute, Effect
<1>2. CASE cmd.op = "read"
  BY <1>2, CommandShape, ReadStep DEF Execute, Effect
<1>3. CASE cmd.op = "update"
  BY <1>3, CommandShape, UpdateStep DEF Execute, Effect
<1>4. CASE cmd.op = "delete"
  BY <1>4, CommandShape, DeleteStep DEF Execute, Effect
<1>5. CASE cmd.op = "invalid"
  BY <1>5, StoreUnchanged DEF Execute, Effect, storeVars
<1>6. QED
  BY <1>1, <1>2, <1>3, <1>4, <1>5, CommandShape

(* The server executes commands, never a "disconnect".                     *)
LEMMA NoDisconnectExecuted ==
  ASSUME NEW cmd, NEW response, Execute(cmd, response)
  PROVE  cmd # Disconnect
<1>1. cmd.op \in {"create", "read", "update", "delete", "invalid"}
  BY DEF Execute
<1>2. QED
  BY <1>1 DEF Disconnect

-----------------------------------------------------------------------------
(* Every step keeps the connections in order.                              *)

LEMMA ConnectStep ==
  ASSUME ConnectionsInv, NEW c \in Clients, connect_to_server(c)
  PROVE  ConnectionsInv'
<1>1. PICK s \in Connections :
        /\ ~Exists(s)
        /\ backlog' = Append(backlog, s)
        /\ sockfd' = [sockfd EXCEPT ![c] = s]
        /\ requests' = [requests EXCEPT ![s] = <<>>]
        /\ replies' = [replies EXCEPT ![s] = <<>>]
  BY DEF connect_to_server
<1>2. /\ TypeOK /\ sockfd[c] = None /\ Len(backlog) < Backlog /\ s # None
      /\ UNCHANGED <<store, heap, newsockfd, sent, known>>
  BY KVServerAssumption DEF ConnectionsInv, connect_to_server, MayConnect
<1>3. StoreTypeOK'
  BY <1>2, StoreUnchanged DEF TypeOK, StoreTypeOK, kv_count
<1>4. backlog' \in Seq(Connections) /\ Len(backlog') <= Backlog
  BY <1>1, <1>2, KVServerAssumption DEF TypeOK
<1>5. TypeOK' /\ DOMAIN known' = Clients
  BY <1>1, <1>2, <1>3, <1>4 DEF ConnectionsInv, TypeOK
<1>6. \A d \in Clients : sockfd[d] # s
  BY <1>1 DEF Exists, Open
<1>7. /\ sockfd'[c] = s /\ requests'[s] = <<>> /\ replies'[s] = <<>>
      /\ \A d \in Clients : d # c => sockfd'[d] = sockfd[d]
      /\ \A t \in Connections : t # s => requests'[t] = requests[t] /\ replies'[t] = replies[t]
  BY <1>1, <1>2 DEF TypeOK
<1>8. (\A d, e \in Clients : sockfd[d] # None /\ sockfd[d] = sockfd[e] => d = e)'
  BY <1>2, <1>6, <1>7 DEF ConnectionsInv
<1>9. (\A d \in Clients : sockfd[d] = None => sent[d] = None /\ known[d] = None)'
  BY <1>2, <1>7 DEF ConnectionsInv
<1>10. ASSUME NEW d \in Clients, sockfd'[d] # None
       PROVE  Exchange(d, sockfd[d])'
  <2>1. CASE d = c
    BY <1>2, <1>7, <2>1 DEF ConnectionsInv, Exchange
  <2>2. CASE d # c
    <3>1. /\ sockfd[d] \in Connections /\ sockfd[d] # s /\ Exchange(d, sockfd[d])
      BY <1>2, <1>6, <1>7, <1>10, <2>2 DEF ConnectionsInv, TypeOK
    <3>2. QED
      BY <1>2, <1>7, <2>2, <3>1 DEF Exchange
  <2>3. QED
    BY <2>1, <2>2
<1>11. ASSUME NEW t \in Connections, ~Open(t)'
       PROVE  LeftBehind(t)'
  <2>1. t # s /\ ~Open(t)
    BY <1>2, <1>7, <1>11, KVServerAssumption DEF Open
  <2>2. QED
    BY <1>7, <2>1 DEF ConnectionsInv, LeftBehind
<1>12. (\A t \in Connections : replies[t] # <<>> => newsockfd = t)'
  BY <1>2, <1>7 DEF ConnectionsInv
<1>13. QED
  BY <1>5, <1>8, <1>9, <1>10, <1>11, <1>12 DEF ConnectionsInv

(* A client closes its end, and leaves q to be read on its connection.     *)
LEMMA CloseStep ==
  ASSUME ConnectionsInv, NEW c \in Clients, sockfd[c] # None, Close(c),
         UNCHANGED serverVars,
         NEW q \in Seq(Commands \cup {Disconnect}),
         q = <<>> \/ \E cmd \in Commands \cup {Disconnect} : q = <<cmd>>,
         requests' = [requests EXCEPT ![sockfd[c]] = q]
  PROVE  ConnectionsInv'
<1> DEFINE s == sockfd[c]
<1>1. TypeOK /\ s \in Connections
  BY DEF ConnectionsInv, TypeOK
<1>2. /\ sockfd' = [sockfd EXCEPT ![c] = None] /\ sent' = [sent EXCEPT ![c] = None]
      /\ known' = [known EXCEPT ![c] = None] /\ replies' = [replies EXCEPT ![s] = <<>>]
      /\ UNCHANGED <<store, heap, backlog, newsockfd>>
  BY DEF Close, serverVars
<1>3. StoreTypeOK'
  BY <1>1, <1>2 DEF TypeOK, StoreTypeOK, kv_count
<1>4. TypeOK' /\ DOMAIN known' = Clients
  BY <1>1, <1>2, <1>3 DEF ConnectionsInv, TypeOK
<1>5. /\ sockfd'[c] = None /\ sent'[c] = None /\ requests'[s] = q /\ replies'[s] = <<>>
      /\ \A d \in Clients : d # c => sockfd'[d] = sockfd[d] /\ sent'[d] = sent[d]
      /\ \A t \in Connections : t # s => requests'[t] = requests[t] /\ replies'[t] = replies[t]
  BY <1>1, <1>2 DEF TypeOK
<1>7. (\A d, e \in Clients : sockfd[d] # None /\ sockfd[d] = sockfd[e] => d = e)'
  BY <1>5 DEF ConnectionsInv
<1>8. (\A d \in Clients : sockfd[d] = None => sent[d] = None /\ known[d] = None)'
  BY <1>2, <1>5 DEF ConnectionsInv
<1>9. ASSUME NEW d \in Clients, sockfd'[d] # None
      PROVE  Exchange(d, sockfd[d])'
  <2>1. /\ d # c /\ sockfd[d] \in Connections /\ sockfd[d] # s /\ Exchange(d, sockfd[d])
    BY <1>1, <1>5, <1>9 DEF ConnectionsInv, TypeOK
  <2>2. QED
    BY <1>5, <2>1 DEF Exchange
<1>10. ASSUME NEW t \in Connections, ~Open(t)'
       PROVE  LeftBehind(t)'
  <2>1. CASE t = s
    BY <1>5, <2>1 DEF LeftBehind
  <2>2. CASE t # s
    <3>1. ~Open(t)
      BY <1>5, <1>10, <2>2 DEF Open
    <3>2. QED
      BY <1>5, <2>2, <3>1 DEF ConnectionsInv, LeftBehind
  <2>3. QED
    BY <2>1, <2>2
<1>11. (\A t \in Connections : replies[t] # <<>> => newsockfd = t)'
  BY <1>2, <1>5 DEF ConnectionsInv
<1>12. QED
  BY <1>4, <1>7, <1>8, <1>9, <1>10, <1>11 DEF ConnectionsInv

LEMMA DisconnectStep ==
  ASSUME ConnectionsInv, NEW c \in Clients, disconnect_from_server(c)
  PROVE  ConnectionsInv'
<1>1. /\ sockfd[c] # None /\ sent[c] = None /\ Close(c) /\ UNCHANGED serverVars
      /\ requests' = [requests EXCEPT ![sockfd[c]] = Append(requests[sockfd[c]], Disconnect)]
  BY DEF disconnect_from_server
<1>2. requests[sockfd[c]] = <<>>
  BY <1>1 DEF ConnectionsInv, Exchange
<1>3. Append(<<>>, Disconnect) = <<Disconnect>> /\ <<Disconnect>> \in Seq(Commands \cup {Disconnect})
  BY One
<1>4. QED
  BY <1>1, <1>2, <1>3, CloseStep

LEMMA KilledStep ==
  ASSUME ConnectionsInv, NEW c \in Clients, Killed(c)
  PROVE  ConnectionsInv'
<1>1. sockfd[c] # None /\ Close(c) /\ UNCHANGED <<serverVars, requests>>
  BY DEF Killed
<1>2. PICK q : q = requests[sockfd[c]]
  OBVIOUS
<1>3. /\ q \in Seq(Commands \cup {Disconnect})
      /\ requests' = [requests EXCEPT ![sockfd[c]] = q]
  BY <1>1, <1>2 DEF ConnectionsInv, TypeOK
<1>4. Exchange(c, sockfd[c]) /\ sent[c] \in Commands \cup {None}
  BY <1>1 DEF ConnectionsInv, TypeOK
<1>5. q = <<>> \/ \E cmd \in Commands \cup {Disconnect} : q = <<cmd>>
  BY <1>2, <1>4 DEF Exchange
<1>6. QED
  BY <1>1, <1>3, <1>5, CloseStep

LEMMA SendStep ==
  ASSUME ConnectionsInv, NEW c \in Clients, send_command(c)
  PROVE  ConnectionsInv'
<1> DEFINE s == sockfd[c]
<1>1. PICK cmd \in Commands :
        /\ requests' = [requests EXCEPT ![s] = Append(requests[s], cmd)]
        /\ sent' = [sent EXCEPT ![c] = cmd]
  BY DEF send_command
<1>2. /\ s # None /\ sent[c] = None
      /\ UNCHANGED <<store, heap, backlog, newsockfd, replies, sockfd, known>>
  BY DEF send_command, MaySend, serverVars
<1>3. TypeOK /\ s \in Connections /\ requests[s] = <<>> /\ replies[s] = <<>>
  BY <1>2 DEF ConnectionsInv, TypeOK, Exchange
<1>4. Append(requests[s], cmd) = <<cmd>> /\ <<cmd>> \in Seq(Commands \cup {Disconnect})
  BY <1>3, One
<1>5. /\ sent'[c] = cmd /\ cmd # None /\ requests'[s] = <<cmd>>
      /\ \A d \in Clients : d # c => sent'[d] = sent[d]
      /\ \A t \in Connections : t # s => requests'[t] = requests[t]
  BY <1>1, <1>3, <1>4, CommandShape DEF TypeOK
<1>6. StoreTypeOK'
  BY <1>2, <1>3 DEF TypeOK, StoreTypeOK, kv_count
<1>7. TypeOK'
  BY <1>1, <1>2, <1>3, <1>4, <1>6 DEF TypeOK
<1>8. (\A d \in Clients : sockfd[d] = None => sent[d] = None /\ known[d] = None)'
  BY <1>2, <1>5 DEF ConnectionsInv
<1>9. ASSUME NEW d \in Clients, sockfd'[d] # None
      PROVE  Exchange(d, sockfd[d])'
  <2>1. CASE d = c
    BY <1>2, <1>3, <1>5, <2>1 DEF Exchange
  <2>2. CASE d # c
    <3>1. sockfd[d] \in Connections /\ sockfd[d] # s /\ Exchange(d, sockfd[d])
      BY <1>2, <1>3, <1>9, <2>2 DEF ConnectionsInv, TypeOK
    <3>2. QED
      BY <1>2, <1>5, <2>2, <3>1 DEF Exchange
  <2>3. QED
    BY <2>1, <2>2
<1>10. ASSUME NEW t \in Connections, ~Open(t)'
       PROVE  LeftBehind(t)'
  <2>1. t # s /\ ~Open(t)
    BY <1>2, <1>10 DEF Open
  <2>2. QED
    BY <1>2, <1>5, <2>1 DEF ConnectionsInv, LeftBehind
<1>11. QED
  BY <1>2, <1>7, <1>8, <1>9, <1>10 DEF ConnectionsInv

(* The answer a client reads is the only one, and answers its command.     *)
LEMMA ReplyRead ==
  ASSUME ConnectionsInv, NEW c \in Clients, read_reply(c)
  PROVE  /\ sockfd[c] \in Connections /\ requests[sockfd[c]] = <<>>
         /\ \E response \in Responses :
              replies[sockfd[c]] = <<<<sent[c], response>>>>
         /\ replies' = [replies EXCEPT ![sockfd[c]] = <<>>]
<1>1. sent[c] # None /\ replies[sockfd[c]] # <<>> /\ sockfd[c] # None
  BY DEF read_reply, ConnectionsInv
<1>2. /\ sockfd[c] \in Connections /\ requests[sockfd[c]] = <<>>
      /\ \E response \in Responses : replies[sockfd[c]] = <<<<sent[c], response>>>>
  BY <1>1 DEF ConnectionsInv, TypeOK, Exchange
<1>3. Tail(replies[sockfd[c]]) = <<>>
  BY <1>2, One
<1>4. replies' = [replies EXCEPT ![sockfd[c]] = Tail(replies[sockfd[c]])]
  BY DEF read_reply
<1>5. QED
  BY <1>2, <1>3, <1>4

LEMMA ReplyStep ==
  ASSUME ConnectionsInv, NEW c \in Clients, read_reply(c)
  PROVE  ConnectionsInv'
<1> DEFINE s == sockfd[c]
<1>1. /\ s \in Connections /\ requests[s] = <<>>
      /\ replies' = [replies EXCEPT ![s] = <<>>]
  BY ReplyRead
<1>2. /\ sent' = [sent EXCEPT ![c] = None]
      /\ DOMAIN known' = DOMAIN known /\ \A d \in Clients : d # c => known'[d] = known[d]
      /\ UNCHANGED <<store, heap, backlog, newsockfd, requests, sockfd>>
  BY DEF read_reply, serverVars, ConnectionsInv
<1>3. TypeOK /\ s # None
  BY <1>1, KVServerAssumption DEF ConnectionsInv
<1>4. StoreTypeOK'
  BY <1>2, <1>3 DEF TypeOK, StoreTypeOK, kv_count
<1>5. TypeOK'
  BY <1>1, <1>2, <1>3, <1>4 DEF TypeOK
<1>6. /\ sent'[c] = None /\ replies'[s] = <<>>
      /\ \A d \in Clients : d # c => sent'[d] = sent[d]
      /\ \A t \in Connections : t # s => replies'[t] = replies[t]
  BY <1>1, <1>2, <1>3 DEF TypeOK
<1>7. (\A d \in Clients : sockfd[d] = None => sent[d] = None /\ known[d] = None)'
  BY <1>2, <1>3, <1>6 DEF ConnectionsInv
<1>8. ASSUME NEW d \in Clients, sockfd'[d] # None
      PROVE  Exchange(d, sockfd[d])'
  <2>1. CASE d = c
    BY <1>1, <1>2, <1>6, <2>1 DEF Exchange
  <2>2. CASE d # c
    <3>1. sockfd[d] \in Connections /\ sockfd[d] # s /\ Exchange(d, sockfd[d])
      BY <1>2, <1>3, <1>8, <2>2 DEF ConnectionsInv, TypeOK
    <3>2. QED
      BY <1>2, <1>6, <2>2, <3>1 DEF Exchange
  <2>3. QED
    BY <2>1, <2>2
<1>9. ASSUME NEW t \in Connections, ~Open(t)'
      PROVE  LeftBehind(t)'
  <2>1. t # s /\ ~Open(t)
    BY <1>2, <1>9 DEF Open
  <2>2. QED
    BY <1>2, <1>6, <2>1 DEF ConnectionsInv, LeftBehind
<1>10. (\A t \in Connections : replies[t] # <<>> => newsockfd = t)'
  BY <1>2, <1>6 DEF ConnectionsInv
<1>11. QED
  BY <1>2, <1>5, <1>7, <1>8, <1>9, <1>10 DEF ConnectionsInv

LEMMA AcceptStep ==
  ASSUME ConnectionsInv, Accept
  PROVE  ConnectionsInv'
<1>1. /\ backlog # <<>> /\ newsockfd = None
      /\ newsockfd' = Head(backlog) /\ backlog' = Tail(backlog)
      /\ UNCHANGED <<store, heap, requests, replies, sockfd, sent, known>>
  BY DEF Accept, MayAccept, clientVars
<1>2. TypeOK /\ backlog \in Seq(Connections)
  BY DEF ConnectionsInv, TypeOK
<1>3. newsockfd' \in Connections /\ backlog' \in Seq(Connections) /\ Len(backlog') <= Backlog
  BY <1>1, <1>2, HeadTailProperties, KVServerAssumption DEF TypeOK
<1>4. StoreTypeOK'
  BY <1>1, <1>2 DEF TypeOK, StoreTypeOK, kv_count
<1>5. TypeOK'
  BY <1>1, <1>2, <1>3, <1>4 DEF TypeOK
<1>6. (\A s \in Connections : replies[s] # <<>> => newsockfd = s)'
  BY <1>1, KVServerAssumption DEF ConnectionsInv
<1>7. (\A c \in Clients : sockfd[c] # None => Exchange(c, sockfd[c]))'
  BY <1>1 DEF ConnectionsInv, Exchange
<1>8. (\A s \in Connections : ~Open(s) => LeftBehind(s))'
  BY <1>1 DEF ConnectionsInv, LeftBehind, Open
<1>9. QED
  BY <1>1, <1>5, <1>6, <1>7, <1>8 DEF ConnectionsInv

LEMMA HangupStep ==
  ASSUME ConnectionsInv, Hangup
  PROVE  ConnectionsInv'
<1>1. /\ newsockfd # None /\ ~Open(newsockfd) /\ newsockfd' = None
      /\ UNCHANGED <<store, heap, backlog, requests, replies, sockfd, sent, known>>
  BY DEF Hangup, EndOfFile, clientVars
<1>2. TypeOK /\ newsockfd \in Connections
  BY <1>1 DEF ConnectionsInv, TypeOK
<1>3. StoreTypeOK'
  BY <1>1, <1>2 DEF TypeOK, StoreTypeOK, kv_count
<1>4. TypeOK'
  BY <1>1, <1>2, <1>3 DEF TypeOK
<1>5. replies[newsockfd] = <<>>
  BY <1>1, <1>2 DEF ConnectionsInv, LeftBehind
<1>6. (\A s \in Connections : replies[s] # <<>> => newsockfd = s)'
  BY <1>1, <1>5 DEF ConnectionsInv
<1>7. (\A c \in Clients : sockfd[c] # None => Exchange(c, sockfd[c]))'
  BY <1>1 DEF ConnectionsInv, Exchange
<1>8. (\A s \in Connections : ~Open(s) => LeftBehind(s))'
  BY <1>1 DEF ConnectionsInv, LeftBehind, Open
<1>9. QED
  BY <1>1, <1>4, <1>6, <1>7, <1>8 DEF ConnectionsInv

(* What the server finds when it reads: one message; if its client is      *)
(* there, the command the client waits for, and no older answer.           *)
LEMMA RequestRead ==
  ASSUME ConnectionsInv, newsockfd # None, requests[newsockfd] # <<>>
  PROVE  /\ newsockfd \in Connections /\ replies[newsockfd] = <<>>
         /\ \E cmd \in Commands \cup {Disconnect} : requests[newsockfd] = <<cmd>>
         /\ Tail(requests[newsockfd]) = <<>>
         /\ \A c \in Clients : sockfd[c] = newsockfd =>
              sent[c] # None /\ sent[c] \in Commands /\ requests[newsockfd] = <<sent[c]>>
<1>1. TypeOK /\ newsockfd \in Connections
  BY DEF ConnectionsInv, TypeOK
<1>2. CASE Open(newsockfd)
  <2>1. PICK c \in Clients : sockfd[c] = newsockfd
    BY <1>2 DEF Open
  <2>2. /\ sent[c] # None /\ sent[c] \in Commands
        /\ requests[newsockfd] = <<sent[c]>> /\ replies[newsockfd] = <<>>
    BY <1>1, <2>1 DEF ConnectionsInv, TypeOK, Exchange
  <2>3. \A d \in Clients : sockfd[d] = newsockfd => d = c
    BY <2>1 DEF ConnectionsInv
  <2>4. Tail(requests[newsockfd]) = <<>>
    BY <2>2, One
  <2>5. QED
    BY <1>1, <2>2, <2>3, <2>4
<1>3. CASE ~Open(newsockfd)
  <2>1. PICK cmd \in Commands \cup {Disconnect} : requests[newsockfd] = <<cmd>>
    BY <1>1, <1>3 DEF ConnectionsInv, LeftBehind
  <2>2. replies[newsockfd] = <<>>
    BY <1>1, <1>3 DEF ConnectionsInv, LeftBehind
  <2>3. Tail(requests[newsockfd]) = <<>>
    BY <2>1, One
  <2>4. QED
    BY <1>1, <1>3, <2>1, <2>2, <2>3 DEF Open
<1>4. QED
  BY <1>2, <1>3

LEMMA HandleDisconnectStep ==
  ASSUME ConnectionsInv, HandleDisconnect
  PROVE  ConnectionsInv' /\ ~Open(newsockfd) /\ UNCHANGED replies
<1> DEFINE s == newsockfd
<1>1. /\ s # None /\ requests[s] # <<>> /\ Head(requests[s]) = Disconnect
      /\ Write(Disconnect, <<"OK">>)
      /\ requests' = [requests EXCEPT ![s] = Tail(requests[s])]
      /\ newsockfd' = None
      /\ UNCHANGED <<store, heap, backlog, sockfd, sent, known>>
  BY DEF HandleDisconnect, clientVars
<1>2. TypeOK /\ s \in Connections /\ replies[s] = <<>> /\ Tail(requests[s]) = <<>>
  BY <1>1, RequestRead DEF ConnectionsInv
<1>3. ~Open(s)
  <2>1. SUFFICES ASSUME NEW c \in Clients, sockfd[c] = s PROVE FALSE
    BY DEF Open
  <2>2. sent[c] \in Commands /\ requests[s] = <<sent[c]>>
    BY <1>1, <2>1, RequestRead
  <2>3. Head(requests[s]) = sent[c]
    BY <2>2, One
  <2>4. QED
    BY <1>1, <2>2, <2>3, CommandShape
<1>4. UNCHANGED replies
  BY <1>1, <1>3 DEF Write
<1>5. /\ requests'[s] = <<>>
      /\ \A t \in Connections : t # s => requests'[t] = requests[t]
  BY <1>1, <1>2 DEF TypeOK
<1>6. StoreTypeOK'
  BY <1>1, <1>2 DEF TypeOK, StoreTypeOK, kv_count
<1>7. requests' \in [Connections -> Seq(Commands \cup {Disconnect})]
  BY <1>1, <1>2 DEF TypeOK
<1>8. TypeOK'
  BY <1>1, <1>2, <1>4, <1>6, <1>7 DEF TypeOK
<1>9. (\A t \in Connections : replies[t] # <<>> => newsockfd = t)'
  BY <1>1, <1>2, <1>4 DEF ConnectionsInv
<1>10. ASSUME NEW c \in Clients, sockfd'[c] # None
       PROVE  Exchange(c, sockfd[c])'
  <2>1. sockfd[c] \in Connections /\ sockfd[c] # s /\ Exchange(c, sockfd[c])
    BY <1>1, <1>2, <1>3, <1>10 DEF ConnectionsInv, TypeOK, Open
  <2>2. QED
    BY <1>1, <1>4, <1>5, <2>1 DEF Exchange
<1>11. ASSUME NEW t \in Connections, ~Open(t)'
       PROVE  LeftBehind(t)'
  <2>1. LeftBehind(t)
    BY <1>1, <1>11 DEF Open, ConnectionsInv
  <2>2. QED
    BY <1>4, <1>5, <2>1 DEF LeftBehind
<1>12. QED
  BY <1>1, <1>3, <1>4, <1>8, <1>9, <1>10, <1>11 DEF ConnectionsInv

(* The command the server executes, and what its answer is added to.       *)
CommandHandled(cmd, response) ==
  /\ newsockfd \in Connections
  /\ replies[newsockfd] = <<>> /\ requests[newsockfd] = <<cmd>>
  /\ \A c \in Clients : sockfd[c] = newsockfd => sent[c] = cmd
  /\ Execute(cmd, response)
  /\ replies' = IF Open(newsockfd)
                THEN [replies EXCEPT ![newsockfd] = <<<<cmd, response>>>>]
                ELSE replies
  /\ requests' = [requests EXCEPT ![newsockfd] = <<>>]
  /\ UNCHANGED <<backlog, newsockfd, sockfd, sent, known>>

LEMMA CommandRead ==
  ASSUME ConnectionsInv, HandleCommand
  PROVE  \E cmd \in Commands, response \in Responses : CommandHandled(cmd, response)
<1> DEFINE s == newsockfd
<1>1. /\ s # None /\ requests[s] # <<>>
      /\ requests' = [requests EXCEPT ![s] = Tail(requests[s])]
      /\ UNCHANGED <<backlog, newsockfd, sockfd, sent, known>>
  BY DEF HandleCommand, clientVars
<1>2. PICK response \in Responses :
        Execute(Head(requests[s]), response) /\ Write(Head(requests[s]), response)
  BY DEF HandleCommand
<1>3. /\ s \in Connections /\ replies[s] = <<>> /\ Tail(requests[s]) = <<>>
      /\ \A c \in Clients : sockfd[c] = s => requests[s] = <<sent[c]>>
  BY <1>1, RequestRead
<1>4. PICK cmd \in Commands \cup {Disconnect} : requests[s] = <<cmd>>
  BY <1>1, RequestRead
<1>5. Head(requests[s]) = cmd
  BY <1>4, One
<1>6. Execute(cmd, response) /\ Write(cmd, response)
  BY <1>2, <1>5
<1>7. cmd \in Commands
  BY <1>6, NoDisconnectExecuted
<1>8. \A c \in Clients : sockfd[c] = s => sent[c] = cmd
  BY <1>3, <1>4
<1>9. Append(replies[s], <<cmd, response>>) = <<<<cmd, response>>>>
  BY <1>3, One
<1>10. replies' = IF Open(s) THEN [replies EXCEPT ![s] = <<<<cmd, response>>>>] ELSE replies
  BY <1>6, <1>9 DEF Write
<1>11. CommandHandled(cmd, response)
  BY <1>1, <1>3, <1>4, <1>6, <1>8, <1>10 DEF CommandHandled
<1>12. QED
  BY <1>7, <1>11

LEMMA HandleCommandStep ==
  ASSUME ConnectionsInv, NEW cmd \in Commands, NEW response \in Responses,
         CommandHandled(cmd, response), StoreOK'
  PROVE  ConnectionsInv'
<1> DEFINE s == newsockfd
<1>1. /\ TypeOK /\ s \in Connections /\ replies[s] = <<>> /\ requests[s] = <<cmd>>
      /\ \A c \in Clients : sockfd[c] = s => sent[c] = cmd
      /\ requests' = [requests EXCEPT ![s] = <<>>]
      /\ UNCHANGED <<backlog, newsockfd, sockfd, sent, known>>
  BY DEF ConnectionsInv, CommandHandled
<1>2. replies' = IF Open(s) THEN [replies EXCEPT ![s] = <<<<cmd, response>>>>] ELSE replies
  BY DEF CommandHandled
<1>3. <<<<cmd, response>>>> \in Seq(Commands \X Responses)
  OBVIOUS
<1>4. /\ requests' \in [Connections -> Seq(Commands \cup {Disconnect})]
      /\ replies' \in [Connections -> Seq(Commands \X Responses)]
  BY <1>1, <1>2, <1>3 DEF TypeOK
<1>5. TypeOK'
  BY <1>1, <1>4 DEF TypeOK, StoreOK
<1>6. /\ requests'[s] = <<>>
      /\ Open(s) => replies'[s] = <<<<cmd, response>>>>
      /\ ~Open(s) => replies'[s] = <<>>
      /\ \A t \in Connections : t # s => requests'[t] = requests[t] /\ replies'[t] = replies[t]
  BY <1>1, <1>2 DEF TypeOK
<1>7. ASSUME NEW c \in Clients, sockfd'[c] # None
      PROVE  Exchange(c, sockfd[c])'
  <2>1. CASE sockfd[c] = s
    <3>1. Open(s) /\ sent[c] = cmd /\ cmd # None
      BY <1>1, <2>1, CommandShape DEF Open
    <3>2. QED
      BY <1>1, <1>6, <2>1, <3>1 DEF Exchange
  <2>2. CASE sockfd[c] # s
    <3>1. sockfd[c] \in Connections /\ Exchange(c, sockfd[c])
      BY <1>1, <1>7 DEF ConnectionsInv, TypeOK
    <3>2. QED
      BY <1>1, <1>6, <2>2, <3>1 DEF Exchange
  <2>3. QED
    BY <2>1, <2>2
<1>8. ASSUME NEW t \in Connections, ~Open(t)'
      PROVE  LeftBehind(t)'
  <2>1. ~Open(t) /\ LeftBehind(t)
    BY <1>1, <1>8 DEF Open, ConnectionsInv
  <2>2. QED
    BY <1>1, <1>6, <2>1 DEF LeftBehind
<1>9. (\A t \in Connections : replies[t] # <<>> => newsockfd = t)'
  BY <1>1, <1>6 DEF ConnectionsInv
<1>10. QED
  BY <1>1, <1>5, <1>7, <1>8, <1>9 DEF ConnectionsInv

-----------------------------------------------------------------------------
(* The inductive invariant.                                                *)

ServerInv == StoreOK /\ ConnectionsInv

(* What any step does, seen from the store and from the connections.       *)
OtherStep ==
  \/ Accept \/ HandleDisconnect \/ Hangup
  \/ \E c \in Clients :
       \/ connect_to_server(c) \/ disconnect_from_server(c)
       \/ send_command(c) \/ read_reply(c) \/ Killed(c)

LEMMA NextCases == Next <=> HandleCommand \/ OtherStep
BY DEF Next, Server, OtherStep

LEMMA StoreLeftAlone ==
  ASSUME OtherStep
  PROVE  UNCHANGED <<store, heap>>
BY DEF OtherStep, Accept, HandleDisconnect, Hangup, connect_to_server,
       disconnect_from_server, send_command, read_reply, Killed, serverVars

LEMMA ServerInvInit == Init => ServerInv
<1> SUFFICES ASSUME Init PROVE ServerInv
  OBVIOUS
<1>1. store = <<>> /\ heap = [p \in {} |-> {}]
  BY DEF Init, StoreInit
<1>2. StoreOK
  BY <1>1, KVStoreAssumption
  DEF StoreOK, StoreTypeOK, KeysUnique, ValuesOwned, Slots, kv_count
<1>3. TypeOK
  BY <1>2, KVServerAssumption DEF Init, TypeOK, StoreOK
<1>4. \A s \in Connections : LeftBehind(s)
  BY DEF Init, LeftBehind
<1>5. ConnectionsInv
  BY <1>3, <1>4 DEF Init, ConnectionsInv
<1>6. QED
  BY <1>2, <1>5 DEF ServerInv

LEMMA ServerInvStep == ServerInv /\ [Next]_vars => ServerInv'
<1> SUFFICES ASSUME ServerInv, [Next]_vars PROVE ServerInv'
  OBVIOUS
<1> USE DEF ServerInv
<1>1. CASE HandleCommand
  <2>1. PICK cmd \in Commands, response \in Responses : CommandHandled(cmd, response)
    BY <1>1, CommandRead
  <2>2. StoreOK'
    BY <2>1, ExecuteStep DEF CommandHandled
  <2>3. QED
    BY <2>1, <2>2, HandleCommandStep
<1>2. CASE OtherStep
  <2>1. StoreOK'
    BY <1>2, StoreLeftAlone, StoreUnchanged
  <2>2. ConnectionsInv'
    BY <1>2, AcceptStep, HandleDisconnectStep, HangupStep, ConnectStep, DisconnectStep,
       SendStep, ReplyStep, KilledStep DEF OtherStep
  <2>3. QED
    BY <2>1, <2>2
<1>3. CASE UNCHANGED vars
  <2>1. StoreOK'
    BY <1>3, StoreUnchanged DEF vars
  <2>2. TypeOK'
    BY <1>3, <2>1 DEF vars, ConnectionsInv, TypeOK, StoreOK
  <2>3. (\A c \in Clients : sockfd[c] # None => Exchange(c, sockfd[c]))'
    BY <1>3 DEF vars, ConnectionsInv, Exchange
  <2>4. (\A s \in Connections : ~Open(s) => LeftBehind(s))'
    BY <1>3 DEF vars, ConnectionsInv, LeftBehind, Open
  <2>5. QED
    BY <1>3, <2>1, <2>2, <2>3, <2>4 DEF vars, ConnectionsInv
<1>4. QED
  BY <1>1, <1>2, <1>3, NextCases

THEOREM ServerInvariant == Spec => []ServerInv
BY ServerInvInit, ServerInvStep, PTL DEF Spec

(* The store never repeats a key, and never leaks, shares or uses after    *)
(* free a string, whatever the pointers malloc returns.                    *)
THEOREM StoreIsSound == Spec => []StoreInv
<1>1. ServerInv => StoreInv
  BY DEF ServerInv, ConnectionsInv, StoreOK, StoreInv
<1>2. QED
  BY <1>1, ServerInvariant, PTL

(* A connection never holds two messages, so that what one read returns is *)
(* one command, and an answer is the answer to the last command.           *)
THEOREM CommandsDoNotMix == Spec => []OneCommandAtATime
<1>1. ASSUME ServerInv PROVE OneCommandAtATime
  <2> USE <1>1 DEF ServerInv
  <2>1. ASSUME NEW c \in Clients, sockfd[c] # None
        PROVE  /\ Len(requests[sockfd[c]]) + Len(replies[sockfd[c]]) <= 1
               /\ \A i \in 1 .. Len(replies[sockfd[c]]) : replies[sockfd[c]][i][1] = sent[c]
    <3>1. Exchange(c, sockfd[c])
      BY <2>1 DEF ConnectionsInv
    <3>2. Len(<<>>) = 0
      OBVIOUS
    <3>3. CASE sent[c] = None /\ requests[sockfd[c]] = <<>> /\ replies[sockfd[c]] = <<>>
      BY <3>2, <3>3
    <3>4. CASE sent[c] # None /\ requests[sockfd[c]] = <<sent[c]>> /\ replies[sockfd[c]] = <<>>
      BY <3>2, <3>4, One
    <3>5. CASE /\ sent[c] # None /\ requests[sockfd[c]] = <<>>
               /\ \E response \in Responses : replies[sockfd[c]] = <<<<sent[c], response>>>>
      <4>1. PICK response \in Responses : replies[sockfd[c]] = <<<<sent[c], response>>>>
        BY <3>5
      <4>2. Len(replies[sockfd[c]]) = 1 /\ replies[sockfd[c]][1] = <<sent[c], response>>
        BY <4>1, One
      <4>3. \A i \in 1 .. Len(replies[sockfd[c]]) : i = 1
        BY <4>2
      <4>4. QED
        BY <3>2, <3>5, <4>2, <4>3
    <3>6. QED
      BY <3>1, <3>3, <3>4, <3>5 DEF Exchange
  <2>2. ASSUME NEW s \in Connections, ~Open(s)
        PROVE  Len(requests[s]) + Len(replies[s]) <= 1
    <3>1. LeftBehind(s)
      BY <2>2 DEF ConnectionsInv
    <3>2. replies[s] = <<>> /\ Len(<<>>) = 0
      BY <3>1 DEF LeftBehind
    <3>3. CASE requests[s] = <<>>
      BY <3>2, <3>3
    <3>4. CASE \E cmd \in Commands \cup {Disconnect} : requests[s] = <<cmd>>
      <4>1. Len(requests[s]) = 1
        BY <3>4, One
      <4>2. QED
        BY <3>2, <4>1
    <3>5. QED
      BY <3>1, <3>3, <3>4 DEF LeftBehind
  <2>3. \A s \in Connections : Len(requests[s]) + Len(replies[s]) <= 1
    BY <2>1, <2>2, KVServerAssumption DEF Open
  <2>4. \A c \in Clients :
          \A i \in 1 .. IF sockfd[c] = None THEN 0 ELSE Len(replies[sockfd[c]]) :
            replies[sockfd[c]][i][1] = sent[c]
    <3> SUFFICES ASSUME NEW c \in Clients,
                        NEW i \in 1 .. IF sockfd[c] = None THEN 0 ELSE Len(replies[sockfd[c]])
                 PROVE  replies[sockfd[c]][i][1] = sent[c]
      OBVIOUS
    <3>1. CASE sockfd[c] = None
      BY <3>1
    <3>2. CASE sockfd[c] # None
      BY <2>1, <3>2
    <3>3. QED
      BY <3>1, <3>2
  <2>5. QED
    BY <2>3, <2>4 DEF OneCommandAtATime
<1>2. QED
  BY <1>1, ServerInvariant, PTL

-----------------------------------------------------------------------------
(* The sessions.                                                           *)

(* What is true stays true while the map stays the same.                   *)
LEMMA HoldsSame ==
  ASSUME StoreOK, StoreOK', Contents' = Contents, NEW fact, Holds(fact)
  PROVE  Holds(fact)'
<1>1. \A key : Has(key) <=> key \in DOMAIN Contents
  BY ContentsFacts
<1>2. (\A key : Has(key) <=> key \in DOMAIN Contents)'
  BY ContentsFacts, PTL
<1>3. QED
  BY <1>1, <1>2 DEF Holds

LEMMA ContentsAreValues ==
  ASSUME StoreOK, NEW key \in DOMAIN Contents
  PROVE  Contents[key] \in Value
<1>1. StandsFor(store, heap, Contents)
  BY ContentsFacts
<1>2. PICK i \in 1 .. Len(store) : store[i].key = key
  BY <1>1 DEF StandsFor, KeysOf
<1>3. Contents[key] = heap[store[i].value]
  BY <1>1, <1>2 DEF StandsFor
<1>4. store[i].value \in DOMAIN heap
  BY DEF StoreOK, ValuesOwned, Slots, kv_count
<1>5. QED
  BY <1>3, <1>4 DEF StoreOK, StoreTypeOK

(* No response reads like another.                                         *)
LEMMA ResponsesDiffer ==
  /\ \A value : <<"Value: ", value>>[1] = "Value: " /\ <<"Value: ", value>>[2] = value
  /\ <<"OK">>[1] = "OK"
  /\ <<"Error: Key already exists">>[1] = "Error: Key already exists"
  /\ <<"Error: Store full">>[1] = "Error: Store full"
  /\ <<"Error: Key not found">>[1] = "Error: Key not found"
  /\ <<"Error: Invalid command">>[1] = "Error: Invalid command"
OBVIOUS

(* What a client learns from each response.                                *)
LEMMA LearntValue ==
  ASSUME NEW cmd, cmd.op = "read", NEW value, NEW before
  PROVE  Learnt(cmd, <<"Value: ", value>>, before) = <<cmd.key, value>>
<1>1. /\ <<"Value: ", value>>[1] = "Value: " /\ <<"Value: ", value>>[2] = value
      /\ <<"Value: ", value>> # <<"Error: Key not found">>
  BY ResponsesDiffer
<1>2. QED
  BY <1>1 DEF Learnt

LEMMA LearntOK ==
  ASSUME NEW cmd, NEW before
  PROVE  /\ cmd.op \in {"create", "update"} =>
              Learnt(cmd, <<"OK">>, before) = <<cmd.key, cmd.value>>
         /\ cmd.op = "delete" => Learnt(cmd, <<"OK">>, before) = <<cmd.key, None>>
<1>1. <<"OK">>[1] # "Value: " /\ <<"OK">> # <<"Error: Key not found">>
  BY ResponsesDiffer
<1>2. QED
  BY <1>1 DEF Learnt

LEMMA LearntNotFound ==
  ASSUME NEW cmd, NEW before
  PROVE  Learnt(cmd, <<"Error: Key not found">>, before) = <<cmd.key, None>>
<1>1. /\ <<"Error: Key not found">>[1] # "Value: "
      /\ <<"Error: Key not found">> # <<"OK">>
  BY ResponsesDiffer
<1>2. QED
  BY <1>1 DEF Learnt

LEMMA LearntNothing ==
  ASSUME NEW cmd, NEW before,
         NEW response \in {<<"Error: Key already exists">>, <<"Error: Store full">>,
                          <<"Error: Invalid command">>}
  PROVE  Learnt(cmd, response, before) = before
<1>1. /\ response[1] # "Value: " /\ response # <<"OK">>
      /\ response # <<"Error: Key not found">>
  BY ResponsesDiffer
<1>2. QED
  BY <1>1 DEF Learnt

(* What an answer tells is true right after the command was executed.      *)
LEMMA LearntHolds ==
  ASSUME StoreOK, StoreOK', NEW cmd \in Commands, NEW response,
         Effect(cmd, response), NEW before, Holds(before)
  PROVE  Holds(Learnt(cmd, response, before))'
<1>1. /\ \A key \in DOMAIN Contents' : \A value :
           value # None /\ Contents'[key] = value => Holds(<<key, value>>)'
      /\ \A key : key \notin DOMAIN Contents' => Holds(<<key, None>>)'
  <2>1. (\A key : Has(key) <=> key \in DOMAIN Contents)'
    BY ContentsFacts, PTL
  <2>2. ASSUME NEW key, NEW value
        PROVE  <<key, value>>[1] = key /\ <<key, value>>[2] = value
    OBVIOUS
  <2>3. QED
    BY <2>1, <2>2 DEF Holds
<1>2. Contents' = Contents => Holds(before)'
  BY HoldsSame
<1>3. CASE cmd.op = "create"
  <2>1. cmd.value \in Value /\ cmd.value # None
    BY <1>3, CommandShape, KVServerAssumption
  <2>2. CASE response = <<"OK">>
    <3>1. Learnt(cmd, response, before) = <<cmd.key, cmd.value>>
      BY <1>3, <2>2, LearntOK
    <3>2. cmd.key \in DOMAIN Contents' /\ Contents'[cmd.key] = cmd.value
      BY <1>3, <2>2 DEF Effect, CreateEffect, Added
    <3>3. QED
      BY <1>1, <2>1, <3>1, <3>2
  <2>3. CASE response # <<"OK">>
    <3>1. /\ response \in {<<"Error: Key already exists">>, <<"Error: Store full">>}
          /\ Contents' = Contents
      BY <1>3, <2>3 DEF Effect, CreateEffect
    <3>2. Learnt(cmd, response, before) = before
      BY <3>1, LearntNothing
    <3>3. QED
      BY <1>2, <3>1, <3>2
  <2>4. QED
    BY <2>2, <2>3
<1>4. CASE cmd.op = "read"
  <2>1. Contents' = Contents
    BY <1>4 DEF Effect, ReadEffect
  <2>2. CASE cmd.key \in DOMAIN Contents
    <3>1. Contents[cmd.key] \in Value /\ Contents[cmd.key] # None
      BY <2>2, ContentsAreValues, KVServerAssumption
    <3>2. PICK value : value = Contents[cmd.key]
      OBVIOUS
    <3>3. response = <<"Value: ", value>>
      BY <1>4, <2>2, <3>2 DEF Effect, ReadEffect
    <3>4. Learnt(cmd, response, before) = <<cmd.key, value>>
      BY <1>4, <3>3, LearntValue
    <3>5. QED
      BY <1>1, <2>1, <2>2, <3>1, <3>2, <3>4
  <2>3. CASE cmd.key \notin DOMAIN Contents
    <3>1. response = <<"Error: Key not found">>
      BY <1>4, <2>3 DEF Effect, ReadEffect
    <3>2. Learnt(cmd, response, before) = <<cmd.key, None>>
      BY <3>1, LearntNotFound
    <3>3. QED
      BY <1>1, <2>1, <2>3, <3>2
  <2>4. QED
    BY <2>2, <2>3
<1>5. CASE cmd.op = "update"
  <2>1. cmd.value \in Value /\ cmd.value # None
    BY <1>5, CommandShape, KVServerAssumption
  <2>2. CASE cmd.key \in DOMAIN Contents
    <3>1. response = <<"OK">> /\ Contents' = [Contents EXCEPT ![cmd.key] = cmd.value]
      BY <1>5, <2>2 DEF Effect, UpdateEffect
    <3>2. Learnt(cmd, response, before) = <<cmd.key, cmd.value>>
      BY <1>5, <3>1, LearntOK
    <3>3. cmd.key \in DOMAIN Contents' /\ Contents'[cmd.key] = cmd.value
      BY <2>2, <3>1
    <3>4. QED
      BY <1>1, <2>1, <3>2, <3>3
  <2>3. CASE cmd.key \notin DOMAIN Contents
    <3>1. response = <<"Error: Key not found">> /\ Contents' = Contents
      BY <1>5, <2>3 DEF Effect, UpdateEffect
    <3>2. Learnt(cmd, response, before) = <<cmd.key, None>>
      BY <3>1, LearntNotFound
    <3>3. QED
      BY <1>1, <2>3, <3>1, <3>2
  <2>4. QED
    BY <2>2, <2>3
<1>6. CASE cmd.op = "delete"
  <2>1. cmd.key \notin DOMAIN Contents'
    BY <1>6 DEF Effect, DeleteEffect, Without
  <2>2. response \in {<<"OK">>, <<"Error: Key not found">>}
    BY <1>6 DEF Effect, DeleteEffect
  <2>3. Learnt(cmd, response, before) = <<cmd.key, None>>
    BY <1>6, <2>2, LearntOK, LearntNotFound
  <2>4. QED
    BY <1>1, <2>1, <2>3
<1>7. CASE cmd.op = "invalid"
  <2>1. response = <<"Error: Invalid command">> /\ Contents' = Contents
    BY <1>7 DEF Effect
  <2>2. Learnt(cmd, response, before) = before
    BY <2>1, LearntNothing
  <2>3. QED
    BY <1>2, <2>1, <2>2
<1>8. QED
  BY <1>3, <1>4, <1>5, <1>6, <1>7, CommandShape

(* A client that has no session to lose, when no one is served, or one     *)
(* that has left.                                                          *)
LEMMA NobodyKnows ==
  ASSUME ConnectionsInv, SessionInv, ~Open(newsockfd) \/ newsockfd = None,
         NEW c \in Clients
  PROVE  known[c] = None
BY DEF ConnectionsInv, SessionInv, Open

LEMMA SessionInvInit == Init => SessionInv
BY DEF Init, SessionInv, WillKnow, Holds

(* What a client knows or will know only changes when its command is       *)
(* executed, or its session ends.                                          *)
LEMMA OtherSession ==
  ASSUME ServerInv, SessionInv, OtherStep, NEW c \in Clients
  PROVE  /\ known'[c] # None => newsockfd' = sockfd'[c]
         /\ WillKnow(c)' \in {WillKnow(c), None}
<1> USE DEF ServerInv
<1>1. TypeOK /\ DOMAIN known = Clients
  BY DEF ConnectionsInv
<1>2. CASE Accept \/ Hangup \/ HandleDisconnect
  <2>1. ~Open(newsockfd) \/ newsockfd = None
    BY <1>2, HandleDisconnectStep DEF Accept, MayAccept, Hangup, EndOfFile
  <2>2. known[c] = None
    BY <2>1, NobodyKnows
  <2>3. UNCHANGED <<replies, sockfd, sent, known>>
    BY <1>2, HandleDisconnectStep DEF Accept, Hangup, HandleDisconnect, clientVars
  <2>4. QED
    BY <2>2, <2>3 DEF WillKnow
<1>3. ASSUME NEW d \in Clients, connect_to_server(d)
      PROVE  /\ known'[c] # None => newsockfd' = sockfd'[c]
             /\ WillKnow(c)' \in {WillKnow(c), None}
  <2>1. PICK s \in Connections :
          /\ ~Exists(s)
          /\ sockfd' = [sockfd EXCEPT ![d] = s]
          /\ replies' = [replies EXCEPT ![s] = <<>>]
    BY <1>3 DEF connect_to_server
  <2>2. sockfd[d] = None /\ UNCHANGED <<newsockfd, sent, known>>
    BY <1>3 DEF connect_to_server, MayConnect
  <2>3. CASE c = d
    BY <1>1, <2>1, <2>2, <2>3 DEF ConnectionsInv, WillKnow, TypeOK
  <2>4. CASE c # d
    <3>1. sockfd'[c] = sockfd[c] /\ sockfd[c] # s
      BY <1>1, <2>1, <2>4 DEF TypeOK, Exists, Open
    <3>2. sockfd[c] # None => replies'[sockfd[c]] = replies[sockfd[c]]
      BY <1>1, <2>1, <3>1 DEF TypeOK
    <3>3. QED
      BY <2>2, <3>1, <3>2 DEF WillKnow, SessionInv
  <2>5. QED
    BY <2>3, <2>4
<1>4. ASSUME NEW d \in Clients, disconnect_from_server(d) \/ Killed(d)
      PROVE  /\ known'[c] # None => newsockfd' = sockfd'[c]
             /\ WillKnow(c)' \in {WillKnow(c), None}
  <2>1. /\ sockfd[d] # None /\ newsockfd' = newsockfd
        /\ sockfd' = [sockfd EXCEPT ![d] = None] /\ sent' = [sent EXCEPT ![d] = None]
        /\ known' = [known EXCEPT ![d] = None]
        /\ replies' = [replies EXCEPT ![sockfd[d]] = <<>>]
    BY <1>4 DEF disconnect_from_server, Killed, Close, serverVars
  <2>2. CASE c = d
    BY <1>1, <2>1, <2>2 DEF WillKnow, TypeOK
  <2>3. CASE c # d
    <3>1. /\ sockfd'[c] = sockfd[c] /\ sent'[c] = sent[c] /\ known'[c] = known[c]
          /\ sockfd[c] # None => sockfd[c] # sockfd[d]
      BY <1>1, <2>1, <2>3 DEF TypeOK, ConnectionsInv
    <3>2. sockfd[c] # None => replies'[sockfd[c]] = replies[sockfd[c]]
      BY <1>1, <2>1, <3>1 DEF TypeOK
    <3>3. QED
      BY <2>1, <3>1, <3>2 DEF WillKnow, SessionInv
  <2>4. QED
    BY <2>2, <2>3
<1>5. ASSUME NEW d \in Clients, send_command(d)
      PROVE  /\ known'[c] # None => newsockfd' = sockfd'[c]
             /\ WillKnow(c)' \in {WillKnow(c), None}
  <2>1. /\ sockfd[d] # None /\ sent[d] = None
        /\ UNCHANGED <<newsockfd, replies, sockfd, known>>
        /\ \A e \in Clients : e # d => sent'[e] = sent[e]
    BY <1>1, <1>5 DEF send_command, MaySend, serverVars, TypeOK
  <2>2. replies[sockfd[d]] = <<>>
    BY <2>1 DEF ConnectionsInv, Exchange
  <2>3. QED
    BY <2>1, <2>2 DEF WillKnow, SessionInv
<1>6. ASSUME NEW d \in Clients, read_reply(d)
      PROVE  /\ known'[c] # None => newsockfd' = sockfd'[c]
             /\ WillKnow(c)' \in {WillKnow(c), None}
  <2> DEFINE s == sockfd[d]
  <2>1. /\ s \in Connections /\ s # None /\ replies[s] # <<>>
        /\ replies' = [replies EXCEPT ![s] = <<>>]
        /\ UNCHANGED <<newsockfd, sockfd>>
    BY <1>6, ReplyRead, KVServerAssumption DEF read_reply, serverVars
  <2>2. known' = [known EXCEPT ![d] = Learnt(sent[d], Head(replies[s])[2], known[d])]
    BY <1>6 DEF read_reply
  <2>3. newsockfd = s
    BY <2>1 DEF ConnectionsInv
  <2>4. CASE c = d
    BY <1>1, <2>1, <2>2, <2>3, <2>4 DEF WillKnow, TypeOK
  <2>5. CASE c # d
    <3>1. known'[c] = known[c] /\ sent'[c] = sent[c] /\ (sockfd[c] # None => sockfd[c] # s)
      BY <1>1, <1>6, <2>2, <2>5 DEF read_reply, TypeOK, ConnectionsInv
    <3>2. sockfd[c] # None => replies'[sockfd[c]] = replies[sockfd[c]]
      BY <1>1, <2>1, <3>1 DEF TypeOK
    <3>3. QED
      BY <2>1, <3>1, <3>2 DEF WillKnow, SessionInv
  <2>6. QED
    BY <2>4, <2>5
<1>7. QED
  BY <1>2, <1>3, <1>4, <1>5, <1>6 DEF OtherStep

(* A command changes what its own client will know, and the others know    *)
(* nothing.                                                                *)
LEMMA CommandSession ==
  ASSUME ServerInv, SessionInv, NEW cmd \in Commands, NEW response \in Responses,
         CommandHandled(cmd, response), StoreOK', Effect(cmd, response)
  PROVE  SessionInv'
<1> USE DEF ServerInv
<1> SUFFICES ASSUME NEW c \in Clients
             PROVE  /\ known'[c] # None => newsockfd' = sockfd'[c]
                    /\ Holds(WillKnow(c))'
  BY DEF SessionInv
<1> DEFINE s == newsockfd
<1>1. /\ s \in Connections /\ s # None /\ replies[s] = <<>>
      /\ sockfd[c] = s => sent[c] = cmd
      /\ replies' = IF Open(s) THEN [replies EXCEPT ![s] = <<<<cmd, response>>>>] ELSE replies
      /\ UNCHANGED <<newsockfd, sockfd, sent, known>>
  BY KVServerAssumption DEF CommandHandled
<1>2. TypeOK /\ known'[c] = known[c]
  BY <1>1 DEF ConnectionsInv
<1>3. known'[c] # None => newsockfd' = sockfd'[c]
  BY <1>1, <1>2 DEF SessionInv
<1>4. CASE sockfd[c] = s
  <2>1. WillKnow(c) = known[c] /\ Holds(known[c])
    BY <1>1, <1>4 DEF WillKnow, SessionInv
  <2>2. replies'[s] = <<<<cmd, response>>>>
    BY <1>1, <1>2, <1>4 DEF Open, TypeOK
  <2>3. replies'[s] # <<>> /\ Head(replies'[s])[2] = response
    BY <2>2, One
  <2>4. WillKnow(c)' = Learnt(cmd, response, known[c])
    BY <1>1, <1>2, <1>4, <2>3 DEF WillKnow
  <2>5. PICK before : before = known[c]
    OBVIOUS
  <2>6. Holds(Learnt(cmd, response, before))'
    BY <2>1, <2>5, LearntHolds
  <2>7. WillKnow(c)' = Learnt(cmd, response, before)
    BY <2>4, <2>5
  <2>8. QED
    BY <1>3, <2>6, <2>7 DEF Holds
<1>5. CASE sockfd[c] # s
  <2>1. known[c] = None
    BY <1>5 DEF SessionInv
  <2>2. sockfd[c] # None => replies'[sockfd[c]] = <<>>
    BY <1>1, <1>2, <1>5 DEF ConnectionsInv, TypeOK
  <2>3. WillKnow(c)' = None
    BY <1>1, <1>2, <2>1, <2>2 DEF WillKnow
  <2>4. QED
    BY <1>3, <2>3 DEF Holds
<1>6. QED
  BY <1>4, <1>5

LEMMA SessionInvStep ==
  ASSUME ServerInv, ServerInv', SessionInv, [Next]_vars
  PROVE  SessionInv'
<1>1. CASE HandleCommand
  <2>1. PICK cmd \in Commands, response \in Responses : CommandHandled(cmd, response)
    BY <1>1, CommandRead DEF ServerInv
  <2>2. StoreOK' /\ Effect(cmd, response)
    BY <2>1, ExecuteStep DEF CommandHandled, ServerInv
  <2>3. QED
    BY <2>1, <2>2, CommandSession
<1>2. CASE OtherStep \/ UNCHANGED vars
  <2>1. StoreOK /\ StoreOK' /\ Contents' = Contents
    BY <1>2, StoreLeftAlone, StoreUnchanged DEF ServerInv, vars
  <2> SUFFICES ASSUME NEW c \in Clients
               PROVE  /\ known'[c] # None => newsockfd' = sockfd'[c]
                      /\ Holds(WillKnow(c))'
    BY DEF SessionInv
  <2>2. /\ known'[c] # None => newsockfd' = sockfd'[c]
        /\ WillKnow(c)' \in {WillKnow(c), None}
    <3>1. CASE OtherStep
      BY <3>1, OtherSession
    <3>2. CASE UNCHANGED vars
      BY <3>2 DEF vars, WillKnow, SessionInv
    <3>3. QED
      BY <1>2, <3>1, <3>2
  <2>3. PICK fact : fact = WillKnow(c)
    OBVIOUS
  <2>4. Holds(fact)
    BY <2>3 DEF SessionInv
  <2>5. Holds(fact)'
    BY <2>1, <2>4, HoldsSame
  <2>6. WillKnow(c)' \in {fact, None}
    BY <2>2, <2>3
  <2>7. QED
    BY <2>2, <2>5, <2>6 DEF Holds
<1>3. QED
  BY <1>1, <1>2, NextCases

(* What a client was told stays true for as long as it stays connected,    *)
(* whatever the values are: the text of an error is a value like others.   *)
THEOREM SessionsAreIsolated == Spec => []SessionIsolated
<1>1. ServerInv /\ SessionInv /\ [Next]_vars => ServerInv' /\ SessionInv'
  BY ServerInvStep, SessionInvStep
<1>2. ASSUME ServerInv, SessionInv PROVE SessionIsolated
  <2> SUFFICES ASSUME NEW c \in Clients, known[c] # None, sent[c] = None
               PROVE  Holds(known[c])
    BY DEF SessionIsolated, Holds
  <2>1. sockfd[c] # None /\ Exchange(c, sockfd[c])
    BY <1>2 DEF ServerInv, ConnectionsInv
  <2>2. WillKnow(c) = known[c]
    BY <2>1 DEF Exchange, WillKnow
  <2>3. QED
    BY <1>2, <2>2 DEF SessionInv
<1>3. QED
  BY <1>1, <1>2, ServerInvInit, SessionInvInit, PTL DEF Spec

-----------------------------------------------------------------------------
(* The service implements the map.                                         *)

Answer == IF Pending = {} THEN None ELSE Head(replies[CHOOSE s \in Pending : TRUE])

LEMMA AnswerFacts ==
  ASSUME ConnectionsInv
  PROVE  /\ \A s \in Connections : replies[s] # <<>> => Answer = Head(replies[s])
         /\ (\A s \in Connections : replies[s] = <<>>) => Answer = None
<1>1. ASSUME NEW s \in Connections, replies[s] # <<>>
      PROVE  Pending = {s}
  BY <1>1 DEF Pending, ConnectionsInv
<1>2. ASSUME \A s \in Connections : replies[s] = <<>>
      PROVE  Pending = {}
  BY <1>2 DEF Pending
<1>3. QED
  BY <1>1, <1>2 DEF Answer

(* A step that does no more than take answers away.                        *)
LEMMA AnswerTaken ==
  ASSUME ConnectionsInv, ConnectionsInv',
         \A s \in Connections : replies'[s] \in {replies[s], <<>>}
  PROVE  Answer' \in {Answer, None}
<1>1. \A s \in Connections : replies[s] # <<>> => Answer = Head(replies[s])
  BY AnswerFacts
<1>2. /\ \A s \in Connections : replies'[s] # <<>> => Answer' = Head(replies'[s])
      /\ (\A s \in Connections : replies'[s] = <<>>) => Answer' = None
  <2>1. (/\ \A s \in Connections : replies[s] # <<>> => Answer = Head(replies[s])
         /\ (\A s \in Connections : replies[s] = <<>>) => Answer = None)'
    BY AnswerFacts, PTL
  <2>2. QED
    BY <2>1
<1>3. QED
  BY <1>1, <1>2

LEMMA OnlyTaken ==
  ASSUME ConnectionsInv, OtherStep, NEW s \in Connections
  PROVE  replies'[s] \in {replies[s], <<>>}
<1>1. DOMAIN replies = Connections
  BY DEF ConnectionsInv, TypeOK
<1>2. \A c \in Clients : read_reply(c) => replies'[s] \in {replies[s], <<>>}
  BY <1>1, ReplyRead
<1>3. CASE HandleDisconnect
  BY <1>3, HandleDisconnectStep
<1>4. QED
  BY <1>1, <1>2, <1>3
  DEF OtherStep, Accept, Hangup, connect_to_server, disconnect_from_server,
      send_command, Killed, Close, serverVars, clientVars

(* A command is the map's command: its effect, its answer, or no answer if *)
(* nobody is there to read it.                                             *)
LEMMA CommandImplements ==
  ASSUME ServerInv, ServerInv', NEW cmd \in Commands, NEW response \in Responses,
         CommandHandled(cmd, response), Effect(cmd, response)
  PROVE  Map!Next
<1>1. /\ newsockfd \in Connections /\ replies[newsockfd] = <<>>
      /\ replies' = IF Open(newsockfd)
                    THEN [replies EXCEPT ![newsockfd] = <<<<cmd, response>>>>]
                    ELSE replies
  BY DEF CommandHandled
<1>2. /\ DOMAIN replies = Connections
      /\ \A s \in Connections : s # newsockfd => replies[s] = <<>>
  BY DEF ServerInv, ConnectionsInv, TypeOK
<1>3. (/\ \A s \in Connections : replies[s] # <<>> => Answer = Head(replies[s])
       /\ (\A s \in Connections : replies[s] = <<>>) => Answer = None)'
  BY AnswerFacts, PTL DEF ServerInv
<1>4. Answer' \in {<<cmd, response>>, None}
  <2>1. CASE Open(newsockfd)
    <3>1. replies'[newsockfd] = <<<<cmd, response>>>>
      BY <1>1, <1>2, <2>1
    <3>2. QED
      BY <1>1, <1>3, <3>1, One
  <2>2. CASE ~Open(newsockfd)
    BY <1>1, <1>2, <1>3, <2>2
  <2>3. QED
    BY <2>1, <2>2
<1>5. Map!Answered(cmd, response)
  BY <1>4 DEF Map!Answered, Answer
<1>6. CASE cmd.op = "create"
  <2>1. Map!Create(cmd)
    BY <1>5, <1>6 DEF Map!Create, Effect, CreateEffect, Added
  <2>2. QED
    BY <1>6, <2>1 DEF Map!Next
<1>7. CASE cmd.op = "read"
  <2>1. Map!Read(cmd)
    BY <1>5, <1>7 DEF Map!Read, Effect, ReadEffect
  <2>2. QED
    BY <1>7, <2>1 DEF Map!Next
<1>8. CASE cmd.op = "update"
  <2>1. Map!Update(cmd)
    BY <1>5, <1>8 DEF Map!Update, Effect, UpdateEffect
  <2>2. QED
    BY <1>8, <2>1 DEF Map!Next
<1>9. CASE cmd.op = "delete"
  <2>1. Map!Delete(cmd)
    BY <1>5, <1>9 DEF Map!Delete, Effect, DeleteEffect, Without
  <2>2. QED
    BY <1>9, <2>1 DEF Map!Next
<1>10. CASE cmd.op = "invalid"
  <2>1. Map!Reject(cmd)
    BY <1>5, <1>10 DEF Map!Reject, Effect
  <2>2. QED
    BY <1>10, <2>1 DEF Map!Next
<1>11. QED
  BY <1>6, <1>7, <1>8, <1>9, <1>10, CommandShape

LEMMA StepImplements ==
  ASSUME ServerInv, ServerInv', [Next]_vars
  PROVE  [Map!Next]_<<Contents, Answer>>
<1>1. CASE HandleCommand
  <2>1. PICK cmd \in Commands, response \in Responses : CommandHandled(cmd, response)
    BY <1>1, CommandRead DEF ServerInv
  <2>2. Effect(cmd, response)
    BY <2>1, ExecuteStep DEF CommandHandled, ServerInv
  <2>3. QED
    BY <2>1, <2>2, CommandImplements
<1>2. CASE OtherStep
  <2>1. Contents' = Contents
    BY <1>2, StoreLeftAlone, StoreUnchanged DEF ServerInv
  <2>2. Answer' \in {Answer, None}
    BY <1>2, OnlyTaken, AnswerTaken DEF ServerInv
  <2>3. Answer' = None => Map!AnswerRead
    BY <2>1 DEF Map!AnswerRead, Answer
  <2>4. QED
    BY <2>1, <2>2, <2>3 DEF Map!Next
<1>3. CASE UNCHANGED vars
  <2>1. Contents' = Contents
    BY <1>3, StoreUnchanged DEF vars, ServerInv
  <2>2. Answer' = Answer
    BY <1>3 DEF vars, Answer, Pending
  <2>3. QED
    BY <2>1, <2>2
<1>4. QED
  BY <1>1, <1>2, <1>3, NextCases

(* Every command takes effect at one moment, the moment it is executed,    *)
(* and is answered with what the map says then.                            *)
THEOREM ServerImplementsMap == Spec => RefinesKVMap
<1>1. Init => Map!Init
  <2> SUFFICES ASSUME Init PROVE Map!Init
    OBVIOUS
  <2>1. store = <<>> /\ \A s \in Connections : replies[s] = <<>>
    BY DEF Init, StoreInit
  <2>2. Pending = {}
    BY <2>1 DEF Pending
  <2>3. {store[i].key : i \in Slots} = {}
    BY <2>1 DEF Slots, kv_count
  <2>4. Contents = [k \in {} |-> {}]
    BY <2>3 DEF Contents
  <2>5. QED
    BY <2>2, <2>4 DEF Map!Init
<1>2. ServerInv /\ ServerInv' /\ [Next]_vars => [Map!Next]_<<Contents, Answer>>
  BY StepImplements
<1>3. QED
  BY <1>1, <1>2, ServerInvariant, PTL DEF Spec, RefinesKVMap, Map!Spec, Answer
=============================================================================
