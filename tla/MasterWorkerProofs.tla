------------------------- MODULE MasterWorkerProofs -------------------------
(***************************************************************************)
(* Theorems about MasterWorker, for any numbers of masters, workers, items *)
(* and slots, with or without spurious wakeups.                            *)
(***************************************************************************)
EXTENDS MasterWorker, FiniteSetTheorems, SequenceTheorems, TLAPS

Places == {"looping", "not_full", "not_empty", Woken, "done"}

(* The inductive form of OverproductionBound: once enough has been made,   *)
(* each committed master has an item of the excess reserved.               *)
ExcessReserved ==
  item_to_produce >= total_items =>
    \/ item_to_produce + Cardinality(Committed)
         < total_items + Cardinality(Masters)
    \/ item_to_produce = total_items /\ Committed = {}

IInv == /\ TypeOK /\ Conservation /\ WorkersLeaveLast
        /\ ExcessReserved /\ NoLostWakeup

(* Threads of a kind sleep only on their own condition variable.           *)
KindOK == /\ \A m \in Masters : pc[m] # "not_empty"
          /\ \A w \in Workers : pc[w] # "not_full"

-----------------------------------------------------------------------------
(* Steps of one thread, and the wakeups they cause.                        *)

(* t goes to place; others are at most woken from cond.                    *)
Moves(t, place, cond) ==
  /\ pc' \in [Threads -> Places]
  /\ pc'[t] = place
  /\ \A u \in Threads \ {t} :
       pc'[u] = pc[u] \/ (pc[u] = cond /\ pc'[u] = Woken)

(* A thread that goes on without a signal wakes nobody.                    *)
LEMMA PlainMove ==
  ASSUME TypeOK, NEW t \in Threads, NEW place \in Places, NEW cond,
         pc' = [pc EXCEPT ![t] = place]
  PROVE  Moves(t, place, cond)
BY DEF TypeOK, Moves, Places

(* t signals cond and goes to place.                                       *)
SignalsAndMoves(t, place, cond) ==
  \E woken \in Signal(pc, cond) : pc' = [woken EXCEPT ![t] = place]

(* A thread that signals cond wakes a sleeper of cond if there is one.     *)
LEMMA SignalMove ==
  ASSUME TypeOK, NEW t \in Threads, NEW place \in Places, NEW cond,
         pc[t] # cond, SignalsAndMoves(t, place, cond)
  PROVE  /\ Moves(t, place, cond)
         /\ (\E u \in Threads : pc[u] = cond) =>
              \E u \in Threads \ {t} : pc[u] = cond /\ pc'[u] = Woken
<1>1. pc \in [Threads -> Places] /\ Woken \in Places
  BY DEF TypeOK, Places
<1>2. PICK woken \in Signal(pc, cond) : pc' = [woken EXCEPT ![t] = place]
  BY DEF SignalsAndMoves
<1>3. CASE Sleepers(pc, cond) = {}
  BY <1>1, <1>2, <1>3 DEF Signal, Sleepers, Moves
<1>4. CASE Sleepers(pc, cond) # {}
  <2>1. PICK u \in Sleepers(pc, cond) : woken = [pc EXCEPT ![u] = Woken]
    BY <1>2, <1>4 DEF Signal
  <2>2. u \in Threads \ {t} /\ pc[u] = cond
    BY <1>1 DEF Sleepers
  <2>3. pc' = [[pc EXCEPT ![u] = Woken] EXCEPT ![t] = place]
    BY <1>2, <2>1
  <2>4. /\ pc'[t] = place /\ pc'[u] = Woken
        /\ \A v \in Threads \ {t, u} : pc'[v] = pc[v]
        /\ pc' \in [Threads -> Places]
    BY <1>1, <2>2, <2>3
  <2>5. QED
    BY <2>2, <2>4 DEF Moves
<1>5. QED
  BY <1>3, <1>4

(* How a step of t changes the set of committed masters.                   *)
LEMMA CommittedStep ==
  ASSUME TypeOK, NEW t \in Threads, NEW place \in Places,
         NEW cond \in {"not_full", "not_empty"},
         Moves(t, place, cond), KindOK'
  PROVE  Committed' = IF t \in Masters /\ place \in {"not_full", Woken}
                      THEN Committed \cup {t} ELSE Committed \ {t}
<1>1. \A u \in Masters \ {t} :
        pc'[u] \in {"not_full", Woken} <=> pc[u] \in {"not_full", Woken}
  BY DEF Moves, TypeOK, Threads, Woken
<1>2. pc'[t] = place
  BY DEF Moves
<1>3. QED
  BY <1>1, <1>2 DEF Committed, Threads

(* There are finitely many committed masters.                              *)
LEMMA CommittedFinite ==
  /\ IsFiniteSet(Committed)
  /\ Cardinality(Committed) \in Nat /\ Cardinality(Masters) \in Nat
<1>1. Committed \subseteq Masters
  BY DEF Committed
<1>2. QED
  BY <1>1, MasterWorkerAssumption, FS_Subset, FS_CardinalityType

(* A master that is not committed leaves at most the others committed.     *)
LEMMA OthersCommitted ==
  ASSUME NEW m \in Masters, NEW C, C \subseteq Masters \ {m}
  PROVE  /\ Cardinality(C) \in Nat
         /\ Cardinality(C) < Cardinality(Masters)
<1>1. /\ IsFiniteSet(Masters \ {m})
      /\ Cardinality(Masters \ {m}) = Cardinality(Masters) - 1
  BY MasterWorkerAssumption, FS_RemoveElement
<1>2. IsFiniteSet(C) /\ Cardinality(C) <= Cardinality(Masters \ {m})
  BY <1>1, FS_Subset
<1>3. Cardinality(C) \in Nat /\ Cardinality(Masters) \in Nat
  BY <1>2, MasterWorkerAssumption, FS_CardinalityType
<1>4. QED
  BY <1>1, <1>2, <1>3

-----------------------------------------------------------------------------
(* The buffer.                                                             *)

(* Putting an item on top of the buffer.                                   *)
LEMMA BufferPut ==
  ASSUME TypeOK, Conservation, buffer' = Append(buffer, item_to_produce),
         item_to_produce' = item_to_produce + 1, UNCHANGED consumed
  PROVE  /\ buffer' \in Seq(Nat) /\ curr_buf_size' = curr_buf_size + 1
         /\ Buffered' = Buffered \cup {item_to_produce}
         /\ Conservation'
<1>1. /\ buffer \in Seq(Nat) /\ item_to_produce \in Nat
      /\ curr_buf_size \in Nat
  BY DEF TypeOK, curr_buf_size
<1>2. /\ buffer' \in Seq(Nat) /\ curr_buf_size' = curr_buf_size + 1
      /\ \A i \in 1 .. curr_buf_size : buffer'[i] = buffer[i]
      /\ buffer'[curr_buf_size + 1] = item_to_produce
  BY <1>1 DEF curr_buf_size
<1>3. Buffered' = Buffered \cup {item_to_produce}
  <2>1. Buffered' = {buffer'[i] : i \in 1 .. curr_buf_size + 1}
    BY <1>2 DEF Buffered
  <2>2. \A i \in 1 .. curr_buf_size + 1 :
          i \in 1 .. curr_buf_size \/ i = curr_buf_size + 1
    BY <1>1
  <2>3. 1 .. curr_buf_size \subseteq 1 .. curr_buf_size + 1
        /\ curr_buf_size + 1 \in 1 .. curr_buf_size + 1
    BY <1>1
  <2>4. QED
    BY <1>2, <2>1, <2>2, <2>3 DEF Buffered
<1>4. item_to_produce \notin Buffered /\ item_to_produce \notin consumed
  BY <1>1 DEF Conservation, Produced
<1>5. Produced' = Produced \cup {item_to_produce}
  BY <1>1 DEF Produced
<1>6. \A i, j \in 1 .. curr_buf_size' : i # j => buffer'[i] # buffer'[j]
  <2>1. \A i \in 1 .. curr_buf_size : buffer[i] # item_to_produce
    BY <1>4 DEF Buffered
  <2>2. QED
    BY <1>1, <1>2, <2>1 DEF Conservation
<1>7. QED
  BY <1>2, <1>3, <1>4, <1>5, <1>6 DEF Conservation

(* Taking the top of the buffer.                                           *)
LEMMA BufferTake ==
  ASSUME TypeOK, Conservation, curr_buf_size > 0,
         buffer' = SubSeq(buffer, 1, curr_buf_size - 1),
         consumed' = consumed \cup {Taken}, UNCHANGED item_to_produce
  PROVE  /\ buffer' \in Seq(Nat) /\ curr_buf_size' = curr_buf_size - 1
         /\ Taken \in Buffered /\ Taken \in Nat
         /\ Buffered' = Buffered \ {Taken}
         /\ Conservation'
<1>1. buffer \in Seq(Nat) /\ curr_buf_size \in Nat
  BY DEF TypeOK, curr_buf_size
<1>2. /\ buffer' \in Seq(Nat) /\ curr_buf_size' = curr_buf_size - 1
      /\ \A i \in 1 .. curr_buf_size - 1 : buffer'[i] = buffer[i]
  <2>1. /\ curr_buf_size - 1 \in Int
        /\ \A i \in 1 .. curr_buf_size - 1 : buffer[i] \in Nat
    BY <1>1 DEF curr_buf_size
  <2>2. Len(SubSeq(buffer, 1, curr_buf_size - 1)) =
          IF 1 <= curr_buf_size - 1 THEN curr_buf_size - 1 - 1 + 1 ELSE 0
    BY <2>1, SubSeqProperties
  <2>3. Len(buffer') = curr_buf_size - 1
    BY <1>1, <2>2
  <2>4. /\ buffer' \in Seq(Nat)
        /\ \A i \in 1 .. curr_buf_size - 1 : buffer'[i] = buffer[i]
    BY <1>1 DEF curr_buf_size
  <2>5. QED
    BY <2>3, <2>4 DEF curr_buf_size
<1>3. Taken \in Buffered /\ Taken \in Nat
  BY <1>1 DEF Taken, Buffered, curr_buf_size
<1>4. Buffered' = Buffered \ {Taken}
  <2>1. \A i \in 1 .. curr_buf_size - 1 : buffer[i] # Taken
    BY <1>1 DEF Taken, Conservation
  <2>2. \A i \in 1 .. curr_buf_size :
          i \in 1 .. curr_buf_size - 1 \/ buffer[i] = Taken
    BY <1>1 DEF Taken
  <2>3. 1 .. curr_buf_size - 1 \subseteq 1 .. curr_buf_size
    BY <1>1
  <2>4. Buffered' = {buffer'[i] : i \in 1 .. curr_buf_size - 1}
    BY <1>2 DEF Buffered
  <2>5. Buffered' = {buffer[i] : i \in 1 .. curr_buf_size - 1}
    BY <1>2, <2>4
  <2>6. QED
    BY <2>1, <2>2, <2>3, <2>5 DEF Buffered
<1>5. \A i, j \in 1 .. curr_buf_size' : i # j => buffer'[i] # buffer'[j]
  BY <1>1, <1>2 DEF Conservation
<1>6. Produced' = Produced
  BY DEF Produced
<1>7. QED
  BY <1>2, <1>3, <1>4, <1>5, <1>6 DEF Conservation

-----------------------------------------------------------------------------
(* One lemma per action: it preserves IInv, and this is what it does to    *)
(* the pool of items.                                                      *)

PoolStep == Pool!Next \/ UNCHANGED <<item_to_produce, Buffered, consumed>>

(* The buffer, seen as a set, is not larger than the buffer.               *)
LEMMA BufferedSize ==
  ASSUME TypeOK
  PROVE  Cardinality(Buffered) \in Nat /\ Cardinality(Buffered) <= curr_buf_size
<1>1. buffer \in Seq(Nat) /\ curr_buf_size \in Nat
  BY DEF TypeOK, curr_buf_size
<1>2. /\ IsFiniteSet(1 .. curr_buf_size)
      /\ Cardinality(1 .. curr_buf_size) = curr_buf_size
  BY <1>1, FS_Interval
<1>3. DEFINE f == [i \in 1 .. curr_buf_size |-> buffer[i]]
<1>4. f \in Surjection(1 .. curr_buf_size, Buffered)
  BY DEF Surjection, Buffered
<1>5. IsFiniteSet(Buffered) /\ Cardinality(Buffered) <= curr_buf_size
  BY <1>2, <1>4, FS_Surjection
<1>6. QED
  BY <1>5, FS_CardinalityType

(* WorkPool counts the pool as this module does.                           *)
LEMMA PoolCardinality ==
  Pool!Cardinality(Buffered) = Cardinality(Buffered)
BY DEF Pool!Cardinality, Cardinality

(* Going to sleep on not_full, from either place.                          *)
LEMMA ProduceWaitStep ==
  ASSUME IInv, NEW m \in Masters, pc[m] \in {"looping", Woken},
         pc[m] = "looping" => ~MasterFinished,
         MustWaitForRoom(m), pc' = [pc EXCEPT ![m] = "not_full"],
         UNCHANGED <<item_to_produce, buffer, consumed>>
  PROVE  IInv' /\ PoolStep
<1> USE DEF IInv, Woken
<1>1. m \in Threads /\ m \notin Workers
  BY MasterWorkerAssumption DEF Threads
<1>2. TypeOK' /\ KindOK' /\ Moves(m, "not_full", "not_full")
  BY <1>1, PlainMove DEF TypeOK, KindOK, Moves, Places, Threads, curr_buf_size
<1>3. Conservation' /\ WorkersLeaveLast'
  BY <1>1 DEF Conservation, WorkersLeaveLast, Buffered, Produced, TypeOK,
              curr_buf_size, Threads
<1>4. ExcessReserved'
  <2>1. pc[m] # "looping" => m \in Committed
    BY DEF Committed
  <2>2. Committed' = Committed \cup {m}
    BY <1>1, <1>2, CommittedStep DEF Places
  <2>3. QED
    BY <2>1, <2>2 DEF ExcessReserved, MasterFinished, TypeOK
<1>5. NoLostWakeup'
  <2>1. curr_buf_size' >= max_buf_size
    BY DEF MustWaitForRoom, curr_buf_size
  <2>2. \A w \in Workers : pc'[w] = pc[w]
    BY <1>1 DEF TypeOK, Threads
  <2>3. curr_buf_size' \in Nat
    BY <1>2 DEF TypeOK, curr_buf_size
  <2>4. QED
    BY <2>1, <2>2, <2>3, MasterWorkerAssumption
    DEF NoLostWakeup, curr_buf_size
<1>6. QED
  BY <1>2, <1>3, <1>4, <1>5 DEF PoolStep, Buffered, curr_buf_size

(* Producing an item.                                                      *)
LEMMA ProduceItemStep ==
  ASSUME IInv, NEW m \in Masters, pc[m] \in {"looping", Woken},
         pc[m] = "looping" => ~MasterFinished,
         ~MustWaitForRoom(m),
         buffer' = Append(buffer, item_to_produce),
         item_to_produce' = item_to_produce + 1,
         NEW woken \in WokenByMaster, pc' = [woken EXCEPT ![m] = "looping"],
         UNCHANGED consumed
  PROVE  IInv' /\ PoolStep
<1> USE DEF IInv, Woken
<1>1. m \in Threads /\ m \notin Workers /\ "looping" \in Places
  BY MasterWorkerAssumption DEF Threads, Places
<1>2. /\ Moves(m, "looping", "not_empty")
      /\ (\E u \in Threads : pc[u] = "not_empty") =>
           \E u \in Threads \ {m} : pc[u] = "not_empty" /\ pc'[u] = Woken
  <2>1. SignalsAndMoves(m, "looping", "not_empty") /\ pc[m] # "not_empty"
    BY DEF WokenByMaster, SignalsAndMoves
  <2>2. QED
    BY <1>1, <2>1, SignalMove
<1>3. KindOK'
  BY <1>1, <1>2 DEF KindOK, Moves, TypeOK, Threads
<1>4. /\ buffer' \in Seq(Nat) /\ curr_buf_size' = curr_buf_size + 1
      /\ Buffered' = Buffered \cup {item_to_produce}
      /\ Conservation'
  BY BufferPut
<1>5. curr_buf_size \in Nat /\ curr_buf_size < max_buf_size
  BY MasterWorkerAssumption DEF MustWaitForRoom, TypeOK, curr_buf_size
<1>6. TypeOK'
  <2>1. curr_buf_size' <= max_buf_size
    BY <1>4, <1>5, MasterWorkerAssumption
  <2>2. QED
    BY <1>2, <1>3, <1>4, <2>1 DEF TypeOK, KindOK, Moves, Places
<1>7. WorkersLeaveLast'
  <2>1. \A w \in Workers : pc'[w] = "done" => pc[w] = "done"
    BY <1>1, <1>2 DEF Moves, Threads
  <2>2. QED
    BY <2>1 DEF WorkersLeaveLast
<1>8. ExcessReserved'
  <2>1. Committed' = Committed \ {m}
    BY <1>1, <1>2, <1>3, CommittedStep
  <2>2. item_to_produce \in Nat /\ total_items \in Nat
    BY MasterWorkerAssumption DEF TypeOK
  <2>3. CASE item_to_produce < total_items
    <3>1. Committed' \subseteq Masters \ {m}
      BY <2>1 DEF Committed
    <3>2. Cardinality(Committed') \in Nat
          /\ Cardinality(Committed') < Cardinality(Masters)
      BY <3>1, OthersCommitted
    <3>3. Cardinality(Masters) \in Nat
      BY CommittedFinite
    <3>4. item_to_produce' >= total_items => item_to_produce' = total_items
      BY <2>2, <2>3
    <3>5. QED
      BY <2>2, <3>2, <3>3, <3>4 DEF ExcessReserved
  <2>4. CASE item_to_produce >= total_items
    <3>1. m \in Committed
      BY <2>4 DEF MasterFinished, Committed
    <3>2. Cardinality(Committed') = Cardinality(Committed) - 1
      BY <2>1, <3>1, CommittedFinite, FS_RemoveElement
    <3>3. item_to_produce + Cardinality(Committed)
            < total_items + Cardinality(Masters)
      BY <2>4, <3>1 DEF ExcessReserved
    <3>4. QED
      BY <2>2, <3>2, <3>3, CommittedFinite DEF ExcessReserved
  <2>5. QED
    BY <2>2, <2>3, <2>4
<1>9. NoLostWakeup'
  <2>1. ASSUME NEW v \in Workers, pc'[v] = "not_empty"
        PROVE  \E w \in Workers : pc'[w] = Woken
    <3>1. v \in Threads /\ pc[v] = "not_empty"
      BY <1>1, <1>2, <2>1 DEF Moves, Threads
    <3>2. PICK u \in Threads : pc[u] = "not_empty" /\ pc'[u] = Woken
      BY <1>2, <3>1
    <3>3. u \in Workers
      BY <3>2 DEF TypeOK, Threads
    <3>4. QED
      BY <3>2, <3>3
  <2>2. pc'[m] = "looping"
    BY <1>2 DEF Moves
  <2>3. QED
    BY <2>1, <2>2 DEF NoLostWakeup
<1>10. PoolStep
  <2>1. Cardinality(Buffered) < max_buf_size
    BY <1>5, BufferedSize, MasterWorkerAssumption
  <2>2. Pool!Make
    BY <1>4, <2>1, PoolCardinality DEF Pool!Make
  <2>3. QED
    BY <2>2 DEF PoolStep, Pool!Next
<1>11. QED
  BY <1>4, <1>6, <1>7, <1>8, <1>9, <1>10

(* A step that commits no further master and produces nothing.             *)
LEMMA ExcessKept ==
  ASSUME TypeOK, ExcessReserved,
         Committed' \subseteq Committed, UNCHANGED item_to_produce
  PROVE  ExcessReserved'
<1>1. /\ Cardinality(Committed') <= Cardinality(Committed)
      /\ Cardinality(Committed') \in Nat
  BY CommittedFinite, FS_Subset, FS_CardinalityType
<1>2. item_to_produce \in Nat /\ total_items \in Nat
  BY MasterWorkerAssumption DEF TypeOK
<1>3. QED
  BY <1>1, <1>2, CommittedFinite DEF ExcessReserved

(* A worker that goes to sleep, or round the loop with nothing to take.    *)
LEMMA ConsumeNothingStep ==
  ASSUME IInv, NEW w \in Workers, pc[w] \in {"looping", Woken},
         NEW place \in {"not_empty", "looping"},
         place = "not_empty" => MustWaitForItem,
         pc' = [pc EXCEPT ![w] = place], curr_buf_size = 0,
         UNCHANGED <<item_to_produce, buffer, consumed>>
  PROVE  IInv' /\ PoolStep
<1> USE DEF IInv, Woken
<1>1. w \in Threads /\ w \notin Masters /\ place \in Places
  BY MasterWorkerAssumption DEF Threads, Places
<1>2. TypeOK' /\ KindOK' /\ Moves(w, place, "not_empty")
  BY <1>1, PlainMove DEF TypeOK, KindOK, Moves, Places, Threads, curr_buf_size
<1>3. Conservation'
  BY DEF Conservation, Buffered, Produced, curr_buf_size
<1>4. WorkersLeaveLast'
  BY <1>1 DEF WorkersLeaveLast, TypeOK, Threads
<1>5. ExcessReserved'
  <2>1. Committed' = Committed \ {w}
    BY <1>1, <1>2, CommittedStep
  <2>2. QED
    BY <1>1, <2>1, ExcessKept
<1>6. NoLostWakeup'
  <2>1. curr_buf_size' = 0
    BY DEF curr_buf_size
  <2>2. \A m \in Masters : pc'[m] = pc[m]
    BY <1>1 DEF TypeOK, Threads
  <2>3. QED
    BY <2>1, <2>2 DEF NoLostWakeup
<1>7. QED
  BY <1>2, <1>3, <1>4, <1>5, <1>6 DEF PoolStep, Buffered, curr_buf_size

(* A worker that takes an item.                                            *)
LEMMA ConsumeItemStep ==
  ASSUME IInv, NEW w \in Workers, pc[w] \in {"looping", Woken},
         curr_buf_size > 0,
         buffer' = SubSeq(buffer, 1, curr_buf_size - 1),
         consumed' = consumed \cup {Taken},
         NEW woken \in WokenByWorker, pc' = [woken EXCEPT ![w] = "looping"],
         UNCHANGED item_to_produce
  PROVE  IInv' /\ PoolStep
<1> USE DEF IInv, Woken
<1>1. w \in Threads /\ w \notin Masters /\ "looping" \in Places
  BY MasterWorkerAssumption DEF Threads, Places
<1>2. /\ Moves(w, "looping", "not_full")
      /\ (\E u \in Threads : pc[u] = "not_full") =>
           \E u \in Threads \ {w} : pc[u] = "not_full" /\ pc'[u] = Woken
  <2>1. SignalsAndMoves(w, "looping", "not_full") /\ pc[w] # "not_full"
    BY DEF WokenByWorker, SignalsAndMoves
  <2>2. QED
    BY <1>1, <2>1, SignalMove
<1>3. KindOK'
  BY <1>1, <1>2 DEF KindOK, Moves, TypeOK, Threads
<1>4. /\ buffer' \in Seq(Nat) /\ curr_buf_size' = curr_buf_size - 1
      /\ Taken \in Buffered /\ Taken \in Nat
      /\ Buffered' = Buffered \ {Taken}
      /\ Conservation'
  BY BufferTake
<1>5. TypeOK'
  <2>1. curr_buf_size' <= max_buf_size
    BY <1>4, MasterWorkerAssumption DEF TypeOK, curr_buf_size
  <2>2. QED
    BY <1>2, <1>3, <1>4, <2>1 DEF TypeOK, KindOK, Moves, Places
<1>6. WorkersLeaveLast'
  <2>1. \A u \in Workers : pc'[u] = "done" => pc[u] = "done"
    BY <1>1, <1>2 DEF Moves, Threads
  <2>2. QED
    BY <2>1 DEF WorkersLeaveLast
<1>7. ExcessReserved'
  <2>1. Committed' = Committed \ {w}
    BY <1>1, <1>2, <1>3, CommittedStep
  <2>2. QED
    BY <1>1, <2>1, ExcessKept
<1>8. NoLostWakeup'
  <2>1. pc'[w] = "looping"
    BY <1>2 DEF Moves
  <2>2. ASSUME NEW v \in Masters, pc'[v] = "not_full"
        PROVE  \E m \in Masters : pc'[m] = Woken
    <3>1. v \in Threads /\ pc[v] = "not_full"
      BY <1>1, <1>2, <2>2 DEF Moves, Threads
    <3>2. PICK u \in Threads : pc[u] = "not_full" /\ pc'[u] = Woken
      BY <1>2, <3>1
    <3>3. u \in Masters
      BY <3>2 DEF TypeOK, Threads
    <3>4. QED
      BY <3>2, <3>3
  <2>3. QED
    BY <2>1, <2>2 DEF NoLostWakeup
<1>9. PoolStep
  <2>1. Pool!Take
    BY <1>4 DEF Pool!Take
  <2>2. QED
    BY <2>1 DEF PoolStep, Pool!Next
<1>10. QED
  BY <1>4, <1>5, <1>6, <1>7, <1>8, <1>9

(* A thread that returns.                                                  *)
LEMMA ExitStep ==
  ASSUME IInv, NEW t \in Threads, pc[t] = "looping",
         pc' = [pc EXCEPT ![t] = "done"],
         t \in Masters => MasterFinished, t \in Workers => WorkerFinished,
         UNCHANGED <<item_to_produce, buffer, consumed>>
  PROVE  IInv' /\ PoolStep
<1> USE DEF IInv, Woken
<1>1. TypeOK' /\ KindOK' /\ Moves(t, "done", "not_full")
  BY PlainMove DEF TypeOK, KindOK, Moves, Places, Threads, curr_buf_size
<1>2. Conservation'
  BY DEF Conservation, Buffered, Produced, curr_buf_size
<1>3. WorkersLeaveLast'
  <2>1. CASE t \in Workers
    <3>1. curr_buf_size = 0 /\ item_to_produce >= total_items
      BY <2>1 DEF WorkerFinished
    <3>2. Buffered = {}
      BY <3>1 DEF Buffered
    <3>3. consumed = Produced
      BY <3>2 DEF Conservation
    <3>4. 0 .. total_items - 1 \subseteq consumed
      BY <3>1, <3>3, MasterWorkerAssumption DEF Produced, TypeOK
    <3>5. QED
      BY <3>4 DEF WorkersLeaveLast
  <2>2. CASE t \notin Workers
    BY <2>2 DEF WorkersLeaveLast, TypeOK, Threads
  <2>3. QED
    BY <2>1, <2>2
<1>4. ExcessReserved'
  <2>1. Committed' = Committed \ {t}
    BY <1>1, CommittedStep DEF Places
  <2>2. QED
    BY <2>1, ExcessKept
<1>5. NoLostWakeup'
  <2>1. CASE t \in Workers
    <3>1. curr_buf_size' = 0
      BY <2>1 DEF WorkerFinished, curr_buf_size
    <3>2. \A m \in Masters : pc'[m] = pc[m]
      BY <2>1, MasterWorkerAssumption DEF TypeOK, Threads
    <3>3. item_to_produce' >= total_items
      BY <2>1 DEF WorkerFinished
    <3>4. QED
      BY <3>1, <3>2, <3>3, MasterWorkerAssumption DEF NoLostWakeup, TypeOK
  <2>2. CASE t \in Masters
    <3>1. item_to_produce' >= total_items
      BY <2>2 DEF MasterFinished
    <3>2. \A w \in Workers : pc'[w] = pc[w]
      BY <2>2, MasterWorkerAssumption DEF TypeOK, Threads
    <3>3. ~(item_to_produce' < total_items)
      BY <3>1, MasterWorkerAssumption DEF TypeOK
    <3>4. curr_buf_size' = curr_buf_size
      BY DEF curr_buf_size
    <3>5. QED
      BY <3>2, <3>3, <3>4 DEF NoLostWakeup
  <2>3. QED
    BY <2>1, <2>2 DEF Threads
<1>6. QED
  BY <1>1, <1>2, <1>3, <1>4, <1>5 DEF PoolStep, Buffered, curr_buf_size

(* A wakeup that nobody caused.                                            *)
LEMMA SpuriousStep ==
  ASSUME IInv, Spurious
  PROVE  IInv' /\ PoolStep
<1> USE DEF IInv, Woken
<1>1. PICK t \in Threads : /\ pc[t] \in {"not_full", "not_empty"}
                           /\ pc' = [pc EXCEPT ![t] = Woken]
  BY DEF Spurious, SpuriousWakeup, TypeOK
<1>2. TypeOK' /\ KindOK' /\ Moves(t, Woken, "not_full")
  BY <1>1, PlainMove
  DEF Spurious, TypeOK, KindOK, Moves, Places, Threads, curr_buf_size
<1>3. Conservation'
  BY DEF Spurious, Conservation, Buffered, Produced, curr_buf_size
<1>4. WorkersLeaveLast'
  BY <1>1 DEF Spurious, WorkersLeaveLast, TypeOK, Threads
<1>5. ExcessReserved'
  <2>1. t \in Masters => t \in Committed
    BY <1>1 DEF TypeOK, Committed
  <2>2. Committed' \subseteq Committed
    BY <1>2, <2>1, CommittedStep DEF Places
  <2>3. QED
    BY <2>2, ExcessKept DEF Spurious
<1>6. NoLostWakeup'
  <2>1. \A u \in Threads : /\ pc'[u] \in {"not_full", "not_empty"} => pc'[u] = pc[u]
                           /\ pc[u] \in {"looping", Woken} => pc'[u] = pc[u]
    BY <1>1 DEF TypeOK
  <2>2. curr_buf_size' = curr_buf_size
    BY DEF Spurious, curr_buf_size
  <2>3. QED
    BY <2>1, <2>2 DEF NoLostWakeup, Spurious, Threads
<1>7. QED
  BY <1>2, <1>3, <1>4, <1>5, <1>6
  DEF PoolStep, Buffered, curr_buf_size, Spurious

-----------------------------------------------------------------------------
(* The invariant holds in the initial state.                               *)
THEOREM IInvInit == Init => IInv
<1> SUFFICES ASSUME Init PROVE IInv
  OBVIOUS
<1>1. TypeOK
  <2>1. buffer \in Seq(Nat) /\ curr_buf_size = 0
    BY DEF Init, curr_buf_size
  <2>2. 0 <= max_buf_size
    BY MasterWorkerAssumption
  <2>3. QED
    BY <2>1, <2>2 DEF Init, TypeOK, Threads
<1>2. Conservation
  BY DEF Init, Conservation, Buffered, Produced, curr_buf_size
<1>3. WorkersLeaveLast /\ NoLostWakeup
  BY DEF Init, WorkersLeaveLast, NoLostWakeup, Threads
<1>4. ExcessReserved
  <2>1. Committed = {}
    BY DEF Init, Committed, Threads, Woken
  <2>2. QED
    BY <2>1, MasterWorkerAssumption DEF Init, ExcessReserved
<1>5. QED
  BY <1>1, <1>2, <1>3, <1>4 DEF IInv

(* Every step preserves the invariant and is a step of the pool.           *)
THEOREM IInvStep == IInv /\ [Next]_vars => IInv' /\ PoolStep
<1> SUFFICES ASSUME IInv, [Next]_vars PROVE IInv' /\ PoolStep
  OBVIOUS
<1>1. ASSUME NEW m \in Masters, Produce(m) PROVE IInv' /\ PoolStep
  <2>1. CASE MustWaitForRoom(m)
    BY <1>1, <2>1, ProduceWaitStep DEF Produce
  <2>2. CASE ~MustWaitForRoom(m)
    BY <1>1, <2>2, ProduceItemStep DEF Produce
  <2>3. QED
    BY <2>1, <2>2
<1>2. ASSUME NEW w \in Workers, Consume(w) PROVE IInv' /\ PoolStep
  <2>1. CASE /\ MustWaitForItem
             /\ pc' = [pc EXCEPT ![w] = "not_empty"]
             /\ UNCHANGED <<item_to_produce, buffer, consumed>>
    <3>1. curr_buf_size = 0
      BY <2>1 DEF MustWaitForItem
    <3>2. QED
      BY <1>2, <2>1, <3>1, ConsumeNothingStep DEF Consume
  <2>2. CASE /\ curr_buf_size > 0
             /\ buffer' = SubSeq(buffer, 1, curr_buf_size - 1)
             /\ consumed' = consumed \cup {Taken}
             /\ \E woken \in WokenByWorker :
                  pc' = [woken EXCEPT ![w] = "looping"]
             /\ UNCHANGED item_to_produce
    BY <1>2, <2>2, ConsumeItemStep DEF Consume
  <2>3. CASE /\ curr_buf_size = 0 /\ ~MustWaitForItem
             /\ pc' = [pc EXCEPT ![w] = "looping"]
             /\ UNCHANGED <<item_to_produce, buffer, consumed>>
    BY <1>2, <2>3, ConsumeNothingStep DEF Consume
  <2>4. QED
    BY <1>2, <2>1, <2>2, <2>3 DEF Consume
<1>3. ASSUME NEW m \in Masters, MasterExit(m) PROVE IInv' /\ PoolStep
  <2>1. m \in Threads /\ m \notin Workers
    BY MasterWorkerAssumption DEF Threads
  <2>2. QED
    BY <1>3, <2>1, ExitStep DEF MasterExit
<1>4. ASSUME NEW w \in Workers, WorkerExit(w) PROVE IInv' /\ PoolStep
  <2>1. w \in Threads /\ w \notin Masters
    BY MasterWorkerAssumption DEF Threads
  <2>2. QED
    BY <1>4, <2>1, ExitStep DEF WorkerExit
<1>5. CASE Spurious
  BY <1>5, SpuriousStep
<1>6. CASE UNCHANGED vars
  <2>1. curr_buf_size' = curr_buf_size /\ Committed' = Committed
    BY <1>6 DEF vars, curr_buf_size, Committed
  <2>2. Buffered' = Buffered /\ Produced' = Produced
    BY <1>6 DEF vars, Buffered, Produced, curr_buf_size
  <2>3. TypeOK' /\ WorkersLeaveLast' /\ ExcessReserved' /\ NoLostWakeup'
    BY <1>6, <2>1 DEF vars, IInv, TypeOK, WorkersLeaveLast, ExcessReserved,
                      NoLostWakeup
  <2>4. Conservation'
    BY <1>6, <2>1, <2>2 DEF vars, IInv, Conservation
  <2>5. QED
    BY <1>6, <2>2, <2>3, <2>4 DEF vars, IInv, PoolStep
<1>7. QED
  BY <1>1, <1>2, <1>3, <1>4, <1>5, <1>6 DEF Next

(* The invariant the following theorems rest on always holds.              *)
THEOREM IInvAlways == Spec => []IInv
<1>1. IInv /\ [Next]_vars => IInv'
  BY IInvStep
<1>2. QED
  BY <1>1, IInvInit, PTL DEF Spec

(* The variables keep their types; in particular buffer[curr_buf_size] is  *)
(* never written beyond max_buf_size.                                      *)
THEOREM TypeCorrect == Spec => []TypeOK
<1>1. IInv => TypeOK
  BY DEF IInv
<1>2. QED
  BY <1>1, IInvAlways, PTL

(* No item is lost, duplicated or consumed twice.                          *)
THEOREM ItemsAreConserved == Spec => []Conservation
<1>1. IInv => Conservation
  BY DEF IInv
<1>2. QED
  BY <1>1, IInvAlways, PTL

(* The buffer stays within its bounds and the items are conserved: PoolInv.*)
THEOREM PoolInvariant == Spec => []PoolInv
<1>1. IInv => PoolInv
  BY DEF IInv, PoolInv
<1>2. QED
  BY <1>1, IInvAlways, PTL

(* A worker that has left leaves no asked-for item behind.                 *)
THEOREM WorkersLeaveNothing == Spec => []WorkersLeaveLast
<1>1. IInv => WorkersLeaveLast
  BY DEF IInv
<1>2. QED
  BY <1>1, IInvAlways, PTL

(* No needed wakeup is lost, for any number of threads and slots.          *)
THEOREM WakeupsAreNotLost == Spec => []NoLostWakeup
<1>1. IInv => NoLostWakeup
  BY DEF IInv
<1>2. QED
  BY <1>1, IInvAlways, PTL

(* At most num_masters - 1 items too many are made.                        *)
THEOREM ExcessIsBounded == Spec => []OverproductionBound
<1>1. IInv => OverproductionBound
  <2> SUFFICES ASSUME IInv, item_to_produce > total_items
               PROVE  item_to_produce < total_items + Cardinality(Masters)
    BY DEF OverproductionBound
  <2>1. item_to_produce \in Nat /\ total_items \in Nat
    BY MasterWorkerAssumption DEF IInv, TypeOK
  <2>2. item_to_produce + Cardinality(Committed)
          < total_items + Cardinality(Masters)
    BY <2>1 DEF IInv, ExcessReserved
  <2>3. QED
    BY <2>1, <2>2, CommittedFinite
<1>2. QED
  BY <1>1, IInvAlways, PTL

(* The program implements the pool of work.                                *)
THEOREM ProgramImplementsWorkPool == Spec => RefinesWorkPool
<1>1. Init => Pool!Init
  BY DEF Init, Pool!Init, Buffered, curr_buf_size
<1>2. IInv /\ [Next]_vars => [Pool!Next]_(Pool!vars)
  BY IInvStep DEF PoolStep, Pool!vars
<1>3. QED
  BY <1>1, <1>2, IInvAlways, PTL DEF Spec, RefinesWorkPool, Pool!Spec
=============================================================================
