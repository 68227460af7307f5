---------------------------- MODULE MasterWorker ----------------------------
(***************************************************************************)
(* pthreads-sync-code/master-worker/master-worker.c: masters put the items *)
(* 0, 1, 2, ... in a bounded buffer used as a stack, workers take them out *)
(* (the other side of one mutex, two condition variables).                 *)
(*                                                                         *)
(* A thread's place is "looping" when it is about to lock the mutex at the *)
(* top of its while (1), not_full or not_empty while it is asleep there,   *)
(* Woken inside that wait's loop, and "done" once it has returned.         *)
(***************************************************************************)
EXTENDS Integers, Sequences, FiniteSets, Pthread

CONSTANTS
  Masters, Workers,        \* the threads main creates
  total_items,             \* argv[1]
  max_buf_size,            \* argv[2]
  SpuriousWakeups          \* TRUE: pthread_cond_wait may return unsignalled

ASSUME MasterWorkerAssumption ==
  /\ IsFiniteSet(Masters) /\ IsFiniteSet(Workers)
  /\ Masters \cap Workers = {}
  /\ total_items \in Nat /\ max_buf_size \in Nat
  /\ SpuriousWakeups \in BOOLEAN

VARIABLES
  item_to_produce,         \* int: the next item's number
  buffer,                  \* buffer[0 .. curr_buf_size - 1]
  consumed,                \* the items printed by print_consumed
  pc                       \* where each thread is

vars == <<item_to_produce, buffer, consumed, pc>>

Threads == Masters \cup Workers

curr_buf_size == Len(buffer)

Init ==
  /\ item_to_produce = 0
  /\ buffer = <<>>
  /\ consumed = {}
  /\ pc = [t \in Threads |-> "looping"]

-----------------------------------------------------------------------------
(* generate_requests_loop.                                                 *)

MasterFinished_OffByOne == item_to_produce > total_items  \* faulty
MasterFinished == item_to_produce >= total_items

MustWaitForRoom_OnlyOnce(m) == pc[m] = "looping" /\ curr_buf_size >= max_buf_size  \* faulty
MustWaitForRoom(m) == curr_buf_size >= max_buf_size

WokenByMaster_WrongCondition == Signal(pc, "not_full")  \* faulty
WokenByMaster == Signal(pc, "not_empty")

(* From the top of the loop, where item_to_produce is checked, or from a   *)
(* wakeup, after which it is not: to the wait or to the next turn.         *)
Produce(m) ==
  /\ m \in Masters /\ pc[m] \in {"looping", Woken}
  /\ pc[m] = "looping" => ~MasterFinished
  /\ \/ /\ MustWaitForRoom(m)
        /\ pc' = [pc EXCEPT ![m] = "not_full"]
        /\ UNCHANGED <<item_to_produce, buffer, consumed>>
     \/ /\ ~MustWaitForRoom(m)
        /\ buffer' = Append(buffer, item_to_produce)
        /\ item_to_produce' = item_to_produce + 1
        /\ \E woken \in WokenByMaster : pc' = [woken EXCEPT ![m] = "looping"]
        /\ UNCHANGED consumed

MasterExit(m) ==
  /\ m \in Masters /\ pc[m] = "looping"
  /\ MasterFinished
  /\ pc' = [pc EXCEPT ![m] = "done"]
  /\ UNCHANGED <<item_to_produce, buffer, consumed>>

-----------------------------------------------------------------------------
(* consume_request.                                                        *)

WorkerFinished_EmptyOnly == curr_buf_size = 0  \* faulty
WorkerFinished == curr_buf_size = 0 /\ item_to_produce >= total_items

MustWaitForItem == curr_buf_size = 0 /\ item_to_produce < total_items

WokenByWorker_Nobody == {pc}  \* faulty
WokenByWorker == Signal(pc, "not_full")

Taken_First == buffer[1]  \* faulty
(* The item read from the buffer, the last one put in.                     *)
Taken == buffer[curr_buf_size]

(* From the top of the loop or from a wakeup to the next wait or turn.  A  *)
(* worker that wakes up with nothing to take and nothing to wait for goes  *)
(* round the loop.                                                         *)
Consume(w) ==
  /\ w \in Workers /\ pc[w] \in {"looping", Woken}
  /\ pc[w] = "looping" => ~WorkerFinished
  /\ \/ /\ MustWaitForItem
        /\ pc' = [pc EXCEPT ![w] = "not_empty"]
        /\ UNCHANGED <<item_to_produce, buffer, consumed>>
     \/ /\ curr_buf_size > 0
        /\ buffer' = SubSeq(buffer, 1, curr_buf_size - 1)
        /\ consumed' = consumed \cup {Taken}
        /\ \E woken \in WokenByWorker : pc' = [woken EXCEPT ![w] = "looping"]
        /\ UNCHANGED item_to_produce
     \/ /\ curr_buf_size = 0 /\ ~MustWaitForItem
        /\ pc' = [pc EXCEPT ![w] = "looping"]
        /\ UNCHANGED <<item_to_produce, buffer, consumed>>

WorkerExit(w) ==
  /\ w \in Workers /\ pc[w] = "looping"
  /\ WorkerFinished
  /\ pc' = [pc EXCEPT ![w] = "done"]
  /\ UNCHANGED <<item_to_produce, buffer, consumed>>

Spurious ==
  /\ SpuriousWakeups
  /\ pc' \in SpuriousWakeup(pc, {"not_full", "not_empty"})
  /\ UNCHANGED <<item_to_produce, buffer, consumed>>

-----------------------------------------------------------------------------
Next ==
  \/ Spurious
  \/ \E m \in Masters : Produce(m) \/ MasterExit(m)
  \/ \E w \in Workers : Consume(w) \/ WorkerExit(w)

Spec == Init /\ [][Next]_vars

(* Every thread that is not asleep gets the mutex in the end.              *)
FairSpec ==
  /\ Spec
  /\ \A m \in Masters : WF_vars(Produce(m) \/ MasterExit(m))
  /\ \A w \in Workers : WF_vars(Consume(w) \/ WorkerExit(w))

-----------------------------------------------------------------------------
(* Invariants.                                                             *)

Buffered == {buffer[i] : i \in 1 .. curr_buf_size}
Produced == 0 .. item_to_produce - 1

(* The masters past the check of item_to_produce that have yet to produce. *)
Committed == {m \in Masters : pc[m] \in {"not_full", Woken}}

TypeOK ==
  /\ item_to_produce \in Nat
  /\ buffer \in Seq(Nat)
  /\ curr_buf_size <= max_buf_size
  /\ consumed \subseteq Nat
  /\ pc \in [Threads -> {"looping", "not_full", "not_empty", Woken, "done"}]
  /\ \A m \in Masters : pc[m] # "not_empty"
  /\ \A w \in Workers : pc[w] # "not_full"

(* Nothing is lost and nothing is handed out twice: every produced item is *)
(* in one slot of the buffer or has been consumed, never both.             *)
Conservation ==
  /\ Buffered \cup consumed = Produced
  /\ Buffered \cap consumed = {}
  /\ \A i, j \in 1 .. curr_buf_size : i # j => buffer[i] # buffer[j]

(* The invariant of the pool: a buffer within its bounds, items conserved. *)
PoolInv == TypeOK /\ Conservation

(* "If nothing to consume and production is done, exit": when a worker has *)
(* left, every item that was asked for has been consumed.                  *)
WorkersLeaveLast ==
  (\E w \in Workers : pc[w] = "done") => 0 .. total_items - 1 \subseteq consumed

(* A master that slept on not_full does not look at item_to_produce again, *)
(* so more than total_items items are made; but never one per master more. *)
OverproductionBound ==
  item_to_produce > total_items =>
    item_to_produce < total_items + Cardinality(Masters)

(* No wakeup that is still needed is lost: while there is an item to take, *)
(* the workers are not all asleep or gone; while there is room and there   *)
(* are items to make, the masters are not all asleep.                      *)
NoLostWakeup ==
  /\ curr_buf_size > 0 /\ (\E w \in Workers : pc[w] = "not_empty") =>
       \E w \in Workers : pc[w] \in {"looping", Woken}
  /\ curr_buf_size < max_buf_size /\ item_to_produce < total_items
       /\ (\E m \in Masters : pc[m] = "not_full") =>
       \E m \in Masters : pc[m] \in {"looping", Woken}

(* The program implements a pool from which each item is taken once.       *)
Pool == INSTANCE WorkPool WITH Size <- max_buf_size, made <- item_to_produce,
                               pool <- Buffered, taken <- consumed
RefinesWorkPool == Pool!Spec

-----------------------------------------------------------------------------
(* Liveness.                                                               *)

(* Every item asked for is consumed in the end.                            *)
AllItemsConsumed == <>(0 .. total_items - 1 \subseteq consumed)

(* Both of main's join loops come to an end: "Join all threads".           *)
AllThreadsJoined == <>(\A t \in Threads : pc[t] = "done")
=============================================================================
