------------------------------- MODULE Barber -------------------------------
(***************************************************************************)
(* pthreads-sync-code/own-sync-problem/barber-cv.c: customers take one of  *)
(* a few chairs or leave; the barber calls a waiting customer and sleeps   *)
(* when there is none.  sleep() is any delay.                              *)
(*                                                                         *)
(* The barber's own place is pc[barber]: "looping" at the top of while (1),*)
(* "cutting" in sleep(2), customer_arrived while asleep.  A customer is    *)
(* "coming", then asleep on barber_ready, then "served", or has "left".    *)
(***************************************************************************)
EXTENDS Integers, FiniteSets, Pthread

CONSTANTS
  Customers,          \* the MAX_CUSTOMERS threads that run customer
  barber,             \* the thread that runs barber
  chairs,
  SpuriousWakeups     \* TRUE: pthread_cond_wait may return unsignalled

ASSUME BarberAssumption ==
  /\ IsFiniteSet(Customers) /\ barber \notin Customers
  /\ chairs \in Nat
  /\ SpuriousWakeups \in BOOLEAN

VARIABLES
  waiting_customers,  \* int: chairs taken
  haircuts,           \* how often "Barber is cutting hair" was printed
  pc,                 \* where each thread is
  unsignalled         \* history: how many customers' waits have returned
                      \* without a signal

barberVars == <<waiting_customers, haircuts, pc, unsignalled>>

Threads == Customers \cup {barber}

BarberInit ==
  /\ waiting_customers = 0
  /\ haircuts = 0
  /\ pc = [t \in Threads |-> IF t = barber THEN "looping" ELSE "coming"]
  /\ unsignalled = 0

-----------------------------------------------------------------------------
(* barber: waiting_customers is tested again after every wakeup.           *)
NothingToDo == waiting_customers = 0

BarberSleeps ==
  /\ pc[barber] \in {"looping", Woken}
  /\ NothingToDo
  /\ pc' = [pc EXCEPT ![barber] = "customer_arrived"]
  /\ UNCHANGED <<waiting_customers, haircuts, unsignalled>>

CalledIn_Everybody == {Broadcast(pc, "barber_ready")}  \* faulty
CalledIn == Signal(pc, "barber_ready")

BarberCuts ==
  /\ pc[barber] \in {"looping", Woken}
  /\ ~NothingToDo
  /\ waiting_customers' = waiting_customers - 1
  /\ haircuts' = haircuts + 1
  /\ \E called \in CalledIn : pc' = [called EXCEPT ![barber] = "cutting"]
  /\ UNCHANGED unsignalled

(* sleep(2) and round the loop.                                            *)
HaircutEnds ==
  /\ pc[barber] = "cutting"
  /\ pc' = [pc EXCEPT ![barber] = "looping"]
  /\ UNCHANGED <<waiting_customers, haircuts, unsignalled>>

-----------------------------------------------------------------------------
(* customer: one wait, not in a loop.                                      *)
WokenByCustomer_Nobody == {pc}  \* faulty
WokenByCustomer == Signal(pc, "customer_arrived")

CustomerWaits(c) ==
  /\ pc[c] = "coming"
  /\ waiting_customers < chairs
  /\ waiting_customers' = waiting_customers + 1
  /\ \E woken \in WokenByCustomer : pc' = [woken EXCEPT ![c] = "barber_ready"]
  /\ UNCHANGED <<haircuts, unsignalled>>

CustomerLeaves(c) ==
  /\ pc[c] = "coming"
  /\ waiting_customers >= chairs
  /\ pc' = [pc EXCEPT ![c] = "left"]
  /\ UNCHANGED <<waiting_customers, haircuts, unsignalled>>

(* "Customer %d is getting a haircut."                                     *)
CustomerServed(c) ==
  /\ c \in Customers /\ pc[c] = Woken
  /\ pc' = [pc EXCEPT ![c] = "served"]
  /\ UNCHANGED <<waiting_customers, haircuts, unsignalled>>

Spurious ==
  /\ SpuriousWakeups
  /\ pc' \in SpuriousWakeup(pc, {"customer_arrived", "barber_ready"})
  /\ unsignalled' = IF pc'[barber] = pc[barber] THEN unsignalled + 1 ELSE unsignalled
  /\ UNCHANGED <<waiting_customers, haircuts>>

-----------------------------------------------------------------------------
Barbers == BarberSleeps \/ BarberCuts \/ HaircutEnds
Visits(c) == CustomerWaits(c) \/ CustomerLeaves(c) \/ CustomerServed(c)

BarberNext ==
  \/ Barbers
  \/ \E c \in Customers : Visits(c)
  \/ Spurious

BarberSpec == BarberInit /\ [][BarberNext]_barberVars

(* Every thread that is not asleep gets the mutex in the end.              *)
BarberFairSpec ==
  /\ BarberSpec
  /\ WF_barberVars(Barbers)
  /\ \A c \in Customers : WF_barberVars(Visits(c))

-----------------------------------------------------------------------------
Seated == {c \in Customers : pc[c] = "barber_ready"}
Called == {c \in Customers : pc[c] \in {Woken, "served"}}

BarberTypeOK ==
  /\ waiting_customers \in 0 .. chairs
  /\ haircuts \in Nat
  /\ unsignalled \in Nat
  /\ pc \in [Threads -> {"looping", "cutting", "customer_arrived", Woken,
                         "coming", "barber_ready", "served", "left"}]
  /\ pc[barber] \in {"looping", "cutting", "customer_arrived", Woken}
  /\ \A c \in Customers :
       pc[c] \in {"coming", "barber_ready", Woken, "served", "left"}

(* A customer holds a chair from the moment it is counted until the barber *)
(* calls it: the counter is the number of customers asleep, although it is *)
(* raised by one thread and lowered by another.  A customer whose wait     *)
(* returns without a signal leaves a chair counted that is empty, no more  *)
(* than one, and no chair that is taken goes uncounted.                    *)
ChairsExact ==
  /\ waiting_customers >= Cardinality(Seated)
  /\ waiting_customers <= Cardinality(Seated) + unsignalled

(* Whoever has sat down is still counted in a chair or has had a haircut   *)
(* cut for him, signalled or not, and nobody twice.  So the barber cuts    *)
(* hair at most once for each customer that has got up, and exactly once   *)
(* when all were signalled.                                                *)
HaircutsExact == haircuts + waiting_customers = Cardinality(Seated) + Cardinality(Called)

(* The barber does not sleep while somebody waits, spurious wakeups or not.*)
BarberAwake == pc[barber] = "customer_arrived" => waiting_customers = 0

(* The invariant of the shop: both counters say what the threads do, up to *)
(* the waits that return without a signal, and nobody in a chair waits for *)
(* a barber who is asleep.                                                 *)
BarberInv == BarberTypeOK /\ ChairsExact /\ HaircutsExact /\ BarberAwake

(* Every customer's thread returns, so that main can join it, spurious     *)
(* wakeups or not.                                                         *)
AllCustomersJoined == <>(\A c \in Customers : pc[c] \in {"served", "left"})
=============================================================================
