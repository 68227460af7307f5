----------------------------- MODULE Zemaphore -----------------------------
(***************************************************************************)
(* pthreads-sync-code/zemaphore/zemaphore.c: a counting semaphore made of  *)
(* a counter, a mutex and a condition variable.  The modules of its users  *)
(* extend this one.                                                        *)
(*                                                                         *)
(* at[t] is "running" while thread t is not inside pthread_cond_wait, the  *)
(* zemaphore's name while it is asleep on that zemaphore's cond, and Woken *)
(* until it has the mutex again.                                           *)
(***************************************************************************)
EXTENDS Integers, FiniteSets, Pthread

VARIABLES
  count,      \* s->count, for each zemaphore
  at          \* where each thread is

(* zem_init(&s, 0) of every zemaphore, and zem_up of those in the domain   *)
(* of raised, as often as it says, before any thread uses them.            *)
zem_init(zems, raised, threads) ==
  /\ count = [s \in zems |-> IF s \in DOMAIN raised THEN raised[s] ELSE 0]
  /\ at = [t \in threads |-> "running"]

MustSleep_OffByOne(s) == count[s] < 0  \* faulty
MustSleep(s) == count[s] <= 0

(* zem_down sleeps at most once: it tests the counter with an if, so that  *)
(* a thread that wakes up takes the zemaphore whatever the counter says.   *)
zem_down(t, s) ==
  \/ /\ at[t] = "running" /\ MustSleep(s)
     /\ at' = [at EXCEPT ![t] = s]
     /\ UNCHANGED count
  \/ /\ \/ at[t] = "running" /\ ~MustSleep(s)
        \/ at[t] = Woken
     /\ count' = [count EXCEPT ![s] = @ - 1]
     /\ at' = [at EXCEPT ![t] = "running"]

(* t's call of zem_down has returned, in the state after the step.         *)
Returned(t) == at'[t] = "running"

zem_up_NoSignal(s) ==  \* faulty
  /\ count' = [count EXCEPT ![s] = @ + 1]
  /\ UNCHANGED at

zem_up(s) ==
  /\ count' = [count EXCEPT ![s] = @ + 1]
  /\ at' \in Signal(at, s)
=============================================================================
