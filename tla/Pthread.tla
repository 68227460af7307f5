------------------------------ MODULE Pthread ------------------------------
(***************************************************************************)
(* The part of POSIX threads the synchronization labs build on (external:  *)
(* modelled from how pthreads-sync-code calls it).                         *)
(*                                                                         *)
(* All the shared variables of these programs are read and written with    *)
(* the program's one mutex held.  What a thread does between getting the   *)
(* mutex (pthread_mutex_lock, or the return of pthread_cond_wait) and      *)
(* giving it up (pthread_mutex_unlock, or the next pthread_cond_wait) is   *)
(* therefore one atomic step, and the mutex itself needs no variable: the  *)
(* order of the steps is the order in which the mutex is granted.          *)
(*                                                                         *)
(* A function at, from threads to places, says where each thread is        *)
(* between two such steps.  The name of a condition variable is the place  *)
(* of the threads asleep on it; Woken is the place of a thread that left   *)
(* pthread_cond_wait's queue and competes for the mutex with every other   *)
(* thread: nothing it waited for needs to hold any more when it gets it.   *)
(***************************************************************************)

Woken == "woken"

Sleepers(at, cond) == {t \in DOMAIN at : at[t] = cond}

(* pthread_cond_signal: one sleeper, of the implementation's choice, is    *)
(* woken; the signal is lost when nobody sleeps.  The set of outcomes.     *)
Signal(at, cond) ==
  IF Sleepers(at, cond) = {}
  THEN {at}
  ELSE {[at EXCEPT ![t] = Woken] : t \in Sleepers(at, cond)}

(* pthread_cond_broadcast: every sleeper is woken.                         *)
Broadcast(at, cond) ==
  [t \in DOMAIN at |-> IF at[t] = cond THEN Woken ELSE at[t]]

(* POSIX lets pthread_cond_wait return without any signal.                 *)
SpuriousWakeup(at, conds) ==
  {[at EXCEPT ![t] = Woken] : t \in {u \in DOMAIN at : at[u] \in conds}}
=============================================================================
