------------------------------- MODULE RWLock -------------------------------
(***************************************************************************)
(* The reader-writer lock of pthreads-sync-code/rwlock: rwlock.h and its   *)
(* two implementations.  rwlock-reader-pref.cpp and rwlock-writer-pref.cpp *)
(* share the text of InitalizeReadWriteLock, ReaderUnlock and WriterLock   *)
(* and differ in ReaderLock's condition and in WriterUnlock;               *)
(* test-rwlock.sh links one of them, which is what preference says.        *)
(* Threads are those of test-reader-pref.cpp and test-writer-pref.cpp:     *)
(* lock, work, unlock, return; with Reenter, clients that may call again.  *)
(***************************************************************************)
EXTENDS Integers, FiniteSets, Pthread

CONSTANTS
  Readers,           \* the threads that run Reader of the test programs
  Writers,           \* the threads that run Writer
  Reenter,           \* TRUE: an unlocked thread may call the lock again
  SpuriousWakeups    \* TRUE: pthread_cond_wait may return without a signal

ASSUME RWLockAssumption ==
  /\ IsFiniteSet(Readers) /\ IsFiniteSet(Writers)
  /\ Readers \cap Writers = {}
  /\ Reenter \in BOOLEAN
  /\ SpuriousWakeups \in BOOLEAN

VARIABLES
  preference,        \* "reader" or "writer": the .cpp file that is linked
  readers,           \* int: active readers
  writers_waiting,   \* int: writers inside WriterLock that have not got it
  writer_active,     \* int: 1 while a writer is active
  pc                 \* where each thread is

lockVars == <<preference, readers, writers_waiting, writer_active>>
vars == <<preference, readers, writers_waiting, writer_active, pc>>

Threads == Readers \cup Writers

(* Where a thread goes when its unlock returns.                            *)
AfterUnlock == IF Reenter THEN "idle" ELSE "done"

(* InitalizeReadWriteLock, before the test creates its threads.            *)
Init ==
  /\ preference \in {"reader", "writer"}
  /\ readers = 0
  /\ writers_waiting = 0
  /\ writer_active = 0
  /\ pc = [t \in Threads |-> "idle"]

-----------------------------------------------------------------------------
(* The loop conditions.                                                    *)

ReaderMustWait_ReaderPref == writer_active # 0

ReaderMustWait_WriterPref_Barge == writer_active # 0      \* faulty
ReaderMustWait_WriterPref_NoActive == writers_waiting > 0  \* faulty
ReaderMustWait_WriterPref == writer_active # 0 \/ writers_waiting > 0

ReaderMustWait ==
  IF preference = "reader" THEN ReaderMustWait_ReaderPref
                           ELSE ReaderMustWait_WriterPref

WriterMustWait_IgnoresReaders == writer_active # 0  \* faulty
WriterMustWait == writer_active # 0 \/ readers > 0

-----------------------------------------------------------------------------
(* ReaderLock: from its call, and from each return of pthread_cond_wait,   *)
(* to the next wait or to its return.                                      *)
ReaderLock(t) ==
  /\ t \in Readers /\ pc[t] \in {"idle", Woken}
  /\ \/ /\ ReaderMustWait
        /\ pc' = [pc EXCEPT ![t] = "readers_ok"]
        /\ UNCHANGED lockVars
     \/ /\ ~ReaderMustWait
        /\ readers' = readers + 1
        /\ pc' = [pc EXCEPT ![t] = "reading"]
        /\ UNCHANGED <<preference, writers_waiting, writer_active>>

ReaderUnlock_NoSignal(t) ==  \* faulty
  /\ pc[t] = "reading"
  /\ readers' = readers - 1
  /\ pc' = [pc EXCEPT ![t] = AfterUnlock]
  /\ UNCHANGED <<preference, writers_waiting, writer_active>>

ReaderUnlock(t) ==
  /\ pc[t] = "reading"
  /\ readers' = readers - 1
  /\ \E woken \in IF readers' = 0 THEN Signal(pc, "writers_ok") ELSE {pc} :
       pc' = [woken EXCEPT ![t] = AfterUnlock]
  /\ UNCHANGED <<preference, writers_waiting, writer_active>>

Announced_Again(t) == writers_waiting + 1  \* faulty
Announced_Never(t) == writers_waiting      \* faulty

(* writers_waiting with t's own wait in it: counted once, before the loop. *)
Announced(t) == IF pc[t] = "idle" THEN writers_waiting + 1 ELSE writers_waiting

(* WriterLock, likewise.                                                   *)
WriterLock(t) ==
  /\ t \in Writers /\ pc[t] \in {"idle", Woken}
  /\ \/ /\ WriterMustWait
        /\ writers_waiting' = Announced(t)
        /\ pc' = [pc EXCEPT ![t] = "writers_ok"]
        /\ UNCHANGED <<preference, readers, writer_active>>
     \/ /\ ~WriterMustWait
        /\ writers_waiting' = Announced(t) - 1
        /\ writer_active' = 1
        /\ pc' = [pc EXCEPT ![t] = "writing"]
        /\ UNCHANGED <<preference, readers>>

WokenByWriter_ReadersOnly == {Broadcast(pc, "readers_ok")}  \* faulty

(* WriterUnlock, reader preference: every reader is woken and, as readers  *)
(* is 0, one writer too.                                                   *)
WokenByWriter_ReaderPref ==
  IF readers = 0 THEN Signal(Broadcast(pc, "readers_ok"), "writers_ok")
                 ELSE {Broadcast(pc, "readers_ok")}

(* WriterUnlock, writer preference: a waiting writer if there is one,      *)
(* otherwise every reader.                                                 *)
WokenByWriter_WriterPref ==
  IF writers_waiting > 0 THEN Signal(pc, "writers_ok")
                         ELSE {Broadcast(pc, "readers_ok")}

WokenByWriter ==
  IF preference = "reader" THEN WokenByWriter_ReaderPref
                           ELSE WokenByWriter_WriterPref

WriterUnlock(t) ==
  /\ pc[t] = "writing"
  /\ writer_active' = 0
  /\ \E woken \in WokenByWriter : pc' = [woken EXCEPT ![t] = AfterUnlock]
  /\ UNCHANGED <<preference, readers, writers_waiting>>

Spurious ==
  /\ SpuriousWakeups
  /\ pc' \in SpuriousWakeup(pc, {"readers_ok", "writers_ok"})
  /\ UNCHANGED lockVars

-----------------------------------------------------------------------------
Step(t) ==
  \/ ReaderLock(t)
  \/ ReaderUnlock(t)
  \/ WriterLock(t)
  \/ WriterUnlock(t)

Next == Spurious \/ \E t \in Threads : Step(t)

Spec == Init /\ [][Next]_vars

-----------------------------------------------------------------------------
(* Fairness.  A thread that is between lock and unlock gets on with it,    *)
(* and no thread that competes for the mutex inside a call is passed over  *)
(* for ever.  Calling the lock, and waking up unsignalled, is not assumed. *)
Busy(t) == pc[t] \in {"reading", "writing", Woken} /\ Step(t)

FairSpec == Spec /\ \A t \in Threads : WF_vars(Busy(t))

-----------------------------------------------------------------------------
(* Invariants.                                                             *)

Inside(place) == {t \in Threads : pc[t] = place}

TypeOK ==
  /\ preference \in {"reader", "writer"}
  /\ readers \in Nat
  /\ writers_waiting \in Nat
  /\ writer_active \in {0, 1}
  /\ pc \in [Threads -> {"idle", "readers_ok", "writers_ok", Woken,
                         "reading", "writing", "done"}]
  /\ \A t \in Readers : pc[t] \notin {"writers_ok", "writing"}
  /\ \A t \in Writers : pc[t] \notin {"readers_ok", "reading"}

(* The three counters agree with what the threads are really doing:        *)
(* readers++/-- , writers_waiting++/-- and writer_active, which are        *)
(* updated in different functions and in different turns of the loops.     *)
CountersExact ==
  /\ readers = Cardinality(Inside("reading"))
  /\ writer_active = Cardinality(Inside("writing"))
  /\ writers_waiting =
       Cardinality({t \in Writers : pc[t] \in {"writers_ok", Woken}})

(* A thread between WriterLock and WriterUnlock is alone inside: "No       *)
(* reader/ writer is allowed when a writer holds lock", as both test       *)
(* programs print.                                                         *)
MutualExclusion ==
  \A w \in Inside("writing") :
    \A t \in Threads \ {w} : pc[t] \notin {"reading", "writing"}

(* The invariant of the lock: types, counters and exclusion.               *)
LockInv == TypeOK /\ CountersExact /\ MutualExclusion

(* Nobody sleeps on a condition variable with no one left to signal it: a  *)
(* sleeping writer has an active thread, or another writer already woken,  *)
(* before it; a sleeping reader has a writer that it must wait for.        *)
NoLostWakeup ==
  /\ Inside("writers_ok") # {} =>
       \/ readers > 0 \/ writer_active = 1
       \/ \E t \in Writers : pc[t] = Woken
  /\ Inside("readers_ok") # {} => ReaderMustWait

-----------------------------------------------------------------------------
(* Action properties.                                                      *)

(* With writer preference, a reader gets in (ReaderLock returns) only when *)
(* no writer is waiting inside WriterLock, asleep or already woken.        *)
WriterPreference ==
  [][preference = "writer" =>
     \A r \in Readers : pc[r] # "reading" /\ pc'[r] = "reading" =>
       \A w \in Writers : pc[w] \notin {"writers_ok", Woken}]_vars

(* The lock implements the abstract reader-writer lock.                    *)
RW == INSTANCE ReadersWriters WITH reading <- Inside("reading"),
                                   writing <- Inside("writing")
RefinesReadersWriters == RW!Spec

-----------------------------------------------------------------------------
(* Liveness.                                                               *)

(* A call of ReaderLock or WriterLock hangs only while other threads call  *)
(* the lock again and again: a thread that has called gets the lock and    *)
(* gives it back, or is overtaken for ever by newcomers.                   *)
EveryCallReturns ==
  \A t \in Threads :
    \/ []<>(pc[t] \in {"idle", "done"})
    \/ []<><<\E u \in Threads \ {t} : pc[u] = "idle" /\ pc'[u] # "idle">>_vars

(* With writer preference, readers that keep coming cannot starve the      *)
(* writers: whenever writers wait, one of them gets in.                    *)
WritersProgress ==
  preference = "writer" /\ writers_waiting > 0 ~> writer_active = 1
=============================================================================
