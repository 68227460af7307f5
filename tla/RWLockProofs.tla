---------------------------- MODULE RWLockProofs ----------------------------
(***************************************************************************)
(* Theorems about RWLock, for every finite set of threads and for both     *)
(* implementations of the lock.                                            *)
(***************************************************************************)
EXTENDS RWLock, FiniteSetTheorems, TLAPS

Places == {"idle", "readers_ok", "writers_ok", Woken,
           "reading", "writing", "done"}

(* The writers that writers_waiting counts.                                *)
Queued == {t \in Writers : pc[t] \in {"writers_ok", Woken}}

(* The conjunct that makes the counters' agreement inductive: the lock's   *)
(* own state never admits readers beside a writer.                         *)
Exclusive == readers > 0 => writer_active = 0

IInv == TypeOK /\ CountersExact /\ Exclusive /\ NoLostWakeup

-----------------------------------------------------------------------------
(* What signals and broadcasts do, for every set of threads and places:    *)
(* they move sleepers to Woken and nobody else; a signal with a sleeper    *)
(* wakes one, a broadcast leaves none asleep.  And how threads are counted.*)

(* w is at after some of the threads asleep on conds have been woken.      *)
WakesSome(threads, places, at, w, conds) ==
  /\ w \in [threads -> places]
  /\ \A u \in threads :
       w[u] = at[u] \/ (at[u] \in conds /\ w[u] = Woken)

(* pthread_cond_signal never loses its effect on a thread that sleeps.     *)
LEMMA SignalWakes ==
  ASSUME NEW threads, NEW places, Woken \in places,
         NEW at \in [threads -> places], NEW cond,
         NEW w \in Signal(at, cond)
  PROVE  /\ WakesSome(threads, places, at, w, {cond})
         /\ (\E u \in threads : at[u] = cond)
              => \E u \in threads : at[u] = cond /\ w[u] = Woken
<1>1. CASE Sleepers(at, cond) = {}
  BY <1>1 DEF Signal, Sleepers, WakesSome
<1>2. CASE Sleepers(at, cond) # {}
  <2>1. PICK s \in Sleepers(at, cond) : w = [at EXCEPT ![s] = Woken]
    BY <1>2 DEF Signal
  <2>2. s \in threads /\ at[s] = cond
    BY DEF Sleepers
  <2>3. w \in [threads -> places]
    BY <2>1
  <2>4. w[s] = Woken /\ \A u \in threads : u # s => w[u] = at[u]
    BY <2>1, <2>2
  <2>5. QED
    BY <2>2, <2>3, <2>4 DEF WakesSome
<1>3. QED
  BY <1>1, <1>2

(* pthread_cond_broadcast wakes every sleeper of its condition variable.   *)
LEMMA BroadcastWakes ==
  ASSUME NEW threads, NEW places, Woken \in places,
         NEW at \in [threads -> places], NEW cond
  PROVE  /\ WakesSome(threads, places, at, Broadcast(at, cond), {cond})
         /\ cond # Woken =>
              \A u \in threads : Broadcast(at, cond)[u] # cond
BY DEF Broadcast, WakesSome

(* The same wakeups, seen as wakeups on more condition variables.          *)
LEMMA WakesWeaken ==
  ASSUME NEW threads, NEW places, NEW at, NEW w, NEW C, NEW D,
         WakesSome(threads, places, at, w, C), C \subseteq D
  PROVE  WakesSome(threads, places, at, w, D)
BY DEF WakesSome

(* Adding one thread to a finite set, or removing one.                     *)
LEMMA CardinalityStep ==
  ASSUME NEW S, IsFiniteSet(S), NEW t
  PROVE  /\ Cardinality(S) \in Nat
         /\ t \notin S => /\ Cardinality(S \cup {t}) = Cardinality(S) + 1
                         /\ Cardinality(S \ {t}) = Cardinality(S)
         /\ t \in S => /\ Cardinality(S \cup {t}) = Cardinality(S)
                      /\ Cardinality(S \ {t}) = Cardinality(S) - 1
                      /\ Cardinality(S) > 0
<1>1. Cardinality(S) \in Nat
  BY FS_CardinalityType
<1>2. CASE t \notin S
  <2>1. S \ {t} = S
    BY <1>2
  <2>2. Cardinality(S \cup {t}) = Cardinality(S) + 1
    BY <1>2, FS_AddElement
  <2>3. QED
    BY <1>1, <1>2, <2>1, <2>2
<1>3. CASE t \in S
  <2>1. S \cup {t} = S
    BY <1>3
  <2>2. Cardinality(S \ {t}) = Cardinality(S) - 1
    BY <1>3, FS_RemoveElement
  <2>3. IsFiniteSet(S \ {t})
    BY FS_Subset, S \ {t} \subseteq S
  <2>4. Cardinality(S \ {t}) \in Nat
    BY <2>3, FS_CardinalityType
  <2>5. Cardinality(S) > 0
    BY <1>1, <2>2, <2>4
  <2>6. QED
    BY <1>1, <1>3, <2>1, <2>2, <2>5
<1>4. QED
  BY <1>2, <1>3

-----------------------------------------------------------------------------
(* w is at after some of the threads asleep on conds have been woken.      *)
Wakes(at, w, conds) == WakesSome(Threads, Places, at, w, conds)

(* The sets that the counters count are finite.                            *)
LEMMA ThreadSets ==
  ASSUME TypeOK
  PROVE  /\ IsFiniteSet(Inside("reading")) /\ IsFiniteSet(Inside("writing"))
         /\ IsFiniteSet(Queued)
<1>1. IsFiniteSet(Threads)
  BY RWLockAssumption, FS_Union DEF Threads
<1>2. Inside("reading") \in SUBSET Threads /\ Inside("writing") \in SUBSET Threads
      /\ Queued \in SUBSET Threads
  BY DEF Inside, Queued, Threads
<1>3. QED
  BY <1>1, <1>2, FS_Subset

-----------------------------------------------------------------------------
(* What each action does to the three sets of threads the counters count.  *)

(* t moves to a place, other threads are at most woken.                    *)
Moves(t, place) ==
  /\ pc' \in [Threads -> Places]
  /\ pc'[t] = place
  /\ \A u \in Threads \ {t} :
       \/ pc'[u] = pc[u]
       \/ pc[u] \in {"readers_ok", "writers_ok"} /\ pc'[u] = Woken

(* Threads of a kind sleep only on their own condition variable.           *)
KindOK ==
  /\ \A t \in Readers : pc[t] \notin {"writers_ok", "writing"}
  /\ \A t \in Writers : pc[t] \notin {"readers_ok", "reading"}

(* An unlock wakes some threads and sends its own caller on.               *)
LEMMA MovesFromWakes ==
  ASSUME NEW t \in Threads, NEW place \in Places, NEW w,
         Wakes(pc, w, {"readers_ok", "writers_ok"}),
         pc' = [w EXCEPT ![t] = place]
  PROVE  Moves(t, place)
BY DEF Wakes, WakesSome, Moves

(* How Moves changes the sets of threads that the counters count.          *)
LEMMA SetsAfterMove ==
  ASSUME TypeOK, NEW t \in Threads, NEW place \in Places,
         Moves(t, place), KindOK'
  PROVE  /\ Inside("reading")' = IF place = "reading"
              THEN Inside("reading") \cup {t} ELSE Inside("reading") \ {t}
         /\ Inside("writing")' = IF place = "writing"
              THEN Inside("writing") \cup {t} ELSE Inside("writing") \ {t}
         /\ Queued' = IF t \in Writers /\ place \in {"writers_ok", Woken}
              THEN Queued \cup {t} ELSE Queued \ {t}
<1>1. \A u \in Threads \ {t} :
        /\ pc'[u] = "reading" <=> pc[u] = "reading"
        /\ pc'[u] = "writing" <=> pc[u] = "writing"
  BY DEF Moves, Woken
<1>2. \A u \in Writers \ {t} :
        pc'[u] \in {"writers_ok", Woken} <=> pc[u] \in {"writers_ok", Woken}
  BY DEF Moves, Woken, TypeOK, Threads, KindOK
<1>3. pc'[t] = place
  BY DEF Moves
<1>4. QED
  BY <1>1, <1>2, <1>3 DEF Inside, Queued, Threads

-----------------------------------------------------------------------------
(* One lemma per action: it preserves IInv, and this is what it does to    *)
(* the sets of threads inside.                                             *)

(* The threads inside are the same.                                        *)
NobodyMoves == /\ Inside("reading")' = Inside("reading")
               /\ Inside("writing")' = Inside("writing")

(* t gets in, as a reader or as a writer.                                  *)
ReaderEnters(t) == /\ t \in Readers /\ ~ReaderMustWait
                   /\ Inside("reading")' = Inside("reading") \cup {t}
                   /\ Inside("writing")' = Inside("writing")
                   /\ t \notin Inside("reading")

WriterEnters(t) == /\ t \in Writers /\ ~WriterMustWait
                   /\ Inside("reading")' = Inside("reading")
                   /\ Inside("writing")' = Inside("writing") \cup {t}

(* t gets out.                                                             *)
ReaderLeaves(t) == /\ t \in Readers /\ t \in Inside("reading")
                   /\ Inside("reading")' = Inside("reading") \ {t}
                   /\ Inside("writing")' = Inside("writing")

WriterLeaves(t) == /\ t \in Writers /\ t \in Inside("writing")
                   /\ Inside("reading")' = Inside("reading")
                   /\ Inside("writing")' = Inside("writing") \ {t}

(* A reader waits or gets in.                                              *)
LEMMA ReaderLockStep ==
  ASSUME IInv, NEW t \in Threads, ReaderLock(t)
  PROVE  IInv' /\ (NobodyMoves \/ ReaderEnters(t))
<1> USE DEF IInv, Woken
<1>0. t \in Readers /\ pc[t] \in {"idle", Woken} /\ t \notin Writers
  BY RWLockAssumption DEF ReaderLock
<1>1. CASE /\ ReaderMustWait
           /\ pc' = [pc EXCEPT ![t] = "readers_ok"]
           /\ UNCHANGED lockVars
  <2>1. TypeOK' /\ KindOK' /\ Moves(t, "readers_ok")
    BY <1>0, <1>1 DEF TypeOK, KindOK, Moves, Places, lockVars, Threads
  <2>0. /\ Inside("reading")' = Inside("reading")
        /\ Inside("writing")' = Inside("writing")
        /\ Queued' = Queued
    BY <1>0, <2>1, SetsAfterMove DEF Places, Inside, Queued, TypeOK
  <2>2. CountersExact'
    BY <1>1, <2>0 DEF CountersExact, lockVars, Queued
  <2>3. Exclusive'
    BY <1>1 DEF Exclusive, lockVars
  <2>4. NoLostWakeup'
    <3>1. ReaderMustWait'
      BY <1>1 DEF ReaderMustWait, ReaderMustWait_ReaderPref,
                  ReaderMustWait_WriterPref, lockVars
    <3>2. \A u \in Threads : pc'[u] = "writers_ok" <=> pc[u] = "writers_ok"
      BY <1>0, <1>1 DEF TypeOK
    <3>3. \A u \in Writers : pc'[u] = pc[u]
      BY <1>0, <1>1 DEF TypeOK, Threads
    <3>4. QED
      BY <1>1, <3>1, <3>2, <3>3 DEF NoLostWakeup, Inside, lockVars
  <2>5. QED
    BY <2>0, <2>1, <2>2, <2>3, <2>4 DEF NobodyMoves
<1>2. CASE /\ ~ReaderMustWait
           /\ readers' = readers + 1
           /\ pc' = [pc EXCEPT ![t] = "reading"]
           /\ UNCHANGED <<preference, writers_waiting, writer_active>>
  <2>1. TypeOK' /\ KindOK' /\ Moves(t, "reading")
    BY <1>0, <1>2 DEF TypeOK, KindOK, Moves, Places, Threads
  <2>0. /\ Inside("reading")' = Inside("reading") \cup {t}
        /\ Inside("writing")' = Inside("writing")
        /\ Queued' = Queued
        /\ t \notin Inside("reading")
    BY <1>0, <2>1, SetsAfterMove DEF Places, Inside, Queued, TypeOK
  <2>2. CountersExact'
    <3>1. Cardinality(Inside("reading")') = Cardinality(Inside("reading")) + 1
      BY <2>0, ThreadSets, CardinalityStep
    <3>2. QED
      BY <1>2, <2>0, <3>1 DEF CountersExact, Queued
  <2>3. Exclusive'
    BY <1>2 DEF Exclusive, ReaderMustWait, ReaderMustWait_ReaderPref,
                ReaderMustWait_WriterPref
  <2>4. NoLostWakeup'
    <3>1. readers' > 0
      BY <1>2 DEF TypeOK
    <3>2. \A u \in Threads : pc'[u] # "readers_ok"
      BY <1>0, <1>2 DEF NoLostWakeup, Inside, TypeOK
    <3>3. QED
      BY <3>1, <3>2 DEF NoLostWakeup, Inside
  <2>5. QED
    BY <1>0, <1>2, <2>0, <2>1, <2>2, <2>3, <2>4 DEF ReaderEnters
<1>3. QED
  BY <1>1, <1>2 DEF ReaderLock

(* A reader gets out, and the last one wakes a writer.                     *)
LEMMA ReaderUnlockStep ==
  ASSUME IInv, NEW t \in Threads, ReaderUnlock(t)
  PROVE  IInv' /\ ReaderLeaves(t)
<1> USE DEF IInv, Woken
<1>1. PICK woken \in IF readers' = 0 THEN Signal(pc, "writers_ok") ELSE {pc} :
        pc' = [woken EXCEPT ![t] = AfterUnlock]
  BY DEF ReaderUnlock
<1>2. pc[t] = "reading" /\ t \in Readers /\ t \notin Writers
  BY RWLockAssumption DEF ReaderUnlock, TypeOK, Threads
<1>3. AfterUnlock \in {"idle", "done"} /\ AfterUnlock \in Places
  BY DEF AfterUnlock, Places
<1>4. pc \in [Threads -> Places]
  BY DEF TypeOK, Places
<1>5. Wakes(pc, woken, {"readers_ok", "writers_ok"})
  <2>1. CASE readers' = 0
    <3>1. Wakes(pc, woken, {"writers_ok"})
      BY <1>1, <1>4, <2>1, SignalWakes DEF Places, Wakes
    <3>2. QED
      BY <3>1, WakesWeaken DEF Wakes, WakesSome
  <2>2. CASE readers' # 0
    BY <1>1, <1>4, <2>2 DEF Wakes, WakesSome
  <2>3. QED
    BY <2>1, <2>2
<1>6. Moves(t, AfterUnlock)
  BY <1>1, <1>3, <1>5, MovesFromWakes
<1>7. KindOK'
  BY <1>2, <1>3, <1>6 DEF KindOK, Moves, TypeOK, Threads
<1>8. /\ Inside("reading")' = Inside("reading") \ {t}
      /\ Inside("writing")' = Inside("writing")
      /\ Queued' = Queued
      /\ t \in Inside("reading")
  BY <1>2, <1>3, <1>6, <1>7, SetsAfterMove DEF Inside, Queued, TypeOK
<1>9. Cardinality(Inside("reading")') = readers - 1 /\ readers > 0
  BY <1>8, ThreadSets, CardinalityStep DEF CountersExact
<1>10. TypeOK'
  BY <1>6, <1>7, <1>9
  DEF ReaderUnlock, TypeOK, KindOK, Moves, Places
<1>11. CountersExact'
  BY <1>8, <1>9 DEF ReaderUnlock, CountersExact, Queued
<1>12. Exclusive'
  BY <1>9 DEF ReaderUnlock, Exclusive, TypeOK
<1>13. NoLostWakeup'
  <2>1. Inside("writers_ok")' # {} =>
          \/ readers' > 0 \/ (\E u \in Writers : pc'[u] = Woken)
    <3>1. CASE readers' = 0
      <4> SUFFICES ASSUME NEW v \in Threads, pc'[v] = "writers_ok"
                   PROVE  \E u \in Writers : pc'[u] = Woken
        BY DEF Inside
      <4>1. pc[v] = "writers_ok"
        BY <1>3, <1>6 DEF Moves
      <4>2. PICK u \in Threads : pc[u] = "writers_ok" /\ woken[u] = Woken
        <5>1. woken \in Signal(pc, "writers_ok")
          BY <1>1, <3>1
        <5>2. /\ Wakes(pc, woken, {"writers_ok"})
              /\ (\E u \in Threads : pc[u] = "writers_ok") =>
                   \E u \in Threads : pc[u] = "writers_ok" /\ woken[u] = Woken
          BY <1>4, <5>1, SignalWakes DEF Places, Wakes
        <5>3. QED
          BY <4>1, <5>2
      <4>3. u # t /\ u \in Writers
        BY <1>2, <4>2 DEF TypeOK, Threads
      <4>4. pc'[u] = Woken
        BY <1>1, <1>5, <4>2, <4>3 DEF Wakes, WakesSome
      <4>5. QED
        BY <4>3, <4>4
    <3>2. CASE readers' # 0
      BY <1>10, <3>2 DEF TypeOK
    <3>3. QED
      BY <3>1, <3>2
  <2>2. Inside("readers_ok")' # {} => ReaderMustWait'
    <3>1. Inside("readers_ok")' # {} => Inside("readers_ok") # {}
      BY <1>3, <1>6 DEF Moves, Inside
    <3>2. ReaderMustWait => ReaderMustWait'
      BY DEF ReaderUnlock, ReaderMustWait, ReaderMustWait_ReaderPref,
             ReaderMustWait_WriterPref
    <3>3. QED
      BY <3>1, <3>2 DEF NoLostWakeup
  <2>3. QED
    BY <2>1, <2>2 DEF NoLostWakeup
<1>14. QED
  BY <1>2, <1>8, <1>10, <1>11, <1>12, <1>13 DEF ReaderLeaves

(* A writer announces itself and waits or gets in.                         *)
LEMMA WriterLockStep ==
  ASSUME IInv, NEW t \in Threads, WriterLock(t)
  PROVE  IInv' /\ (NobodyMoves \/ WriterEnters(t))
<1> USE DEF IInv, Woken
<1>0. /\ t \in Writers /\ pc[t] \in {"idle", Woken} /\ t \notin Readers
      /\ pc[t] = "idle" <=> t \notin Queued
  BY RWLockAssumption DEF WriterLock, Queued
<1>1. /\ Announced(t) \in Nat /\ Announced(t) >= writers_waiting
      /\ Announced(t) = Cardinality(Queued \cup {t})
      /\ Announced(t) - 1 \in Nat
      /\ Announced(t) - 1 = Cardinality(Queued \ {t})
  <2>1. Cardinality(Queued) = writers_waiting /\ IsFiniteSet(Queued)
    BY ThreadSets DEF CountersExact, Queued
  <2>2. CASE pc[t] = "idle"
    <3>1. Announced(t) = writers_waiting + 1
      BY <2>2 DEF Announced
    <3>2. /\ Cardinality(Queued \cup {t}) = writers_waiting + 1
          /\ Cardinality(Queued \ {t}) = writers_waiting
      BY <1>0, <2>1, <2>2, CardinalityStep
    <3>3. QED
      BY <3>1, <3>2 DEF TypeOK
  <2>3. CASE pc[t] # "idle"
    <3>1. Announced(t) = writers_waiting
      BY <2>3 DEF Announced
    <3>2. /\ Cardinality(Queued \cup {t}) = writers_waiting
          /\ Cardinality(Queued \ {t}) = writers_waiting - 1
          /\ writers_waiting > 0
      BY <1>0, <2>1, <2>3, CardinalityStep
    <3>3. QED
      BY <3>1, <3>2 DEF TypeOK
  <2>4. QED
    BY <2>2, <2>3
<1>2. CASE /\ WriterMustWait
           /\ writers_waiting' = Announced(t)
           /\ pc' = [pc EXCEPT ![t] = "writers_ok"]
           /\ UNCHANGED <<preference, readers, writer_active>>
  <2>1. TypeOK' /\ KindOK' /\ Moves(t, "writers_ok")
    BY <1>0, <1>1, <1>2 DEF TypeOK, KindOK, Moves, Places, Threads
  <2>0. /\ Inside("reading")' = Inside("reading")
        /\ Inside("writing")' = Inside("writing")
        /\ Queued' = Queued \cup {t}
    BY <1>0, <2>1, SetsAfterMove DEF Places, Inside
  <2>2. CountersExact'
    BY <1>1, <1>2, <2>0 DEF CountersExact, Queued
  <2>3. Exclusive'
    BY <1>2 DEF Exclusive
  <2>4. NoLostWakeup'
    <3>1. readers' > 0 \/ writer_active' = 1
      BY <1>2 DEF WriterMustWait, TypeOK
    <3>2. ReaderMustWait => ReaderMustWait'
      BY <1>1, <1>2 DEF ReaderMustWait, ReaderMustWait_ReaderPref,
                        ReaderMustWait_WriterPref, TypeOK
    <3>3. Inside("readers_ok")' = Inside("readers_ok")
      BY <1>0, <1>2 DEF Inside, TypeOK
    <3>4. QED
      BY <3>1, <3>2, <3>3 DEF NoLostWakeup
  <2>5. QED
    BY <2>0, <2>1, <2>2, <2>3, <2>4 DEF NobodyMoves
<1>3. CASE /\ ~WriterMustWait
           /\ writers_waiting' = Announced(t) - 1
           /\ writer_active' = 1
           /\ pc' = [pc EXCEPT ![t] = "writing"]
           /\ UNCHANGED <<preference, readers>>
  <2>1. TypeOK' /\ KindOK' /\ Moves(t, "writing")
    BY <1>0, <1>1, <1>3 DEF TypeOK, KindOK, Moves, Places, Threads
  <2>0. /\ Inside("reading")' = Inside("reading")
        /\ Inside("writing")' = Inside("writing") \cup {t}
        /\ Queued' = Queued \ {t}
        /\ t \notin Inside("writing")
    BY <1>0, <2>1, SetsAfterMove DEF Places, Inside
  <2>2. CountersExact'
    <3>2. Cardinality(Inside("writing")') = Cardinality(Inside("writing")) + 1
      BY <2>0, ThreadSets, CardinalityStep
    <3>3. Cardinality(Inside("writing")) = 0
      BY <1>3 DEF WriterMustWait, CountersExact
    <3>4. writers_waiting' = Cardinality(Queued')
      BY <1>1, <1>3, <2>0
    <3>5. writer_active' = Cardinality(Inside("writing")')
      BY <1>3, <3>2, <3>3
    <3>6. QED
      BY <1>3, <2>0, <3>4, <3>5 DEF CountersExact, Queued
  <2>3. Exclusive'
    BY <1>3 DEF Exclusive, WriterMustWait
  <2>4. NoLostWakeup'
    BY <1>3 DEF NoLostWakeup, ReaderMustWait, ReaderMustWait_ReaderPref,
                ReaderMustWait_WriterPref
  <2>5. QED
    BY <1>0, <1>3, <2>0, <2>1, <2>2, <2>3, <2>4 DEF WriterEnters
<1>4. QED
  BY <1>2, <1>3 DEF WriterLock

(* A writer gets out and wakes whom its preference says.                   *)
LEMMA WriterUnlockStep ==
  ASSUME IInv, NEW t \in Threads, WriterUnlock(t)
  PROVE  IInv' /\ WriterLeaves(t)
<1> USE DEF IInv, Woken
<1>1. PICK woken \in WokenByWriter : pc' = [woken EXCEPT ![t] = AfterUnlock]
  BY DEF WriterUnlock
<1>2. pc[t] = "writing" /\ t \in Writers /\ t \notin Readers
  BY RWLockAssumption DEF WriterUnlock, TypeOK, Threads
<1>3. AfterUnlock \in {"idle", "done"} /\ AfterUnlock \in Places
  BY DEF AfterUnlock, Places
<1>4. pc \in [Threads -> Places]
  BY DEF TypeOK, Places
<1>5. writer_active = 1 /\ readers = 0
  <2>1. t \in Inside("writing")
    BY <1>2 DEF Inside
  <2>2. writer_active > 0
    BY <2>1, ThreadSets, CardinalityStep DEF CountersExact
  <2>3. QED
    BY <2>2 DEF TypeOK, Exclusive
<1>6. ASSUME writers_waiting = 0
      PROVE  \A u \in Threads : pc[u] # "writers_ok"
  <2> SUFFICES ASSUME NEW u \in Threads, pc[u] = "writers_ok" PROVE FALSE
    OBVIOUS
  <2>1. u \in Queued
    BY DEF Queued, TypeOK, Threads
  <2>2. Cardinality(Queued) > 0
    BY <2>1, ThreadSets, CardinalityStep
  <2>3. QED
    BY <1>6, <2>2 DEF CountersExact, Queued
(* What the four ways of waking have in common.                            *)
<1>7. /\ Wakes(pc, woken, {"readers_ok", "writers_ok"})
      /\ (\E u \in Threads : pc[u] = "writers_ok") =>
            \E u \in Threads : pc[u] = "writers_ok" /\ woken[u] = Woken
      /\ \/ preference = "writer" /\ writers_waiting > 0
         \/ \A u \in Threads : woken[u] # "readers_ok"
  <2>1. CASE preference = "reader"
    <3> DEFINE all == Broadcast(pc, "readers_ok")
    <3>1. woken \in Signal(all, "writers_ok")
      BY <1>5, <2>1 DEF WokenByWriter, WokenByWriter_ReaderPref
    <3>2. /\ Wakes(pc, all, {"readers_ok"})
          /\ \A u \in Threads : all[u] # "readers_ok"
      BY <1>4, BroadcastWakes DEF Places, Wakes
    <3>3. all \in [Threads -> Places]
      BY <3>2 DEF Wakes, WakesSome
    <3> HIDE DEF all
    <3>4. /\ Wakes(all, woken, {"writers_ok"})
          /\ (\E u \in Threads : all[u] = "writers_ok")
              => \E u \in Threads : all[u] = "writers_ok" /\ woken[u] = Woken
      BY <3>1, <3>3, SignalWakes DEF Places, Wakes
    <3>5. \A u \in Threads : all[u] = "writers_ok" <=> pc[u] = "writers_ok"
      BY <3>2 DEF Wakes, WakesSome
    <3>6. QED
      BY <3>2, <3>4, <3>5 DEF Wakes, WakesSome
  <2>2. CASE preference # "reader" /\ writers_waiting > 0
    <3>1. woken \in Signal(pc, "writers_ok")
      BY <2>2 DEF WokenByWriter, WokenByWriter_WriterPref
    <3>2. preference = "writer"
      BY <2>2 DEF TypeOK
    <3>3. /\ Wakes(pc, woken, {"writers_ok"})
          /\ (\E u \in Threads : pc[u] = "writers_ok")
              => \E u \in Threads : pc[u] = "writers_ok" /\ woken[u] = Woken
      BY <1>4, <3>1, SignalWakes DEF Places, Wakes
    <3>4. Wakes(pc, woken, {"readers_ok", "writers_ok"})
      BY <3>3, WakesWeaken DEF Wakes, WakesSome
    <3>5. QED
      BY <2>2, <3>2, <3>3, <3>4
  <2>3. CASE preference # "reader" /\ ~(writers_waiting > 0)
    <3>1. woken = Broadcast(pc, "readers_ok")
      BY <2>3 DEF WokenByWriter, WokenByWriter_WriterPref
    <3>2. /\ Wakes(pc, woken, {"readers_ok"})
          /\ \A u \in Threads : woken[u] # "readers_ok"
      BY <1>4, <3>1, BroadcastWakes DEF Places, Wakes
    <3>3. Wakes(pc, woken, {"readers_ok", "writers_ok"})
      BY <3>2, WakesWeaken DEF Wakes, WakesSome
    <3>4. \A u \in Threads : pc[u] # "writers_ok"
      BY <1>6, <2>3 DEF TypeOK
    <3>5. QED
      BY <3>2, <3>3, <3>4
  <2>4. QED
    BY <2>1, <2>2, <2>3
<1>8. Moves(t, AfterUnlock)
  BY <1>1, <1>3, <1>7, MovesFromWakes
<1>9. KindOK'
  BY <1>2, <1>3, <1>8 DEF KindOK, Moves, TypeOK, Threads
<1>10. /\ Inside("reading")' = Inside("reading")
       /\ Inside("writing")' = Inside("writing") \ {t}
       /\ Queued' = Queued
       /\ t \in Inside("writing")
  BY <1>2, <1>3, <1>8, <1>9, SetsAfterMove DEF Inside, Queued
<1>11. Cardinality(Inside("writing")') = 0
  BY <1>5, <1>10, ThreadSets, CardinalityStep DEF CountersExact
<1>12. TypeOK'
  BY <1>8, <1>9 DEF WriterUnlock, TypeOK, KindOK, Moves, Places
<1>13. CountersExact'
  BY <1>10, <1>11 DEF WriterUnlock, CountersExact, Queued
<1>14. Exclusive'
  BY DEF WriterUnlock, Exclusive
<1>15. NoLostWakeup'
  <2>1. ASSUME NEW v \in Threads, pc'[v] = "writers_ok"
        PROVE  \E u \in Writers : pc'[u] = Woken
    <3>1. pc[v] = "writers_ok"
      BY <1>3, <1>8, <2>1 DEF Moves
    <3>2. PICK u \in Threads : pc[u] = "writers_ok" /\ woken[u] = Woken
      BY <1>7, <3>1
    <3>3. u # t /\ u \in Writers
      BY <1>2, <3>2 DEF TypeOK, Threads
    <3>4. pc'[u] = Woken
      BY <1>1, <1>7, <3>2, <3>3 DEF Wakes, WakesSome
    <3>5. QED
      BY <3>3, <3>4
  <2>2. ASSUME NEW v \in Threads, pc'[v] = "readers_ok"
        PROVE  ReaderMustWait'
    <3>1. woken[v] = "readers_ok"
      BY <1>1, <1>3, <1>7, <2>2 DEF Wakes, WakesSome
    <3>2. preference = "writer" /\ writers_waiting > 0
      BY <1>7, <3>1
    <3>3. QED
      BY <3>2 DEF WriterUnlock, ReaderMustWait, ReaderMustWait_WriterPref
  <2>3. QED
    BY <2>1, <2>2 DEF NoLostWakeup, Inside
<1>16. QED
  BY <1>2, <1>10, <1>12, <1>13, <1>14, <1>15 DEF WriterLeaves

(* A wakeup that nobody caused.                                            *)
LEMMA SpuriousStep ==
  ASSUME IInv, Spurious
  PROVE  IInv' /\ NobodyMoves
<1> USE DEF IInv, Woken
<1>1. PICK t \in Threads : /\ pc[t] \in {"readers_ok", "writers_ok"}
                           /\ pc' = [pc EXCEPT ![t] = Woken]
  BY DEF Spurious, SpuriousWakeup, TypeOK
<1>2. TypeOK' /\ KindOK' /\ Moves(t, Woken)
  BY <1>1 DEF Spurious, TypeOK, KindOK, Moves, Places, Threads, lockVars
<1>3. /\ Inside("reading")' = Inside("reading")
      /\ Inside("writing")' = Inside("writing")
      /\ Queued' = Queued
  <2>1. t \in Writers => t \in Queued
    BY <1>1 DEF TypeOK, Queued
  <2>2. t \notin Writers => t \notin Queued
    BY DEF Queued
  <2>3. QED
    BY <1>1, <1>2, <2>1, <2>2, SetsAfterMove DEF Places, Inside
<1>4. CountersExact'
  BY <1>3 DEF CountersExact, Queued, Spurious, lockVars
<1>5. Exclusive'
  BY DEF Exclusive, Spurious, lockVars
<1>6. NoLostWakeup'
  <2>1. ReaderMustWait' = ReaderMustWait
    BY DEF ReaderMustWait, ReaderMustWait_ReaderPref,
           ReaderMustWait_WriterPref, Spurious, lockVars
  <2>2. /\ Inside("readers_ok")' \subseteq Inside("readers_ok")
        /\ Inside("writers_ok")' \subseteq Inside("writers_ok")
    BY <1>1, <1>2 DEF Inside, Moves
  <2>3. \A u \in Writers : pc[u] = Woken => pc'[u] = Woken
    BY <1>1 DEF TypeOK, Threads
  <2>4. QED
    BY <2>1, <2>2, <2>3 DEF NoLostWakeup, Spurious, lockVars
<1>7. QED
  BY <1>2, <1>3, <1>4, <1>5, <1>6 DEF NobodyMoves

-----------------------------------------------------------------------------
(* The invariant holds in the initial state.                               *)
THEOREM IInvInit == Init => IInv
<1> SUFFICES ASSUME Init PROVE IInv
  OBVIOUS
<1>1. /\ Inside("reading") = {} /\ Inside("writing") = {} /\ Queued = {}
      /\ Inside("readers_ok") = {} /\ Inside("writers_ok") = {}
  BY DEF Init, Inside, Queued, Threads, Woken
<1>2. TypeOK
  BY DEF Init, TypeOK, Threads
<1>3. CountersExact
  BY <1>1, FS_EmptySet DEF Init, CountersExact, Queued
<1>4. Exclusive /\ NoLostWakeup
  BY <1>1 DEF Init, Exclusive, NoLostWakeup
<1>5. QED
  BY <1>2, <1>3, <1>4 DEF IInv

(* What a step does to the threads inside: at most one moves.              *)
StepEffect ==
  \/ NobodyMoves
  \/ \E t \in Threads : \/ ReaderEnters(t) \/ ReaderLeaves(t)
                        \/ WriterEnters(t) \/ WriterLeaves(t)

(* Every step preserves the invariant and moves at most one thread in or   *)
(* out of the lock, by the rules of its kind.                              *)
THEOREM IInvStep == IInv /\ [Next]_vars => IInv' /\ StepEffect
<1> SUFFICES ASSUME IInv, [Next]_vars PROVE IInv' /\ StepEffect
  OBVIOUS
<1>1. ASSUME NEW t \in Threads, ReaderLock(t) PROVE IInv' /\ StepEffect
  BY <1>1, ReaderLockStep DEF StepEffect
<1>2. ASSUME NEW t \in Threads, ReaderUnlock(t) PROVE IInv' /\ StepEffect
  BY <1>2, ReaderUnlockStep DEF StepEffect
<1>3. ASSUME NEW t \in Threads, WriterLock(t) PROVE IInv' /\ StepEffect
  BY <1>3, WriterLockStep DEF StepEffect
<1>4. ASSUME NEW t \in Threads, WriterUnlock(t) PROVE IInv' /\ StepEffect
  BY <1>4, WriterUnlockStep DEF StepEffect
<1>5. CASE Spurious
  BY <1>5, SpuriousStep DEF StepEffect
<1>6. CASE UNCHANGED vars
  BY <1>6 DEF vars, IInv, TypeOK, CountersExact, Exclusive, NoLostWakeup,
              Inside, ReaderMustWait, ReaderMustWait_ReaderPref,
              ReaderMustWait_WriterPref, StepEffect, NobodyMoves
<1>7. QED
  BY <1>1, <1>2, <1>3, <1>4, <1>5, <1>6 DEF Next, Step

(* The invariant the following theorems rest on always holds: types, exact *)
(* counters, readers and writers apart, no sleeper without a waker.        *)
THEOREM IInvAlways == Spec => []IInv
<1>1. Init => IInv
  BY IInvInit
<1>2. IInv /\ [Next]_vars => IInv'
  BY IInvStep
<1>3. QED
  BY <1>1, <1>2, PTL DEF Spec

(* The variables keep their types, and threads of one kind never sleep on  *)
(* the other kind's condition variable.                                    *)
THEOREM TypeCorrect == Spec => []TypeOK
<1>1. IInv => TypeOK
  BY DEF IInv
<1>2. QED
  BY <1>1, IInvAlways, PTL

(* readers, writers_waiting and writer_active always count the threads     *)
(* they are meant to count.                                                *)
THEOREM CountersAreExact == Spec => []CountersExact
<1>1. IInv => CountersExact
  BY DEF IInv
<1>2. QED
  BY <1>1, IInvAlways, PTL

(* The counters and Exclusive leave a writer alone inside.                 *)
LEMMA ExclusionFromIInv == IInv => MutualExclusion
<1> SUFFICES ASSUME IInv, NEW w \in Inside("writing"), NEW t \in Threads \ {w},
                    pc[t] \in {"reading", "writing"}
             PROVE  FALSE
  BY DEF MutualExclusion
<1> USE DEF IInv
<1>1. Cardinality(Inside("writing")) = 1 /\ writer_active = 1
  <2>1. Cardinality(Inside("writing")) > 0
    BY ThreadSets, CardinalityStep
  <2>2. QED
    BY <2>1 DEF CountersExact, TypeOK
<1>2. CASE pc[t] = "reading"
  <2>1. t \in Inside("reading")
    BY <1>2 DEF Inside
  <2>2. readers > 0
    BY <2>1, ThreadSets, CardinalityStep DEF CountersExact
  <2>3. QED
    BY <1>1, <2>2 DEF Exclusive
<1>3. CASE pc[t] = "writing"
  <2>1. t \in Inside("writing") \ {w}
    BY <1>3 DEF Inside
  <2>2. IsFiniteSet(Inside("writing") \ {w})
    BY ThreadSets, FS_Subset, Inside("writing") \ {w} \subseteq Inside("writing")
  <2>3. Cardinality(Inside("writing") \ {w}) > 0
    BY <2>1, <2>2, CardinalityStep
  <2>4. Cardinality(Inside("writing") \ {w}) = 0
    BY <1>1, ThreadSets, CardinalityStep
  <2>5. QED
    BY <2>3, <2>4
<1>4. QED
  BY <1>2, <1>3

(* A writer between WriterLock and WriterUnlock is alone, for both         *)
(* implementations, any number of threads and spurious wakeups.            *)
THEOREM LockExcludes == Spec => []MutualExclusion
  BY IInvAlways, ExclusionFromIInv, PTL

(* Types, counters and exclusion together: the invariant LockInv.          *)
THEOREM LockInvariant == Spec => []LockInv
<1>1. IInv => LockInv
  BY ExclusionFromIInv DEF IInv, LockInv
<1>2. QED
  BY <1>1, IInvAlways, PTL

(* No thread is ever asleep with nobody left to wake it.                   *)
THEOREM WakeupsAreNotLost == Spec => []NoLostWakeup
<1>1. IInv => NoLostWakeup
  BY DEF IInv
<1>2. QED
  BY <1>1, IInvAlways, PTL

-----------------------------------------------------------------------------
(* The step property of writer preference.                                 *)
WriterPreferenceStep ==
  preference = "writer" =>
    \A r \in Readers : pc[r] # "reading" /\ pc'[r] = "reading" =>
      \A w \in Writers : pc[w] \notin {"writers_ok", Woken}

(* With rwlock-writer-pref.cpp no reader ever gets the lock while a writer *)
(* waits for it.                                                           *)
THEOREM WritersGoFirst == Spec => WriterPreference
<1>1. ASSUME IInv, [Next]_vars
      PROVE  [WriterPreferenceStep]_vars
  <2> SUFFICES ASSUME preference = "writer",
                      NEW r \in Readers, pc[r] # "reading", pc'[r] = "reading",
                      NEW w \in Writers, pc[w] \in {"writers_ok", Woken}
               PROVE  FALSE
    BY DEF WriterPreferenceStep
  <2>1. r \notin Inside("reading") /\ r \in Inside("reading")'
    BY DEF Inside, Threads
  <2>2. ~ReaderMustWait
    <3>1. StepEffect
      BY <1>1, IInvStep
    <3>2. QED
      BY <2>1, <3>1 DEF StepEffect, NobodyMoves, ReaderEnters, WriterEnters,
                        ReaderLeaves, WriterLeaves
  <2>3. w \in Queued
    BY DEF Queued
  <2>4. Cardinality(Queued) > 0
    BY <1>1, <2>3, ThreadSets, CardinalityStep DEF IInv
  <2>5. writers_waiting > 0
    BY <1>1, <2>4 DEF IInv, CountersExact, Queued
  <2>6. QED
    BY <2>2, <2>5 DEF ReaderMustWait, ReaderMustWait_WriterPref
<1>2. QED
  BY <1>1, IInvAlways, PTL DEF Spec, WriterPreference, WriterPreferenceStep

-----------------------------------------------------------------------------
(* Refinement of the abstract lock.                                        *)

(* A counter that is 0 counts nobody.                                      *)
LEMMA InsideEmpty ==
  ASSUME IInv
  PROVE  /\ readers = 0 => Inside("reading") = {}
         /\ writer_active = 0 => Inside("writing") = {}
BY ThreadSets, FS_EmptySet DEF IInv, CountersExact

(* Both implementations implement the abstract lock: a thread that gets in *)
(* or out takes the abstract step of its kind, any other step stutters.    *)
THEOREM LockImplementsReadersWriters == Spec => RefinesReadersWriters
<1>1. Init => RW!Init
  <2> SUFFICES ASSUME Init PROVE RW!Init
    OBVIOUS
  <2>1. Inside("reading") = {} /\ Inside("writing") = {}
    BY DEF Init, Inside, Threads
  <2>2. QED
    BY <2>1 DEF RW!Init
<1>2. ASSUME IInv, [Next]_vars
      PROVE  [RW!Next]_(RW!vars)
  <2> USE <1>2
  <2>1. CASE NobodyMoves
    BY <2>1 DEF NobodyMoves, RW!vars
  <2>2. ASSUME NEW t \in Threads, ReaderEnters(t)
        PROVE  RW!Next
    <3>1. Inside("writing") = {}
      BY <2>2, InsideEmpty
      DEF ReaderEnters, ReaderMustWait, ReaderMustWait_ReaderPref,
          ReaderMustWait_WriterPref
    <3>2. RW!StartReading(t)
      BY <2>2, <3>1 DEF ReaderEnters, RW!StartReading
    <3>3. QED
      BY <2>2, <3>2 DEF ReaderEnters, RW!Next
  <2>3. ASSUME NEW t \in Threads, WriterEnters(t)
        PROVE  RW!Next
    <3>1. Inside("writing") = {} /\ Inside("reading") = {}
      BY <2>3, InsideEmpty DEF WriterEnters, WriterMustWait, IInv, TypeOK
    <3>2. RW!StartWriting(t)
      BY <2>3, <3>1 DEF WriterEnters, RW!StartWriting
    <3>3. QED
      BY <2>3, <3>2 DEF WriterEnters, RW!Next
  <2>4. ASSUME NEW t \in Threads, ReaderLeaves(t)
        PROVE  RW!Next
    <3>1. RW!StopReading(t)
      BY <2>4 DEF ReaderLeaves, RW!StopReading
    <3>2. QED
      BY <2>4, <3>1 DEF ReaderLeaves, RW!Next
  <2>5. ASSUME NEW t \in Threads, WriterLeaves(t)
        PROVE  RW!Next
    <3>1. Inside("writing") = {t}
      BY <2>5, ExclusionFromIInv DEF WriterLeaves, MutualExclusion, Inside
    <3>2. RW!StopWriting(t)
      BY <2>5, <3>1 DEF WriterLeaves, RW!StopWriting
    <3>3. QED
      BY <2>5, <3>2 DEF WriterLeaves, RW!Next
  <2>6. QED
    BY <2>1, <2>2, <2>3, <2>4, <2>5, IInvStep DEF StepEffect
<1>3. QED
  BY <1>1, <1>2, IInvAlways, PTL DEF Spec, RefinesReadersWriters, RW!Spec
=============================================================================
