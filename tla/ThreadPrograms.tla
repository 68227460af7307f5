--------------------------- MODULE ThreadPrograms ---------------------------
(***************************************************************************)
(* Programs whose threads wait for each other: those that use zemaphores   *)
(* (pthreads-sync-code/zemaphore), the two of the repository and every     *)
(* small program that only calls zem_down and zem_up, and ex3.c and ex4.c  *)
(* of warmup_ex, which share a turn.  A thread is the sequence of calls it *)
(* has still to make; sleep(1) is any delay, none included.                *)
(*                                                                         *)
(* In test-toggle.c, NUM_THREADS threads print in turn.  In test-zem.c,    *)
(* main (thread 0) lets the threads it has created print one at a time; it *)
(* has two, here there may be more.  In ex3.c, main creates N threads that *)
(* print in the order of their indices, and in ex4.c it does so N times    *)
(* over; th[i] is thread i + 1.                                            *)
(***************************************************************************)
EXTENDS Zemaphore, Sequences

CONSTANTS
  NUM_THREADS, NUM_ITER,  \* of test-toggle.c
  zem,                    \* its zemaphores: a function on the threads' ids
  NUM_PRINTERS,           \* the threads main creates in test-zem.c: 2
  N,                      \* of ex3.c and ex4.c
  NUM_CALLERS, MAX_CALLS, \* the size of the other programs
  SpuriousWakeups         \* TRUE: pthread_cond_wait may return unsignalled

ASSUME ThreadProgramsAssumption ==
  /\ NUM_THREADS \in Nat \ {0} /\ NUM_ITER \in Nat
  /\ DOMAIN zem = 0 .. NUM_THREADS - 1
  /\ \A i, j \in DOMAIN zem : zem[i] = zem[j] => i = j
  /\ \A i \in DOMAIN zem : zem[i] \notin {"running", Woken, "cond"}
  /\ NUM_PRINTERS \in Nat /\ N \in Nat /\ NUM_CALLERS \in Nat /\ MAX_CALLS \in Nat
  /\ SpuriousWakeups \in BOOLEAN

VARIABLES
  program,     \* the program that runs
  calls,       \* the calls each thread has still to make
  turn,        \* int turn of ex3.c and ex4.c
  printed,     \* how often each thread has printed
  unsignalled  \* TRUE once a wait has returned without a signal

vars == <<count, at, program, calls, turn, printed, unsignalled>>

Threads == DOMAIN calls

-----------------------------------------------------------------------------
(* justprint of test-toggle.c                                              *)
next_thread(t) == (t + 1) % NUM_THREADS

ToggleCalls(t) ==
  LET round == << <<"zem_down", zem[t]>>, <<"print", t>>,
                 <<"zem_up", zem[next_thread(t)]>> >>
  IN [i \in 1 .. 3 * NUM_ITER |-> round[((i - 1) % 3) + 1]]

(* main has raised zem[0] when it creates the threads.                     *)
TestToggle ==
  /\ program = "test-toggle"
  /\ calls = [t \in 0 .. NUM_THREADS - 1 |-> ToggleCalls(t)]
  /\ zem_init({zem[t] : t \in DOMAIN zem}, [s \in {zem[0]} |-> 1], Threads)

-----------------------------------------------------------------------------
(* main and justprint of test-zem.c                                        *)
MainCalls ==
  LET round(n) == << <<"zem_up", "child">>, <<"zem_down", "parent">>, <<"report", n>> >>
  IN << <<"print", 0>> >>
       \o [i \in 1 .. 3 * NUM_PRINTERS |->
             round(((i - 1) \div 3) + 1)[((i - 1) % 3) + 1]]
       \o << <<"join", 0>> >>

PrinterCalls(t) == << <<"zem_down", "child">>, <<"print", t>>, <<"zem_up", "parent">> >>

TestZem ==
  /\ program = "test-zem"
  /\ calls = [t \in 0 .. NUM_PRINTERS |-> IF t = 0 THEN MainCalls ELSE PrinterCalls(t)]
  /\ zem_init({"child", "parent"}, <<>>, Threads)

(* main and routine of ex3.c and ex4.c: the threads of a round have calls  *)
(* to make once main has created them.                                     *)
RoundCalls ==
  << <<"set_turn", 0>> >> \o [i \in 1 .. N |-> <<"create", i>>] \o << <<"join", 0>> >>

Rounds == IF program = "ex3" THEN 1 ELSE N

RoutineCalls == << <<"take_turn", "cond">> >>

TurnTaking ==
  /\ program \in {"ex3", "ex4"}
  /\ calls = [t \in 0 .. N |->
                IF t # 0 THEN <<>>
                ELSE [i \in 1 .. Rounds * (N + 2) |->
                        RoundCalls[((i - 1) % (N + 2)) + 1]]]
  /\ zem_init({}, <<>>, Threads)

(* Anything else that can be done with a zemaphore.                        *)
AnyProgram ==
  /\ program = "any"
  /\ calls \in [1 .. NUM_CALLERS ->
                  UNION {[1 .. n -> {"zem_down", "zem_up"} \X {"child"}] :
                           n \in 0 .. MAX_CALLS}]
  /\ zem_init({"child"}, <<>>, Threads)

Init ==
  /\ TestToggle \/ TestZem \/ TurnTaking \/ AnyProgram
  /\ turn = 0
  /\ printed = [t \in Threads |-> 0]
  /\ unsignalled = FALSE

-----------------------------------------------------------------------------
NextCall(t, call) == calls[t] # <<>> /\ Head(calls[t])[1] = call
Made(t) == [calls EXCEPT ![t] = Tail(@)]

Down(t) ==
  /\ NextCall(t, "zem_down")
  /\ zem_down(t, Head(calls[t])[2])
  /\ calls' = IF Returned(t) THEN Made(t) ELSE calls
  /\ UNCHANGED <<program, turn, printed, unsignalled>>

Up(t) ==
  /\ NextCall(t, "zem_up")
  /\ zem_up(Head(calls[t])[2])
  /\ calls' = Made(t)
  /\ UNCHANGED <<program, turn, printed, unsignalled>>

PrintLine(t) ==
  /\ NextCall(t, "print")
  /\ printed' = [printed EXCEPT ![t] = @ + 1]
  /\ calls' = Made(t)
  /\ UNCHANGED <<count, at, program, turn, unsignalled>>

(* main's lines about the others.                                          *)
Report(t) ==
  /\ NextCall(t, "report")
  /\ calls' = Made(t)
  /\ UNCHANGED <<count, at, program, turn, printed, unsignalled>>

Join_ButTheLast(t) ==  \* faulty
  /\ NextCall(t, "join")
  /\ \A u \in 1 .. Cardinality(Threads) - 2 : calls[u] = <<>>
  /\ calls' = Made(t)
  /\ UNCHANGED <<count, at, program, turn, printed, unsignalled>>

(* The calls of pthread_join.                                              *)
Join(t) ==
  /\ NextCall(t, "join")
  /\ \A u \in Threads \ {t} : calls[u] = <<>>
  /\ calls' = Made(t)
  /\ UNCHANGED <<count, at, program, turn, printed, unsignalled>>

(* "turn = 0", which main does without the mutex.                          *)
SetTurn(t) ==
  /\ NextCall(t, "set_turn")
  /\ turn' = 0
  /\ calls' = Made(t)
  /\ UNCHANGED <<count, at, program, printed, unsignalled>>

Create(t) ==
  /\ NextCall(t, "create")
  /\ calls' = [Made(t) EXCEPT ![Head(calls[t])[2]] = RoutineCalls]
  /\ UNCHANGED <<count, at, program, turn, printed, unsignalled>>

WokenByTurn_One == Signal(at, "cond")  \* faulty
WokenByTurn == {Broadcast(at, "cond")}

(* routine, from its start or a wakeup to the wait or the end.             *)
TakeTurn(t) ==
  /\ NextCall(t, "take_turn") /\ at[t] \in {"running", Woken}
  /\ \/ /\ t - 1 # turn
        /\ at' = [at EXCEPT ![t] = "cond"]
        /\ UNCHANGED <<calls, turn, printed>>
     \/ /\ t - 1 = turn
        /\ printed' = [printed EXCEPT ![t] = @ + 1]
        /\ turn' = turn + 1
        /\ \E woken \in WokenByTurn : at' = [woken EXCEPT ![t] = "running"]
        /\ calls' = Made(t)
  /\ UNCHANGED <<count, program, unsignalled>>

Spurious ==
  /\ SpuriousWakeups
  /\ at' \in SpuriousWakeup(at, DOMAIN count \cup {"cond"})
  /\ unsignalled' = TRUE
  /\ UNCHANGED <<count, program, calls, turn, printed>>

Step(t) ==
  \/ Down(t) \/ Up(t) \/ PrintLine(t) \/ Report(t) \/ Join(t)
  \/ SetTurn(t) \/ Create(t) \/ TakeTurn(t)

Next == Spurious \/ \E t \in Threads : Step(t)

Spec == Init /\ [][Next]_vars

(* Every thread that is not asleep gets the mutex in the end.              *)
ThreadIds ==
  0 .. NUM_THREADS - 1 \cup 0 .. NUM_PRINTERS \cup 0 .. N \cup 1 .. NUM_CALLERS
FairSpec == Spec /\ \A t \in ThreadIds : WF_vars(t \in Threads /\ Step(t))

-----------------------------------------------------------------------------
(* A thread sleeps only inside the call it is to return from, and          *)
(* test-toggle's zemaphores are binary while every wakeup is a signal's.   *)
TypeOK ==
  /\ count \in [DOMAIN count -> Int]
  /\ turn \in 0 .. N
  /\ printed \in [Threads -> Nat]
  /\ \A t \in Threads :
       at[t] # "running" =>
         /\ NextCall(t, "zem_down") \/ NextCall(t, "take_turn")
         /\ at[t] \in {Woken, Head(calls[t])[2]}
  /\ program = "test-toggle" /\ ~unsignalled =>
       \A s \in DOMAIN count : count[s] \in {0, 1}

WokenOn(s) == {t \in Threads : at[t] = Woken /\ Head(calls[t])[2] = s}

(* Nobody sleeps while the zemaphore has a unit for it: as long as a       *)
(* thread is asleep on s, every unit that zem_up has added is owed to a    *)
(* thread that is already awake.                                           *)
UnitsAreOwed ==
  \A s \in DOMAIN count :
    Sleepers(at, s) # {} => count[s] <= Cardinality(WokenOn(s))

(* The invariant of the zemaphore: threads sleep where they should, and no *)
(* longer than they should.                                                *)
ZemInv == TypeOK /\ UnitsAreOwed

Printers == IF program = "test-toggle" THEN Threads ELSE Threads \ {0}

(* "Wait for turn": the lines of test-toggle.c come out as 0, 1, 2, 0, 1,  *)
(* 2, ... as long as no wait returns without a signal, and those of ex3.c  *)
(* and of every round of ex4.c in the order of the indices, whatever wakes *)
(* the threads: a thread is never behind the next one, nor more than one   *)
(* line ahead.  main resets turn without the mutex: no thread of the round *)
(* before is left to see it.                                               *)
PrintsInTurn ==
  /\ program \in {"ex3", "ex4"} \/ (program = "test-toggle" /\ ~unsignalled) =>
       \A t, u \in Printers : t < u => printed[t] - printed[u] \in {0, 1}
  /\ program \in {"ex3", "ex4"} /\ NextCall(0, "set_turn") =>
       \A t \in Printers : calls[t] = <<>>

PrintersDone == Cardinality({t \in Threads \ {0} : printed[t] > 0})

(* What main reports in test-zem.c has happened: when it prints its n-th   *)
(* line about the others, at least n of them have printed.                 *)
ReportsAreTrue ==
  program = "test-zem" /\ ~unsignalled /\ NextCall(0, "report") =>
    PrintersDone >= Head(calls[0])[2]

(* "One thread has printed": main's lines count the threads exactly.       *)
OneAtATime ==
  program = "test-zem" /\ ~unsignalled /\ NextCall(0, "report") =>
    PrintersDone = Head(calls[0])[2]

(* Every thread of the four programs returns, and so does main, even when  *)
(* waits return without a signal.                                          *)
AllThreadsReturn ==
  program # "any" ~> \A t \in Threads : calls[t] = <<>>
=============================================================================
