------------------------ MODULE ThreadProgramsProofs ------------------------
(***************************************************************************)
(* Theorems about ThreadPrograms, for every number of threads, rounds and  *)
(* calls, with or without spurious wakeups: nobody sleeps on a free unit,  *)
(* whatever program uses the zemaphores, and the programs of the           *)
(* repository print in turn and report what has happened.                  *)
(***************************************************************************)
EXTENDS ThreadPrograms, FiniteSetTheorems, SequenceTheorems, TLAPS

-----------------------------------------------------------------------------
(* The inductive invariant.                                                *)

Zems == DOMAIN count
TakesTurns == program \in {"ex3", "ex4"}

Call == IF TakesTurns
        THEN ({"set_turn", "create", "join"} \X Nat) \cup {<<"take_turn", "cond">>}
        ELSE ({"zem_down", "zem_up"} \X Zems) \cup ({"print", "report", "join"} \X Nat)

(* The threads and zemaphores of each program.                             *)
ProgramOK ==
  \/ /\ program = "test-toggle"
     /\ Threads = 0 .. NUM_THREADS - 1 /\ Zems = {zem[t] : t \in DOMAIN zem}
  \/ program = "test-zem" /\ Threads = 0 .. NUM_PRINTERS /\ Zems = {"child", "parent"}
  \/ TakesTurns /\ Threads = 0 .. N /\ Zems = {}
  \/ program = "any" /\ Threads = 1 .. NUM_CALLERS /\ Zems = {"child"}

Types ==
  /\ ProgramOK
  /\ count \in [Zems -> Int]
  /\ at \in [Threads -> Zems \cup {"running", Woken, "cond"}]
  /\ calls \in [Threads -> Seq(Call)]
  /\ printed \in [Threads -> Nat]
  /\ turn \in 0 .. N /\ (~TakesTurns => turn = 0)

(* A thread that is not running is inside the call it has to make next.    *)
InsideCall(t) ==
  /\ NextCall(t, "zem_down") \/ NextCall(t, "take_turn")
  /\ at[t] \in {Woken, Head(calls[t])[2]}
AsleepInCalls == \A t \in Threads : at[t] # "running" => InsideCall(t)

(* s is what is left to do of whole.                                       *)
Suffix(s, whole) ==
  /\ Len(s) <= Len(whole)
  /\ \A i \in 1 .. Len(s) : s[i] = whole[Len(whole) - Len(s) + i]

(* test-toggle.c: thread h has made r rounds and p calls of the next one.  *)
(* Those before it are a round ahead.  One unit is in use: it is h's       *)
(* zemaphore's, or h has taken it.                                         *)
TokenAt(h, r, p) ==
  \A t \in Threads :
    /\ 3 * NUM_ITER - Len(calls[t])
         = IF t < h THEN 3 * (r + 1) ELSE IF t = h THEN 3 * r + p ELSE 3 * r
    /\ count[zem[t]] = (IF t = h /\ p = 0 THEN 1 ELSE 0)
    /\ at[t] = Woken => t = h /\ p = 0
    /\ printed[t] = IF t < h \/ (t = h /\ p = 2) THEN r + 1 ELSE r
ToggleInv ==
  /\ \A t \in Threads : Suffix(calls[t], ToggleCalls(t))
  /\ \E h \in Threads, r \in Nat, p \in 0 .. 2 : TokenAt(h, r, p)

(* test-zem.c: "parent" has a unit for each printer that has ended and     *)
(* that main has not waited for, and wakes main for one.                   *)
Ended == {t \in Threads \ {0} : calls[t] = <<>>}
MainMade == 3 * NUM_PRINTERS + 2 - Len(calls[0])  \* calls main has made
Waited == MainMade \div 3
ReportInv ==
  /\ Suffix(calls[0], MainCalls)
  /\ \A t \in Threads \ {0} :
       /\ Suffix(calls[t], PrinterCalls(t))
       /\ Len(calls[t]) <= 1 => printed[t] > 0
  /\ count["parent"] = Cardinality(Ended) - Waited
  /\ count["parent"] >= 0
  /\ at[0] = Woken => count["parent"] > 0

(* ex3.c and ex4.c: main has made r rounds and q calls of the next one,    *)
(* which has created the threads before q; of these, those up to turn have *)
(* printed and ended.  Before the round's first call all have ended.       *)
MainText == [i \in 1 .. Rounds * (N + 2) |-> RoundCalls[((i - 1) % (N + 2)) + 1]]
RoundAt(r, q) ==
  /\ Len(MainText) - Len(calls[0]) = r * (N + 2) + q
  /\ q > 0 => turn < q
  /\ \A t \in Threads \ {0} :
       /\ calls[t] = IF turn < t /\ t < q THEN RoutineCalls ELSE <<>>
       /\ printed[t] = IF q > 0 /\ t <= turn THEN r + 1 ELSE r
TurnInv ==
  /\ Suffix(calls[0], MainText)
  /\ \E r \in 0 .. Rounds, q \in 0 .. N + 1 : RoundAt(r, q)

ZemInvariant == Types /\ AsleepInCalls /\ UnitsAreOwed
ProgramsInv ==
  /\ ZemInvariant
  /\ program = "test-toggle" /\ ~unsignalled => ToggleInv
  /\ program = "test-zem" /\ ~unsignalled => ReportInv
  /\ TakesTurns => TurnInv

-----------------------------------------------------------------------------
(* When only t may have come or gone, the number of threads changes by at  *)
(* most one, and by what has become of t.                                  *)
LEMMA CardinalityAfterMove ==
  ASSUME NEW S, IsFiniteSet(S), NEW t, NEW T,
         \A u : u # t => (u \in T <=> u \in S)
  PROVE  Cardinality(T) = Cardinality(S) + (IF t \in T THEN 1 ELSE 0)
                                         - (IF t \in S THEN 1 ELSE 0)
<1>0. Cardinality(S) \in Nat
  BY FS_CardinalityType
<1>1. CASE t \in T /\ t \in S
  <2>1. T = S
    BY <1>1
  <2>2. QED
    BY <1>0, <1>1, <2>1
<1>2. CASE t \in T /\ t \notin S
  <2>1. T = S \cup {t}
    BY <1>2
  <2>2. Cardinality(T) = Cardinality(S) + 1
    BY <1>2, <2>1, FS_AddElement
  <2>3. QED
    BY <1>0, <1>2, <2>2
<1>3. CASE t \notin T /\ t \in S
  <2>1. T = S \ {t}
    BY <1>3
  <2>2. Cardinality(T) = Cardinality(S) - 1
    BY <1>3, <2>1, FS_RemoveElement
  <2>3. QED
    BY <1>0, <1>3, <2>2
<1>4. CASE t \notin T /\ t \notin S
  <2>1. T = S
    BY <1>4
  <2>2. QED
    BY <1>0, <1>4, <2>1
<1>5. QED
  BY <1>1, <1>2, <1>3, <1>4

-----------------------------------------------------------------------------
(* Calls that are made one after the other.                                *)

LEMMA TailFacts ==
  ASSUME NEW S, NEW s \in Seq(S), s # <<>>
  PROVE  /\ Len(s) \in Nat \ {0} /\ Head(s) = s[1] /\ Head(s) \in S
         /\ Tail(s) \in Seq(S) /\ Len(Tail(s)) = Len(s) - 1
         /\ \A i \in 1 .. Len(s) - 1 : Tail(s)[i] = s[i + 1]
OBVIOUS

(* The next call is the one of the text that follows those already made.   *)
LEMMA NextOfText ==
  ASSUME NEW S, NEW s \in Seq(S), s # <<>>, NEW whole, Len(whole) \in Nat,
         Suffix(s, whole)
  PROVE  /\ Head(s) = whole[Len(whole) - Len(s) + 1]
         /\ Len(s) \in 1 .. Len(whole) /\ Len(Tail(s)) = Len(s) - 1
         /\ Suffix(Tail(s), whole)
<1>1. /\ Len(s) \in Nat \ {0} /\ Len(s) <= Len(whole) /\ Head(s) = s[1]
      /\ Len(Tail(s)) = Len(s) - 1
      /\ \A i \in 1 .. Len(s) - 1 : Tail(s)[i] = s[i + 1]
  BY TailFacts DEF Suffix
<1>2. Head(s) = whole[Len(whole) - Len(s) + 1]
  BY <1>1 DEF Suffix
<1>3. ASSUME NEW i \in 1 .. Len(Tail(s))
      PROVE  Tail(s)[i] = whole[Len(whole) - Len(Tail(s)) + i]
  <2>1. i + 1 \in 1 .. Len(s) /\ Tail(s)[i] = s[i + 1]
    BY <1>1
  <2>2. s[i + 1] = whole[Len(whole) - Len(s) + (i + 1)]
    BY <2>1 DEF Suffix
  <2>3. Len(whole) - Len(s) + (i + 1) = Len(whole) - Len(Tail(s)) + i
    BY <1>1
  <2>4. QED
    BY <2>1, <2>2, <2>3
<1>4. QED
  BY <1>1, <1>2, <1>3 DEF Suffix

(* The same, by the number of calls made.                                  *)
Passed(s, whole) == Len(whole) - Len(s)

LEMMA NextInText ==
  ASSUME NEW S, NEW s \in Seq(S), s # <<>>, NEW whole, Len(whole) \in Nat,
         Suffix(s, whole)
  PROVE  /\ Passed(s, whole) \in 0 .. Len(whole) - 1
         /\ Head(s) = whole[Passed(s, whole) + 1]
         /\ Suffix(Tail(s), whole)
         /\ Passed(Tail(s), whole) = Passed(s, whole) + 1
<1>1. /\ Head(s) = whole[Len(whole) - Len(s) + 1] /\ Len(s) \in 1 .. Len(whole)
      /\ Len(Tail(s)) = Len(s) - 1 /\ Suffix(Tail(s), whole)
  BY NextOfText
<1>2. QED
  BY <1>1 DEF Passed

LEMMA WholeIsSuffix ==
  ASSUME NEW S, NEW whole \in Seq(S)
  PROVE  Suffix(whole, whole) /\ Len(whole) \in Nat
BY DEF Suffix

(* What a thread's next call may be.                                       *)
LEMMA CallFacts ==
  ASSUME Types, NEW t \in Threads, NEW c, NextCall(t, c)
  PROVE  /\ calls[t] \in Seq(Call) /\ calls[t] # <<>> /\ Head(calls[t]) \in Call
         /\ Head(calls[t])[1] = c
         /\ c \in {"zem_down", "zem_up"} => ~TakesTurns /\ Head(calls[t])[2] \in Zems
         /\ c \in {"set_turn", "create"} => TakesTurns /\ Head(calls[t])[2] \in Nat
         /\ c = "take_turn" => TakesTurns /\ Head(calls[t]) = <<"take_turn", "cond">>
         /\ c \in {"print", "report"} => ~TakesTurns
<1>1. calls[t] \in Seq(Call) /\ calls[t] # <<>> /\ Head(calls[t]) \in Call
  BY TailFacts DEF Types, NextCall
<1>2. Head(calls[t])[1] = c
  BY DEF NextCall
<1>3. QED
  BY <1>1, <1>2 DEF Call

(* The threads that are inside a call, by the call.                        *)
LEMMA RunningInside ==
  ASSUME Types, AsleepInCalls, NEW t \in Threads, NEW c, NextCall(t, c),
         c \notin {"zem_down", "take_turn"}
  PROVE  at[t] = "running"
BY DEF AsleepInCalls, InsideCall, NextCall

LEMMA ZemsApart ==
  ASSUME Types
  PROVE  /\ \A s \in Zems : s \notin {"running", Woken, "cond"}
         /\ "cond" \notin {"running", Woken} /\ Woken # "running"
BY ThreadProgramsAssumption DEF Types, ProgramOK, Woken

(* The thread t has made its call.                                         *)
LEMMA MadeFacts ==
  ASSUME Types, NEW t \in Threads, calls[t] # <<>>
  PROVE  /\ Made(t) \in [Threads -> Seq(Call)]
         /\ Made(t)[t] = Tail(calls[t])
         /\ \A u \in Threads \ {t} : Made(t)[u] = calls[u]
<1>1. Tail(calls[t]) \in Seq(Call) /\ calls \in [Threads -> Seq(Call)]
  BY TailFacts DEF Types
<1>2. QED
  BY <1>1 DEF Made

(* No step changes the program, its threads or its zemaphores.             *)
LEMMA SameProgram ==
  ASSUME ProgramOK, program' = program,
         DOMAIN calls' = DOMAIN calls, DOMAIN count' = DOMAIN count
  PROVE  /\ ProgramOK' /\ Threads' = Threads /\ Zems' = Zems
         /\ (TakesTurns' <=> TakesTurns) /\ Call' = Call
<1>1. Threads' = Threads /\ Zems' = Zems /\ (TakesTurns' <=> TakesTurns)
  BY DEF Threads, Zems, TakesTurns
<1>2. QED
  BY <1>1 DEF ProgramOK, Call, TakesTurns

-----------------------------------------------------------------------------
(* The zemaphores' units, in every program.                                *)

LEMMA ThreadsFinite == Types => IsFiniteSet(Threads)
<1>1. /\ IsFiniteSet(0 .. NUM_THREADS - 1) /\ IsFiniteSet(0 .. NUM_PRINTERS)
      /\ IsFiniteSet(0 .. N) /\ IsFiniteSet(1 .. NUM_CALLERS)
  BY FS_Interval, ThreadProgramsAssumption
<1>2. QED
  BY <1>1 DEF Types, ProgramOK

LEMMA WokenFinite ==
  Types => \A s : IsFiniteSet(WokenOn(s)) /\ Cardinality(WokenOn(s)) \in Nat
<1>1. ASSUME NEW s PROVE WokenOn(s) \subseteq Threads
  BY DEF WokenOn
<1>2. QED
  BY <1>1, ThreadsFinite, FS_Subset, FS_CardinalityType

LEMMA NextWokenFinite ==
  ASSUME Types, Threads' = Threads, NEW s
  PROVE  IsFiniteSet(WokenOn(s)') /\ Cardinality(WokenOn(s)') \in Nat
<1>1. WokenOn(s)' \subseteq Threads
  BY DEF WokenOn
<1>2. QED
  BY <1>1, ThreadsFinite, FS_Subset, FS_CardinalityType

(* A zemaphore whose sleepers are no more, whose woken threads are no      *)
(* fewer and whose count has not grown owes what it owed.                  *)
LEMMA OwedKept ==
  ASSUME Types, UnitsAreOwed, Threads' = Threads, DOMAIN at' = Threads,
         NEW s \in Zems, count'[s] \in Int, count'[s] <= count[s],
         \A u \in Threads : at'[u] = s => at[u] = s,
         \A u \in Threads : u \in WokenOn(s) => u \in WokenOn(s)',
         IsFiniteSet(WokenOn(s)')
  PROVE  Sleepers(at, s)' # {} => count'[s] <= Cardinality(WokenOn(s)')
<1> SUFFICES ASSUME Sleepers(at, s)' # {}
             PROVE  count'[s] <= Cardinality(WokenOn(s)')
  OBVIOUS
<1>1. Sleepers(at, s) # {}
  BY DEF Sleepers, Types
<1>2. count[s] <= Cardinality(WokenOn(s)) /\ count[s] \in Int
  BY <1>1 DEF UnitsAreOwed, Zems, Types
<1>3. WokenOn(s) \subseteq WokenOn(s)'
  BY DEF WokenOn
<1>4. /\ Cardinality(WokenOn(s)) <= Cardinality(WokenOn(s)')
      /\ Cardinality(WokenOn(s)) \in Nat /\ Cardinality(WokenOn(s)') \in Nat
  BY <1>3, FS_Subset, FS_CardinalityType
<1>5. QED
  BY <1>2, <1>4

(* A step that is no call of the zemaphore, by a running thread.           *)
Passes(t) ==
  /\ calls[t] # <<>> /\ at[t] = "running"
  /\ calls' = Made(t) /\ UNCHANGED <<count, at, program>>
  /\ turn' \in 0 .. N /\ (~TakesTurns => turn' = turn)
  /\ printed' \in [Threads -> Nat]

LEMMA PassesKeepsZem ==
  ASSUME ZemInvariant, NEW t \in Threads, Passes(t)
  PROVE  ZemInvariant'
<1> USE DEF ZemInvariant
<1>1. /\ Made(t) \in [Threads -> Seq(Call)]
      /\ \A u \in Threads \ {t} : calls'[u] = calls[u]
  BY MadeFacts DEF Passes
<1>2. /\ ProgramOK' /\ Threads' = Threads /\ Zems' = Zems
      /\ (TakesTurns' <=> TakesTurns) /\ Call' = Call
  BY <1>1, SameProgram DEF Passes, Types, Threads
<1>3. Types'
  BY <1>1, <1>2 DEF Passes, Types
<1>4. AsleepInCalls'
  BY <1>1, <1>2 DEF Passes, AsleepInCalls, InsideCall, NextCall
<1>5. ASSUME NEW s \in Zems
      PROVE  Sleepers(at, s)' # {} => count'[s] <= Cardinality(WokenOn(s)')
  <2>1. \A u \in Threads : u \in WokenOn(s) => u \in WokenOn(s)'
    BY <1>1, <1>2, ZemsApart DEF WokenOn, Passes
  <2>2. DOMAIN at' = Threads /\ count'[s] \in Int /\ count'[s] <= count[s]
    BY DEF Passes, Types
  <2>3. IsFiniteSet(WokenOn(s)')
    BY <1>2, NextWokenFinite
  <2>4. QED
    BY <1>2, <2>1, <2>2, <2>3, OwedKept DEF Passes
<1>6. QED
  BY <1>2, <1>3, <1>4, <1>5 DEF UnitsAreOwed, Zems

(* zem_down sleeps when there is no unit, and takes one otherwise.         *)
LEMMA DownSleepsKeepsZem ==
  ASSUME ZemInvariant, NEW t \in Threads, NextCall(t, "zem_down"),
         NEW s, s = Head(calls[t])[2],
         at[t] = "running", MustSleep(s), at' = [at EXCEPT ![t] = s],
         UNCHANGED <<count, calls, program, turn, printed>>
  PROVE  ZemInvariant'
<1> USE DEF ZemInvariant
<1>1. s \in Zems /\ ~TakesTurns
  BY CallFacts
<1>2. /\ ProgramOK' /\ Threads' = Threads /\ Zems' = Zems
      /\ (TakesTurns' <=> TakesTurns) /\ Call' = Call
  BY SameProgram DEF Types
<1>3. /\ at'[t] = s /\ \A u \in Threads \ {t} : at'[u] = at[u]
      /\ DOMAIN at' = Threads
  BY DEF Types
<1>4. Types'
  BY <1>1, <1>2 DEF Types
<1>5. AsleepInCalls'
  BY <1>2, <1>3 DEF AsleepInCalls, InsideCall, NextCall
<1>6. ASSUME NEW z \in Zems
      PROVE  Sleepers(at, z)' # {} => count'[z] <= Cardinality(WokenOn(z)')
  <2>1. IsFiniteSet(WokenOn(z)') /\ Cardinality(WokenOn(z)') \in Nat
    BY <1>2, NextWokenFinite
  <2>2. CASE z = s
    BY <2>1, <2>2 DEF MustSleep, Types
  <2>3. CASE z # s
    <3>1. \A u \in Threads : at'[u] = z => at[u] = z
      BY <1>3, <2>3
    <3>2. \A u \in Threads : u \in WokenOn(z) => u \in WokenOn(z)'
      BY <1>2, <1>3, ZemsApart DEF WokenOn
    <3>3. count'[z] \in Int /\ count'[z] <= count[z]
      BY DEF Types
    <3>4. QED
      BY <1>2, <1>3, <2>1, <3>1, <3>2, <3>3, OwedKept
  <2>4. QED
    BY <2>2, <2>3
<1>7. QED
  BY <1>2, <1>4, <1>5, <1>6 DEF UnitsAreOwed, Zems

LEMMA DownTakesKeepsZem ==
  ASSUME ZemInvariant, NEW t \in Threads, NextCall(t, "zem_down"),
         NEW s, s = Head(calls[t])[2],
         (at[t] = "running" /\ ~MustSleep(s)) \/ at[t] = Woken,
         count' = [count EXCEPT ![s] = @ - 1],
         at' = [at EXCEPT ![t] = "running"],
         calls' = Made(t), UNCHANGED <<program, turn, printed>>
  PROVE  ZemInvariant'
<1> USE DEF ZemInvariant
<1>1. s \in Zems /\ ~TakesTurns /\ calls[t] # <<>>
  BY CallFacts
<1>2. /\ Made(t) \in [Threads -> Seq(Call)]
      /\ \A u \in Threads \ {t} : calls'[u] = calls[u]
  BY <1>1, MadeFacts
<1>3. /\ at'[t] = "running" /\ \A u \in Threads \ {t} : at'[u] = at[u]
      /\ DOMAIN at' = Threads
      /\ count[s] \in Int /\ count'[s] = count[s] - 1
      /\ \A z \in Zems \ {s} : count'[z] = count[z]
      /\ count' \in [Zems -> Int]
  BY <1>1 DEF Types
<1>4. /\ ProgramOK' /\ Threads' = Threads /\ Zems' = Zems
      /\ (TakesTurns' <=> TakesTurns) /\ Call' = Call
  BY <1>2, <1>3, SameProgram DEF Types, Threads, Zems
<1>5. Types'
  <2>1. at' \in [Threads -> Zems \cup {"running", Woken, "cond"}]
    BY DEF Types
  <2>2. QED
    BY <1>1, <1>2, <1>3, <1>4, <2>1 DEF Types
<1>6. AsleepInCalls'
  BY <1>2, <1>3, <1>4 DEF AsleepInCalls, InsideCall, NextCall
<1>7. ASSUME NEW z \in Zems
      PROVE  Sleepers(at, z)' # {} => count'[z] <= Cardinality(WokenOn(z)')
  <2>1. IsFiniteSet(WokenOn(z)') /\ Cardinality(WokenOn(z)') \in Nat
    BY <1>4, NextWokenFinite
  <2>2. \A u \in Threads : at'[u] = z => at[u] = z
    BY <1>3, ZemsApart
  <2>3. \A u \in Threads \ {t} : u \in WokenOn(z) <=> u \in WokenOn(z)'
    BY <1>2, <1>3, <1>4 DEF WokenOn
  <2>4. CASE z = s /\ at[t] = Woken
    <3>1. t \in WokenOn(z) /\ t \notin WokenOn(z)'
      BY <1>3, <2>4, ZemsApart DEF WokenOn
    <3>2. WokenOn(z)' = WokenOn(z) \ {t}
      BY <1>4, <2>3, <3>1 DEF WokenOn
    <3>3. Cardinality(WokenOn(z)') = Cardinality(WokenOn(z)) - 1
      BY <3>1, <3>2, WokenFinite, FS_RemoveElement
    <3>4. Sleepers(at, z)' # {} => Sleepers(at, z) # {}
      BY <1>3, <2>2 DEF Sleepers, Types
    <3>5. Sleepers(at, z) # {} => count[z] <= Cardinality(WokenOn(z))
      BY DEF UnitsAreOwed, Zems
    <3>6. Cardinality(WokenOn(z)) \in Nat
      BY WokenFinite
    <3>7. count'[z] = count[z] - 1 /\ count[z] \in Int
      BY <1>3, <2>4
    <3>8. count[z] <= Cardinality(WokenOn(z))
            => count'[z] <= Cardinality(WokenOn(z)')
      BY <3>3, <3>6, <3>7
    <3>9. QED
      BY <3>4, <3>5, <3>8
  <2>5. CASE z # s \/ at[t] # Woken
    <3>1. t \notin WokenOn(z)
      BY <2>5 DEF WokenOn
    <3>2. count'[z] \in Int /\ count'[z] <= count[z]
      BY <1>3 DEF Types
    <3>3. \A u \in Threads : u \in WokenOn(z) => u \in WokenOn(z)'
      BY <2>3, <3>1
    <3>4. QED
      BY <1>3, <1>4, <2>1, <2>2, <3>2, <3>3, OwedKept
  <2>6. QED
    BY <2>4, <2>5
<1>8. QED
  BY <1>4, <1>5, <1>6, <1>7 DEF UnitsAreOwed, Zems

(* zem_up adds a unit and wakes a sleeper, if there is one, who is owed it.*)
LEMMA UpKeepsZem ==
  ASSUME ZemInvariant, NEW t \in Threads, NextCall(t, "zem_up"),
         NEW s, s = Head(calls[t])[2], zem_up(s),
         calls' = Made(t), UNCHANGED <<program, turn, printed>>
  PROVE  /\ ZemInvariant'
         /\ at[t] = "running" /\ at'[t] = "running"
         /\ \A u \in Threads : at'[u] = at[u] \/ (at[u] = s /\ at'[u] = Woken)
<1> USE DEF ZemInvariant
<1>1. s \in Zems /\ ~TakesTurns /\ calls[t] # <<>> /\ at[t] = "running"
  BY CallFacts, RunningInside
<1>2. /\ Made(t) \in [Threads -> Seq(Call)]
      /\ \A u \in Threads \ {t} : calls'[u] = calls[u]
  BY <1>1, MadeFacts
<1> DEFINE P == Zems \cup {"running", Woken, "cond"}
<1>3. at \in [Threads -> P] /\ Woken \in P /\ at' \in Signal(at, s)
  BY DEF Types, zem_up
<1> HIDE DEF P
<1>4. /\ at' \in [Threads -> P]
      /\ \A u \in Threads : at'[u] = at[u] \/ (at[u] = s /\ at'[u] = Woken)
      /\ (\E u \in Threads : at[u] = s) => \E u \in Threads : at[u] = s /\ at'[u] = Woken
  <2>1. CASE Sleepers(at, s) = {}
    BY <1>3, <2>1 DEF Signal, Sleepers
  <2>2. CASE Sleepers(at, s) # {}
    <3>1. PICK v \in Sleepers(at, s) : at' = [at EXCEPT ![v] = Woken]
      BY <1>3, <2>2 DEF Signal
    <3>2. v \in Threads /\ at[v] = s
      BY <1>3 DEF Sleepers
    <3>3. at'[v] = Woken /\ \A u \in Threads \ {v} : at'[u] = at[u]
      BY <1>3, <3>1, <3>2
    <3>4. at' \in [Threads -> P]
      BY <1>3, <3>1
    <3>5. QED
      BY <3>2, <3>3, <3>4
  <2>3. QED
    BY <2>1, <2>2
<1> USE DEF P
<1>5. at'[t] = "running"
  BY <1>1, <1>4, ZemsApart
<1>6. /\ count[s] \in Int /\ count'[s] = count[s] + 1
      /\ \A z \in Zems \ {s} : count'[z] = count[z]
      /\ count' \in [Zems -> Int]
  BY <1>1 DEF Types, zem_up
<1>7. /\ ProgramOK' /\ Threads' = Threads /\ Zems' = Zems
      /\ (TakesTurns' <=> TakesTurns) /\ Call' = Call
  BY <1>2, <1>6, SameProgram DEF Types, Threads, Zems
<1>8. Types'
  BY <1>1, <1>2, <1>4, <1>6, <1>7 DEF Types
<1>9. AsleepInCalls'
  <2>1. \A u \in Threads : at'[u] # "running" => u # t /\ at[u] # "running"
    BY <1>1, <1>4, <1>5, ZemsApart
  <2>2. \A u \in Threads : at'[u] # "running" => InsideCall(u)
    BY <2>1 DEF AsleepInCalls
  <2>3. \A u \in Threads \ {t} : InsideCall(u) => InsideCall(u)'
    BY <1>2, <1>4 DEF InsideCall, NextCall
  <2>4. QED
    BY <1>7, <2>1, <2>2, <2>3 DEF AsleepInCalls
<1>10. ASSUME NEW z \in Zems
       PROVE  Sleepers(at, z)' # {} => count'[z] <= Cardinality(WokenOn(z)')
  <2>1. IsFiniteSet(WokenOn(z)') /\ Cardinality(WokenOn(z)') \in Nat
    BY <1>7, NextWokenFinite
  <2>2. \A u \in Threads : at'[u] = z => at[u] = z
    BY <1>4, ZemsApart
  <2>3. \A u \in Threads : u \in WokenOn(z) => u \in WokenOn(z)'
    BY <1>1, <1>2, <1>4, <1>7, ZemsApart DEF WokenOn
  <2>4. CASE z = s
    <3>1. Sleepers(at, z)' # {} => \E u \in Threads : at[u] = s
      BY <1>4, <2>2, <2>4 DEF Sleepers
    <3>2. SUFFICES ASSUME Sleepers(at, z)' # {}
                   PROVE  count'[z] <= Cardinality(WokenOn(z)')
      OBVIOUS
    <3>3. PICK u \in Threads : at[u] = s /\ at'[u] = Woken
      BY <1>4, <3>1, <3>2
    <3>4. u # t /\ NextCall(u, "zem_down") /\ Head(calls[u])[2] = s
      <4>1. at[u] # "running" /\ at[u] # Woken /\ at[u] # "cond"
        BY <1>1, <3>3, ZemsApart
      <4>2. InsideCall(u)
        BY <4>1 DEF AsleepInCalls
      <4>3. QED
        BY <1>1, <3>3, <4>1, <4>2, CallFacts DEF InsideCall
    <3>5. u \in WokenOn(z)' /\ u \notin WokenOn(z)
      BY <1>1, <1>2, <1>7, <2>4, <3>3, <3>4, ZemsApart DEF WokenOn
    <3>6. WokenOn(z) \cup {u} \subseteq WokenOn(z)'
      BY <2>3, <3>5 DEF WokenOn
    <3>7. /\ IsFiniteSet(WokenOn(z)) /\ Cardinality(WokenOn(z)) \in Nat
          /\ Cardinality(WokenOn(z) \cup {u}) = Cardinality(WokenOn(z)) + 1
      BY <3>5, WokenFinite, FS_AddElement
    <3>8. Cardinality(WokenOn(z)) + 1 <= Cardinality(WokenOn(z)')
      BY <2>1, <3>6, <3>7, FS_Subset
    <3>9. Sleepers(at, z) # {}
      BY <2>4, <3>3 DEF Sleepers, Types
    <3>10. count[z] <= Cardinality(WokenOn(z))
      BY <3>9 DEF UnitsAreOwed, Zems
    <3>11. count'[z] = count[z] + 1 /\ count[z] \in Int
      BY <1>6, <2>4
    <3>12. QED
      BY <2>1, <3>7, <3>8, <3>10, <3>11
  <2>5. CASE z # s
    <3>1. count'[z] \in Int /\ count'[z] <= count[z]
      BY <1>6, <2>5 DEF Types
    <3>2. DOMAIN at' = Threads
      BY <1>4
    <3>3. QED
      BY <1>7, <2>1, <2>2, <2>3, <3>1, <3>2, OwedKept
  <2>6. QED
    BY <2>4, <2>5
<1>11. QED
  BY <1>1, <1>4, <1>5, <1>7, <1>8, <1>9, <1>10 DEF UnitsAreOwed, Zems

(* A thread that wakes up without a signal is one sleeper less.            *)
LEMMA SpuriousKeepsZem ==
  ASSUME ZemInvariant, Spurious
  PROVE  /\ ZemInvariant' /\ DOMAIN at' = Threads
         /\ \A u \in Threads : at'[u] = at[u] \/ (at[u] # "running" /\ at'[u] = Woken)
<1> USE DEF ZemInvariant
<1>1. PICK t \in Threads : at[t] \in Zems \cup {"cond"} /\ at' = [at EXCEPT ![t] = Woken]
  BY DEF Spurious, SpuriousWakeup, Types, Zems
<1>2. /\ UNCHANGED <<count, program, calls, turn, printed>>
      /\ at' \in [Threads -> Zems \cup {"running", Woken, "cond"}]
      /\ at'[t] = Woken /\ \A u \in Threads \ {t} : at'[u] = at[u]
  BY <1>1 DEF Spurious, Types
<1>3. at[t] # "running" /\ at[t] # Woken
  BY <1>1, ZemsApart
<1>4. /\ ProgramOK' /\ Threads' = Threads /\ Zems' = Zems
      /\ (TakesTurns' <=> TakesTurns) /\ Call' = Call
  BY <1>2, SameProgram DEF Types
<1>5. Types'
  BY <1>2, <1>4 DEF Types
<1>6. AsleepInCalls'
  <2>1. \A u \in Threads : at'[u] # "running" => InsideCall(u)
    BY <1>2, <1>3 DEF AsleepInCalls
  <2>2. \A u \in Threads : InsideCall(u) => InsideCall(u)'
    BY <1>2 DEF InsideCall, NextCall
  <2>3. QED
    BY <1>4, <2>1, <2>2 DEF AsleepInCalls
<1>7. ASSUME NEW z \in Zems
      PROVE  Sleepers(at, z)' # {} => count'[z] <= Cardinality(WokenOn(z)')
  <2>1. \A u \in Threads : at'[u] = z => at[u] = z
    BY <1>2, ZemsApart
  <2>2. \A u \in Threads : u \in WokenOn(z) => u \in WokenOn(z)'
    BY <1>2, <1>4 DEF WokenOn
  <2>3. /\ DOMAIN at' = Threads /\ count'[z] \in Int /\ count'[z] <= count[z]
    BY <1>2 DEF Types
  <2>4. IsFiniteSet(WokenOn(z)')
    BY <1>4, NextWokenFinite
  <2>5. QED
    BY <1>4, <2>1, <2>2, <2>3, <2>4, OwedKept
<1>8. QED
  BY <1>2, <1>3, <1>4, <1>5, <1>6, <1>7 DEF UnitsAreOwed, Zems

(* ex3.c and ex4.c have no zemaphores.                                     *)
LEMMA CreateKeepsZem ==
  ASSUME ZemInvariant, NEW t \in Threads, Create(t), at[t] = "running",
         NEW i \in Nat \ {t}, i = Head(calls[t])[2], calls[i] = <<>>
  PROVE  /\ ZemInvariant' /\ calls'[t] = Tail(calls[t])
         /\ i \in Threads => calls'[i] = RoutineCalls
         /\ \A u \in Threads \ {t, i} : calls'[u] = calls[u]
<1> USE DEF ZemInvariant
<1>1. /\ NextCall(t, "create") /\ UNCHANGED <<count, at, program, turn, printed>>
      /\ calls' = [Made(t) EXCEPT ![i] = RoutineCalls]
  BY DEF Create
<1>2. TakesTurns /\ calls[t] # <<>>
  BY <1>1, CallFacts
<1>3. RoutineCalls \in Seq(Call)
  BY <1>2 DEF RoutineCalls, Call
<1>4. /\ Made(t) \in [Threads -> Seq(Call)]
      /\ Made(t)[t] = Tail(calls[t])
      /\ \A u \in Threads \ {t} : Made(t)[u] = calls[u]
  BY <1>2, MadeFacts
<1>5. /\ calls' \in [Threads -> Seq(Call)]
      /\ calls'[t] = Tail(calls[t])
      /\ i \in Threads => calls'[i] = RoutineCalls
      /\ \A u \in Threads \ {t, i} : calls'[u] = calls[u]
  BY <1>1, <1>3, <1>4
<1>6. /\ ProgramOK' /\ Threads' = Threads /\ Zems' = Zems
      /\ (TakesTurns' <=> TakesTurns) /\ Call' = Call
  BY <1>1, <1>5, SameProgram DEF Types, Threads
<1>7. Types'
  BY <1>1, <1>5, <1>6 DEF Types
<1>8. AsleepInCalls'
  <2>1. i \in Threads => at[i] = "running"
    BY DEF AsleepInCalls, InsideCall, NextCall
  <2>2. \A u \in Threads : at[u] # "running" => u \notin {t, i} /\ InsideCall(u)
    BY <2>1 DEF AsleepInCalls
  <2>3. \A u \in Threads \ {t, i} : InsideCall(u) => InsideCall(u)'
    BY <1>1, <1>5 DEF InsideCall, NextCall
  <2>4. QED
    BY <1>1, <1>6, <2>2, <2>3 DEF AsleepInCalls
<1>9. Zems' = {}
  BY <1>2, <1>6 DEF Types, ProgramOK, TakesTurns
<1>10. QED
  BY <1>5, <1>7, <1>8, <1>9 DEF UnitsAreOwed, Zems

(* A turn of routine: t waits, or prints and wakes the others.             *)
LEMMA TakeTurnEffect ==
  ASSUME Types, NEW t \in Threads, TakeTurn(t)
  PROVE  /\ calls[t] # <<>> /\ TakesTurns /\ Head(calls[t]) = <<"take_turn", "cond">>
         /\ UNCHANGED <<count, program, unsignalled>>
         /\ \/ /\ t - 1 # turn /\ at' = [at EXCEPT ![t] = "cond"]
               /\ UNCHANGED <<calls, turn, printed>>
            \/ /\ t - 1 = turn /\ turn' = turn + 1
               /\ printed' = [printed EXCEPT ![t] = @ + 1]
               /\ at' = [Broadcast(at, "cond") EXCEPT ![t] = "running"]
               /\ calls' = Made(t)
<1>1. NextCall(t, "take_turn")
  BY DEF TakeTurn
<1>2. calls[t] # <<>> /\ TakesTurns /\ Head(calls[t]) = <<"take_turn", "cond">>
  BY <1>1, CallFacts
<1>3. QED
  BY <1>2 DEF TakeTurn, WokenByTurn

LEMMA TakeTurnKeepsZem ==
  ASSUME ZemInvariant, NEW t \in Threads, TakeTurn(t)
  PROVE  ZemInvariant'
<1> USE DEF ZemInvariant
<1>1. /\ calls[t] # <<>> /\ TakesTurns /\ Head(calls[t]) = <<"take_turn", "cond">>
      /\ UNCHANGED <<count, program, unsignalled>>
  BY TakeTurnEffect
<1>2. /\ Made(t) \in [Threads -> Seq(Call)]
      /\ \A u \in Threads \ {t} : Made(t)[u] = calls[u]
  BY <1>1, MadeFacts
<1>3. /\ at' \in [Threads -> Zems \cup {"running", Woken, "cond"}]
      /\ at'[t] \in {"running", "cond"}
      /\ \A u \in Threads \ {t} :
           at'[u] = at[u] \/ (at[u] = "cond" /\ at'[u] = Woken)
      /\ at'[t] = "cond" => calls' = calls
      /\ calls' \in [Threads -> Seq(Call)]
      /\ \A u \in Threads \ {t} : calls'[u] = calls[u]
  <2>1. CASE t - 1 # turn /\ at' = [at EXCEPT ![t] = "cond"] /\ calls' = calls
    BY <2>1 DEF Types
  <2>2. CASE /\ at' = [Broadcast(at, "cond") EXCEPT ![t] = "running"]
             /\ calls' = Made(t)
    <3>1. /\ Broadcast(at, "cond") \in [Threads -> Zems \cup {"running", Woken, "cond"}]
          /\ \A u \in Threads : \/ Broadcast(at, "cond")[u] = at[u]
                                \/ at[u] = "cond" /\ Broadcast(at, "cond")[u] = Woken
      BY DEF Types, Broadcast
    <3>2. QED
      BY <1>2, <2>2, <3>1
  <2>3. QED
    BY <2>1, <2>2, TakeTurnEffect
<1>4. turn' \in 0 .. N /\ printed' \in [Threads -> Nat]
  <2>1. t \in 0 .. N /\ turn \in 0 .. N /\ printed \in [Threads -> Nat]
    BY <1>1 DEF Types, ProgramOK, TakesTurns
  <2>2. QED
    BY <2>1, TakeTurnEffect, ThreadProgramsAssumption
<1>5. /\ ProgramOK' /\ Threads' = Threads /\ Zems' = Zems
      /\ (TakesTurns' <=> TakesTurns) /\ Call' = Call
  BY <1>1, <1>3, SameProgram DEF Types, Threads
<1>6. Types'
  BY <1>1, <1>3, <1>4, <1>5 DEF Types
<1>7. AsleepInCalls'
  <2>1. ASSUME NEW u \in Threads \ {t}, at'[u] # "running" PROVE InsideCall(u)'
    <3>1. InsideCall(u)
      BY <1>3, <2>1 DEF AsleepInCalls
    <3>2. QED
      BY <1>3, <3>1 DEF InsideCall, NextCall
  <2>2. at'[t] # "running" => InsideCall(t)'
    BY <1>1, <1>3 DEF InsideCall, NextCall
  <2>3. QED
    BY <1>5, <2>1, <2>2 DEF AsleepInCalls
<1>8. Zems' = {}
  BY <1>1, <1>5 DEF Types, ProgramOK, TakesTurns
<1>9. QED
  BY <1>6, <1>7, <1>8 DEF UnitsAreOwed, Zems

-----------------------------------------------------------------------------
(* test-toggle.c.                                                          *)

ToggleCall(t, p) ==
  IF p = 0 THEN <<"zem_down", zem[t]>>
  ELSE IF p = 1 THEN <<"print", t>> ELSE <<"zem_up", zem[next_thread(t)]>>

LEMMA ToggleText ==
  ASSUME NEW t
  PROVE  /\ Len(ToggleCalls(t)) = 3 * NUM_ITER
         /\ \A r \in Nat, p \in 0 .. 2 : 3 * r + p < 3 * NUM_ITER =>
              ToggleCalls(t)[3 * r + p + 1] = ToggleCall(t, p)
<1> DEFINE round == << <<"zem_down", zem[t]>>, <<"print", t>>,
                       <<"zem_up", zem[next_thread(t)]>> >>
<1>1. ToggleCalls(t) = [i \in 1 .. 3 * NUM_ITER |-> round[((i - 1) % 3) + 1]]
  BY DEF ToggleCalls
<1>2. \A p \in 0 .. 2 : round[p + 1] = ToggleCall(t, p)
  BY DEF ToggleCall
<1> HIDE DEF round
<1>3. Len(ToggleCalls(t)) = 3 * NUM_ITER
  BY <1>1, ThreadProgramsAssumption
<1>4. ASSUME NEW r \in Nat, NEW p \in 0 .. 2, 3 * r + p < 3 * NUM_ITER
      PROVE  ToggleCalls(t)[3 * r + p + 1] = ToggleCall(t, p)
  <2>1. 3 * r + p + 1 \in 1 .. 3 * NUM_ITER /\ (3 * r + p + 1 - 1) % 3 = p
    BY <1>4, ThreadProgramsAssumption
  <2>2. ToggleCalls(t)[3 * r + p + 1] = round[p + 1]
    BY <1>1, <2>1
  <2>3. QED
    BY <1>2, <2>2
<1>5. QED
  BY <1>3, <1>4

(* The next call of thread t, when thread h has the token.                 *)
LEMMA ToggleNext ==
  ASSUME Types, program = "test-toggle", ToggleInv,
         NEW h \in Threads, NEW r \in Nat, NEW p \in 0 .. 2, TokenAt(h, r, p),
         NEW t \in Threads, calls[t] # <<>>
  PROVE  /\ Head(calls[t]) = ToggleCall(t, IF t = h THEN p ELSE 0)
         /\ Len(Tail(calls[t])) = Len(calls[t]) - 1 /\ Len(calls[t]) \in Nat
         /\ Suffix(Tail(calls[t]), ToggleCalls(t))
<1>1. calls[t] \in Seq(Call) /\ Suffix(calls[t], ToggleCalls(t)) /\ h \in Int /\ t \in Int
  BY DEF Types, ToggleInv, ProgramOK, TakesTurns
<1>2. /\ Len(ToggleCalls(t)) = 3 * NUM_ITER /\ 3 * NUM_ITER \in Nat
      /\ Len(calls[t]) \in Nat \ {0}
  BY <1>1, ToggleText, TailFacts, ThreadProgramsAssumption
<1>3. /\ Head(calls[t]) = ToggleCalls(t)[3 * NUM_ITER - Len(calls[t]) + 1]
      /\ Len(Tail(calls[t])) = Len(calls[t]) - 1
      /\ Suffix(Tail(calls[t]), ToggleCalls(t))
  BY <1>1, <1>2, NextOfText
<1> DEFINE rt == IF t < h THEN r + 1 ELSE r
           pt == IF t = h THEN p ELSE 0
<1>4. rt \in Nat /\ pt \in 0 .. 2 /\ 3 * NUM_ITER - Len(calls[t]) = 3 * rt + pt
  BY <1>1 DEF TokenAt
<1> HIDE DEF rt, pt
<1>5. 3 * rt + pt < 3 * NUM_ITER
  BY <1>2, <1>4
<1>6. ToggleCalls(t)[3 * rt + pt + 1] = ToggleCall(t, pt)
  BY <1>4, <1>5, ToggleText
<1>7. QED
  BY <1>2, <1>3, <1>4, <1>6 DEF pt

(* The zemaphores differ.                                                  *)
LEMMA ToggleZems ==
  ASSUME Types, program = "test-toggle"
  PROVE  /\ Threads = 0 .. NUM_THREADS - 1 /\ NUM_THREADS \in Nat \ {0}
         /\ \A t \in Threads : zem[t] \in Zems /\ count[zem[t]] \in Int
         /\ \A t, u \in Threads : zem[t] = zem[u] => t = u
         /\ \A t \in Threads :
              /\ next_thread(t) \in Threads
              /\ next_thread(t) = IF t + 1 \in Threads THEN t + 1 ELSE 0
<1>1. Threads = 0 .. NUM_THREADS - 1 /\ NUM_THREADS \in Nat \ {0}
  BY ThreadProgramsAssumption DEF Types, ProgramOK, TakesTurns
<1>2. /\ \A t \in Threads : zem[t] \in Zems
      /\ \A t, u \in Threads : zem[t] = zem[u] => t = u
  BY <1>1, ThreadProgramsAssumption DEF Types, ProgramOK, TakesTurns
<1>3. ASSUME NEW t \in Threads
      PROVE  next_thread(t) = IF t + 1 \in Threads THEN t + 1 ELSE 0
  <2>1. CASE t + 1 < NUM_THREADS
    BY <1>1, <2>1 DEF next_thread
  <2>2. CASE t + 1 = NUM_THREADS
    BY <1>1, <2>2 DEF next_thread
  <2>3. QED
    BY <1>1, <2>1, <2>2
<1>4. QED
  BY <1>1, <1>2, <1>3 DEF Types

(* Thread h makes its call: the other threads stay where they are.         *)
LEMMA ToggleMoves ==
  ASSUME Types, program = "test-toggle", ToggleInv,
         NEW h \in Threads, NEW r \in Nat, NEW p \in 0 .. 2, TokenAt(h, r, p),
         calls[h] # <<>>, calls' = Made(h)
  PROVE  /\ Threads' = Threads
         /\ \A t \in Threads : Suffix(calls'[t], ToggleCalls(t))
         /\ \A t \in Threads :
              3 * NUM_ITER - Len(calls'[t])
                = IF t < h THEN 3 * (r + 1) ELSE IF t = h THEN 3 * r + p + 1 ELSE 3 * r
<1>1. /\ calls' \in [Threads -> Seq(Call)]
      /\ calls'[h] = Tail(calls[h])
      /\ \A t \in Threads \ {h} : calls'[t] = calls[t]
  BY MadeFacts
<1>2. \A t \in Threads : Suffix(calls[t], ToggleCalls(t))
  BY DEF ToggleInv
<1>3. /\ Len(calls'[h]) = Len(calls[h]) - 1 /\ Len(calls[h]) \in Nat
      /\ Suffix(calls'[h], ToggleCalls(h))
  BY <1>1, ToggleNext
<1>4. 3 * NUM_ITER - Len(calls'[h]) = 3 * r + p + 1
  <2>1. 3 * NUM_ITER - Len(calls[h]) = 3 * r + p
    BY ToggleZems DEF TokenAt
  <2>2. NUM_ITER \in Nat
    BY ThreadProgramsAssumption
  <2>3. \A n \in Nat : 3 * NUM_ITER - n = 3 * r + p
                      => 3 * NUM_ITER - (n - 1) = 3 * r + p + 1
    BY <2>2
  <2>4. QED
    BY <1>3, <2>1, <2>3
<1>5. \A t \in Threads \ {h} :
        3 * NUM_ITER - Len(calls'[t]) = IF t < h THEN 3 * (r + 1) ELSE 3 * r
  BY <1>1 DEF TokenAt
<1>6. \A t \in Threads :
        3 * NUM_ITER - Len(calls'[t])
          = IF t < h THEN 3 * (r + 1) ELSE IF t = h THEN 3 * r + p + 1 ELSE 3 * r
  BY <1>4, <1>5, ToggleZems
<1>7. QED
  BY <1>1, <1>2, <1>3, <1>6 DEF Threads

LEMMA ToggleDown ==
  ASSUME ZemInvariant, program = "test-toggle", ToggleInv, NEW t \in Threads, Down(t)
  PROVE  ToggleInv'
<1> USE DEF ZemInvariant
<1>1. PICK h \in Threads, r \in Nat, p \in 0 .. 2 : TokenAt(h, r, p)
  BY DEF ToggleInv
<1>2. NextCall(t, "zem_down") /\ calls[t] # <<>>
  BY DEF Down, NextCall
<1>3. Head(calls[t]) = <<"zem_down", zem[t]>> /\ (t = h => p = 0)
  <2>1. Head(calls[t]) = ToggleCall(t, IF t = h THEN p ELSE 0)
    BY <1>1, <1>2, ToggleNext
  <2>2. Head(calls[t])[1] = "zem_down"
    BY <1>2 DEF NextCall
  <2>3. t = h => p = 0
    <3>1. SUFFICES ASSUME t = h, p # 0 PROVE FALSE
      OBVIOUS
    <3>2. Head(calls[t])[1] \in {"print", "zem_up"}
      BY <2>1, <3>1 DEF ToggleCall
    <3>3. QED
      BY <2>2, <3>2
  <2>4. QED
    BY <2>1, <2>3 DEF ToggleCall
<1>4. /\ zem[t] \in Zems /\ zem[t] \notin {"running", Woken}
      /\ at \in [Threads -> Zems \cup {"running", Woken, "cond"}]
      /\ count \in [Zems -> Int]
      /\ \A u \in Threads : zem[t] = zem[u] => t = u
      /\ \A u \in Threads : zem[u] \in Zems
  BY ToggleZems, ZemsApart DEF Types
<1>5. zem_down(t, zem[t]) /\ UNCHANGED <<program, turn, printed>>
  BY <1>3 DEF Down
<1>6. CASE at'[t] # "running"
  <2>1. calls' = calls /\ count' = count /\ at' = [at EXCEPT ![t] = zem[t]]
    BY <1>4, <1>5, <1>6 DEF Down, Returned, zem_down
  <2>2. TokenAt(h, r, p)'
    BY <1>1, <1>4, <1>5, <2>1 DEF TokenAt, Threads
  <2>3. Threads' = Threads
    BY <2>1 DEF Threads
  <2>4. QED
    BY <2>1, <2>2, <2>3 DEF ToggleInv
<1>7. CASE at'[t] = "running"
  <2>1. /\ calls' = Made(t) /\ at' = [at EXCEPT ![t] = "running"]
        /\ count' = [count EXCEPT ![zem[t]] = @ - 1]
        /\ ~MustSleep(zem[t]) \/ at[t] = Woken
    BY <1>4, <1>5, <1>7 DEF Down, Returned, zem_down
  <2>2. t = h /\ p = 0
    BY <1>1, <1>3, <1>4, <2>1 DEF TokenAt, MustSleep
  <2>3. /\ Threads' = Threads
        /\ \A u \in Threads : Suffix(calls'[u], ToggleCalls(u))
        /\ \A u \in Threads :
             3 * NUM_ITER - Len(calls'[u])
               = IF u < h THEN 3 * (r + 1) ELSE IF u = h THEN 3 * r + 1 ELSE 3 * r
    BY <1>1, <1>2, <2>1, <2>2, ToggleMoves
  <2>4. \A u \in Threads : count'[zem[u]] = 0
    <3>1. count[zem[h]] = 1 /\ \A u \in Threads \ {h} : count[zem[u]] = 0
      BY <1>1, <2>2 DEF TokenAt
    <3>2. QED
      BY <1>4, <2>1, <2>2, <3>1
  <2>5. \A u \in Threads : at'[u] # Woken
    BY <1>1, <1>4, <2>1, <2>2, ZemsApart DEF TokenAt
  <2>6. \A u \in Threads : printed'[u] = IF u < h \/ (u = h /\ 1 = 2) THEN r + 1 ELSE r
    BY <1>1, <1>5, <2>2 DEF TokenAt
  <2>7. TokenAt(h, r, 1)'
    BY <2>3, <2>4, <2>5, <2>6 DEF TokenAt
  <2>8. QED
    BY <2>3, <2>7 DEF ToggleInv
<1>8. QED
  BY <1>6, <1>7

LEMMA TogglePrint ==
  ASSUME ZemInvariant, program = "test-toggle", ToggleInv,
         NEW t \in Threads, PrintLine(t)
  PROVE  ToggleInv'
<1> USE DEF ZemInvariant
<1>1. PICK h \in Threads, r \in Nat, p \in 0 .. 2 : TokenAt(h, r, p)
  BY DEF ToggleInv
<1>2. /\ NextCall(t, "print") /\ calls[t] # <<>>
      /\ UNCHANGED <<count, at, program, turn>> /\ calls' = Made(t)
      /\ printed' = [printed EXCEPT ![t] = @ + 1]
  BY DEF PrintLine, NextCall
<1>3. t = h /\ p = 1
  <2>1. Head(calls[t]) = ToggleCall(t, IF t = h THEN p ELSE 0)
    BY <1>1, <1>2, ToggleNext
  <2>2. Head(calls[t])[1] = "print"
    BY <1>2 DEF NextCall
  <2>3. SUFFICES ASSUME t # h \/ p # 1 PROVE FALSE
    OBVIOUS
  <2>4. Head(calls[t])[1] \in {"zem_down", "zem_up"}
    BY <2>1, <2>3 DEF ToggleCall
  <2>5. QED
    BY <2>2, <2>4
<1>4. /\ Threads' = Threads
      /\ \A u \in Threads : Suffix(calls'[u], ToggleCalls(u))
      /\ \A u \in Threads :
           3 * NUM_ITER - Len(calls'[u])
             = IF u < h THEN 3 * (r + 1) ELSE IF u = h THEN 3 * r + 2 ELSE 3 * r
  BY <1>1, <1>2, <1>3, ToggleMoves
<1>5. \A u \in Threads : printed'[u] = IF u < h \/ u = h THEN r + 1 ELSE r
  <2>1. printed \in [Threads -> Nat] /\ h \in Int
    BY ToggleZems DEF Types
  <2>2. printed[h] = r /\ \A u \in Threads \ {h} : printed[u] = IF u < h THEN r + 1 ELSE r
    BY <1>1, <1>3, <2>1 DEF TokenAt
  <2>3. QED
    BY <1>2, <1>3, <2>1, <2>2
<1>6. TokenAt(h, r, 2)'
  BY <1>1, <1>2, <1>3, <1>4, <1>5 DEF TokenAt
<1>7. QED
  BY <1>4, <1>6 DEF ToggleInv

(* The token goes to the next thread, which may be asleep: nobody else     *)
(* sleeps on its zemaphore.                                                *)
LEMMA ToggleUp ==
  ASSUME ZemInvariant, program = "test-toggle", ToggleInv, NEW t \in Threads, Up(t)
  PROVE  ToggleInv'
<1> USE DEF ZemInvariant
<1>1. PICK h \in Threads, r \in Nat, p \in 0 .. 2 : TokenAt(h, r, p)
  BY DEF ToggleInv
<1>2. /\ NextCall(t, "zem_up") /\ calls[t] # <<>> /\ zem_up(Head(calls[t])[2])
      /\ UNCHANGED <<program, turn, printed>> /\ calls' = Made(t)
  BY DEF Up, NextCall
<1>3. t = h /\ p = 2 /\ Head(calls[t])[2] = zem[next_thread(h)]
  <2>1. Head(calls[t]) = ToggleCall(t, IF t = h THEN p ELSE 0)
    BY <1>1, <1>2, ToggleNext
  <2>2. Head(calls[t])[1] = "zem_up"
    BY <1>2 DEF NextCall
  <2>3. t = h /\ p = 2
    <3>1. SUFFICES ASSUME t # h \/ p # 2 PROVE FALSE
      OBVIOUS
    <3>2. Head(calls[t])[1] \in {"zem_down", "print"}
      BY <2>1, <3>1 DEF ToggleCall
    <3>3. QED
      BY <2>2, <3>2
  <2>4. QED
    BY <2>1, <2>3 DEF ToggleCall
<1> DEFINE n == next_thread(h)
           q == IF n = 0 THEN r + 1 ELSE r
<1>4. /\ h \in Nat /\ n \in Threads /\ n \in Nat
      /\ n = IF h + 1 \in Threads THEN h + 1 ELSE 0
      /\ Threads = 0 .. NUM_THREADS - 1 /\ NUM_THREADS \in Nat
      /\ \A u, v \in Threads : zem[u] = zem[v] => u = v
      /\ \A u \in Threads : zem[u] \in Zems
      /\ count \in [Zems -> Int]
  BY ToggleZems DEF Types
<1> HIDE DEF n
<1>5. /\ Threads' = Threads
      /\ \A u \in Threads : Suffix(calls'[u], ToggleCalls(u))
      /\ \A u \in Threads :
           3 * NUM_ITER - Len(calls'[u])
             = IF u < h THEN 3 * (r + 1) ELSE IF u = h THEN 3 * r + 3 ELSE 3 * r
  BY <1>1, <1>2, <1>3, ToggleMoves
<1>6. \A u \in Threads : (u < n <=> n # 0 /\ u <= h) /\ (n = 0 => u <= h)
  BY <1>4
<1>7. \A u \in Threads :
        3 * NUM_ITER - Len(calls'[u])
          = IF u < n THEN 3 * (q + 1) ELSE IF u = n THEN 3 * q + 0 ELSE 3 * q
  <2>1. \A u \in Threads :
          3 * NUM_ITER - Len(calls'[u]) = IF u <= h THEN 3 * r + 3 ELSE 3 * r
    BY <1>4, <1>5
  <2>2. CASE n = 0
    BY <1>4, <1>6, <2>1, <2>2
  <2>3. CASE n # 0
    BY <1>4, <1>6, <2>1, <2>3
  <2>4. QED
    BY <2>2, <2>3
<1>8. \A u \in Threads : count'[zem[u]] = IF u = n /\ 0 = 0 THEN 1 ELSE 0
  <2>1. \A u \in Threads : count[zem[u]] = 0
    BY <1>1, <1>3 DEF TokenAt
  <2>2. count' = [count EXCEPT ![zem[n]] = @ + 1]
    BY <1>2, <1>3 DEF zem_up, n
  <2>3. QED
    BY <1>4, <2>1, <2>2
<1>9. \A u \in Threads : at'[u] = Woken => u = n
  <2>1. \A u \in Threads : at'[u] = at[u] \/ (at[u] = zem[n] /\ at'[u] = Woken)
    BY <1>2, <1>3, UpKeepsZem DEF n
  <2>2. \A u \in Threads : at[u] # Woken
    BY <1>1, <1>3 DEF TokenAt
  <2>3. ASSUME NEW u \in Threads, at[u] = zem[n] PROVE u = n
    <3>1. at[u] # "running" /\ at[u] # Woken /\ ~TakesTurns
      BY <1>4, <2>3, ZemsApart DEF TakesTurns
    <3>2. NextCall(u, "zem_down") /\ Head(calls[u])[2] = zem[n]
      BY <2>3, <3>1, CallFacts DEF AsleepInCalls, InsideCall
    <3>3. Head(calls[u]) = ToggleCall(u, IF u = h THEN p ELSE 0) /\ Head(calls[u])[1] = "zem_down"
      BY <1>1, <3>2, ToggleNext DEF NextCall
    <3>4. u # h
      <4>1. u = h => Head(calls[u])[1] = "zem_up"
        BY <1>3, <3>3 DEF ToggleCall
      <4>2. QED
        BY <3>3, <4>1
    <3>5. Head(calls[u])[2] = zem[u]
      BY <3>3, <3>4 DEF ToggleCall
    <3>6. QED
      BY <1>4, <3>2, <3>5
  <2>4. QED
    BY <2>1, <2>2, <2>3
<1>10. \A u \in Threads : printed'[u] = IF u < n \/ (u = n /\ 0 = 2) THEN q + 1 ELSE q
  <2>1. \A u \in Threads : printed'[u] = IF u <= h THEN r + 1 ELSE r
    BY <1>1, <1>2, <1>3, <1>4 DEF TokenAt
  <2>2. CASE n = 0
    BY <1>4, <1>6, <2>1, <2>2
  <2>3. CASE n # 0
    BY <1>4, <1>6, <2>1, <2>3
  <2>4. QED
    BY <2>2, <2>3
<1> HIDE DEF q
<1>11. TokenAt(n, q, 0)'
  BY <1>5, <1>7, <1>8, <1>9, <1>10 DEF TokenAt
<1>12. n \in Threads' /\ q \in Nat
  BY <1>4, <1>5 DEF q
<1>13. QED
  BY <1>5, <1>11, <1>12 DEF ToggleInv

(* The steps that are not calls of the zemaphore, nor of a turn.           *)
LEMMA PassingSteps ==
  ASSUME Types, AsleepInCalls, NEW t \in Threads,
         PrintLine(t) \/ Report(t) \/ Join(t) \/ SetTurn(t)
  PROVE  Passes(t)
<1>1. \E c \in {"print", "report", "join", "set_turn"} : NextCall(t, c)
  BY DEF PrintLine, Report, Join, SetTurn
<1>2. calls[t] # <<>> /\ at[t] = "running"
  BY <1>1, CallFacts, RunningInside
<1>3. NextCall(t, "set_turn") => TakesTurns
  BY CallFacts
<1>4. printed \in [Threads -> Nat] /\ turn \in 0 .. N /\ 0 \in 0 .. N
  BY ThreadProgramsAssumption DEF Types
<1>5. CASE PrintLine(t)
  BY <1>2, <1>4, <1>5 DEF PrintLine, Passes
<1>6. CASE Report(t) \/ Join(t)
  BY <1>2, <1>4, <1>6 DEF Report, Join, Passes
<1>7. CASE SetTurn(t)
  BY <1>2, <1>3, <1>4, <1>7 DEF SetTurn, Passes
<1>8. QED
  BY <1>5, <1>6, <1>7

(* Programs with zemaphores do not take turns, and test-toggle.c neither   *)
(* joins nor reports.                                                      *)
LEMMA ToggleNextStep ==
  ASSUME ZemInvariant, program = "test-toggle", ToggleInv, Next, ~unsignalled'
  PROVE  ToggleInv'
<1> USE DEF ZemInvariant
<1>1. ~Spurious
  BY DEF Spurious
<1>2. PICK t \in Threads : Step(t)
  BY <1>1 DEF Next
<1>3. calls[t] # <<>> =>
        Head(calls[t])[1] \in {"zem_down", "print", "zem_up"}
  <2>1. PICK h \in Threads, r \in Nat, p \in 0 .. 2 : TokenAt(h, r, p)
    BY DEF ToggleInv
  <2>2. calls[t] # <<>> => \E p1 \in 0 .. 2 : Head(calls[t]) = ToggleCall(t, p1)
    BY <2>1, ToggleNext
  <2>3. \A p1 \in 0 .. 2 : ToggleCall(t, p1)[1] \in {"zem_down", "print", "zem_up"}
    BY DEF ToggleCall
  <2>4. QED
    BY <2>2, <2>3
<1>4. ~Report(t) /\ ~Join(t) /\ ~SetTurn(t) /\ ~Create(t) /\ ~TakeTurn(t)
  BY <1>3 DEF Report, Join, SetTurn, Create, TakeTurn, NextCall
<1>5. QED
  BY <1>2, <1>4, ToggleDown, TogglePrint, ToggleUp DEF Step

-----------------------------------------------------------------------------
(* test-zem.c.                                                             *)

MainCall(k) ==
  IF k = 0 THEN "print"
  ELSE IF k = 3 * NUM_PRINTERS + 1 THEN "join"
  ELSE IF (k - 1) % 3 = 0 THEN "zem_up"
  ELSE IF (k - 1) % 3 = 1 THEN "zem_down" ELSE "report"

(* A sequence with one element before and one behind it.                   *)
LEMMA Enclosed ==
  ASSUME NEW T, NEW s \in Seq(T), NEW a, NEW b
  PROVE  /\ Len(<<a>> \o s \o <<b>>) = Len(s) + 2
         /\ (<<a>> \o s \o <<b>>)[1] = a /\ (<<a>> \o s \o <<b>>)[Len(s) + 2] = b
         /\ \A i \in 1 .. Len(s) : (<<a>> \o s \o <<b>>)[i + 1] = s[i]
<1> DEFINE S == {a, b} \cup T
<1>1. s \in Seq(S) /\ Len(s) \in Nat /\ <<a>> \in Seq(S) /\ <<b>> \in Seq(S)
  <2>1. T \subseteq S /\ a \in S /\ b \in S
    OBVIOUS
  <2> HIDE DEF S
  <2>2. s \in Seq(S)
    BY <2>1, SeqMonotonic
  <2>3. QED
    BY <2>1, <2>2
<1> HIDE DEF S
<1>2. /\ <<a>> \o s \in Seq(S) /\ Len(<<a>> \o s) = Len(s) + 1
      /\ (<<a>> \o s)[1] = a
      /\ \A i \in 1 .. Len(s) : (<<a>> \o s)[i + 1] = s[i]
  BY <1>1
<1>3. QED
  BY <1>1, <1>2

(* main's text, by the number of calls that come before.                   *)
LEMMA MainCallsText ==
  /\ Len(MainCalls) = 3 * NUM_PRINTERS + 2
  /\ \A k \in 0 .. 3 * NUM_PRINTERS + 1 :
       /\ MainCalls[k + 1][1] = MainCall(k)
       /\ MainCall(k) = "zem_up" => MainCalls[k + 1][2] = "child"
       /\ MainCall(k) = "zem_down" => MainCalls[k + 1][2] = "parent"
       /\ MainCall(k) = "report" => MainCalls[k + 1][2] = k \div 3
<1> DEFINE round(n) == << <<"zem_up", "child">>, <<"zem_down", "parent">>, <<"report", n>> >>
           L == 3 * NUM_PRINTERS
           s == [i \in 1 .. L |-> round(((i - 1) \div 3) + 1)[((i - 1) % 3) + 1]]
<1>1. L \in Nat
  BY ThreadProgramsAssumption
<1>2. \A n \in Int : round(n)[1] = <<"zem_up", "child">>
                      /\ round(n)[2] = <<"zem_down", "parent">> /\ round(n)[3] = <<"report", n>>
  OBVIOUS
<1>3. \A i \in 1 .. L : /\ (i - 1) % 3 \in 0 .. 2 /\ (i - 1) \div 3 \in Int
                        /\ (i - 1) % 3 = 2 => i \div 3 = ((i - 1) \div 3) + 1
  BY <1>1
<1>4. MainCalls = << <<"print", 0>> >> \o s \o << <<"join", 0>> >>
  BY DEF MainCalls
<1> HIDE DEF round
<1>5. \A i \in 1 .. L :
        /\ (i - 1) % 3 = 0 => s[i] = <<"zem_up", "child">>
        /\ (i - 1) % 3 = 1 => s[i] = <<"zem_down", "parent">>
        /\ (i - 1) % 3 = 2 => s[i] = <<"report", i \div 3>>
  <2> SUFFICES ASSUME NEW i \in 1 .. L
               PROVE  /\ (i - 1) % 3 = 0 => s[i] = <<"zem_up", "child">>
                      /\ (i - 1) % 3 = 1 => s[i] = <<"zem_down", "parent">>
                      /\ (i - 1) % 3 = 2 => s[i] = <<"report", i \div 3>>
    OBVIOUS
  <2>1. s[i] = round(((i - 1) \div 3) + 1)[((i - 1) % 3) + 1]
    OBVIOUS
  <2>2. CASE (i - 1) % 3 = 0
    BY <1>2, <1>3, <2>1, <2>2
  <2>3. CASE (i - 1) % 3 = 1
    BY <1>2, <1>3, <2>1, <2>3
  <2>4. CASE (i - 1) % 3 = 2
    BY <1>2, <1>3, <2>1, <2>4
  <2>5. QED
    BY <1>3, <2>2, <2>3, <2>4
<1> DEFINE T == {s[i] : i \in 1 .. L}
<1>6. s \in Seq(T) /\ Len(s) = L
  <2>1. \A i \in 1 .. L : s[i] \in T
    OBVIOUS
  <2> HIDE DEF T
  <2>2. s \in Seq(T)
    BY <1>1, <2>1, IsASeq
  <2>3. QED
    BY <1>1, <2>2
<1> HIDE DEF T
<1> HIDE DEF s
<1>7. /\ Len(MainCalls) = L + 2
      /\ MainCalls[1] = <<"print", 0>> /\ MainCalls[L + 2] = <<"join", 0>>
      /\ \A i \in 1 .. L : MainCalls[i + 1] = s[i]
  <2> DEFINE a == <<"print", 0>>
             b == <<"join", 0>>
  <2>1. MainCalls = <<a>> \o s \o <<b>>
    BY <1>4
  <2> HIDE DEF a, b, L
  <2>2. /\ Len(MainCalls) = L + 2 /\ MainCalls[1] = a /\ MainCalls[L + 2] = b
        /\ \A i \in 1 .. L : MainCalls[i + 1] = s[i]
    BY <1>1, <1>6, <2>1, Enclosed
  <2>3. QED
    BY <2>2 DEF a, b
<1>8. ASSUME NEW k \in 0 .. L + 1
      PROVE  /\ MainCalls[k + 1][1] = MainCall(k)
             /\ MainCall(k) = "zem_up" => MainCalls[k + 1][2] = "child"
             /\ MainCall(k) = "zem_down" => MainCalls[k + 1][2] = "parent"
             /\ MainCall(k) = "report" => MainCalls[k + 1][2] = k \div 3
  <2>1. CASE k = 0
    BY <1>7, <2>1 DEF MainCall
  <2>2. CASE k = L + 1
    <3>1. MainCall(k) = "join" /\ MainCalls[k + 1] = <<"join", 0>>
      BY <1>1, <1>7, <2>2 DEF MainCall
    <3>2. QED
      BY <3>1
  <2>3. CASE k \in 1 .. L
    <3>1. MainCalls[k + 1] = s[k]
      BY <1>7, <2>3
    <3>2. MainCall(k) = IF (k - 1) % 3 = 0 THEN "zem_up"
                        ELSE IF (k - 1) % 3 = 1 THEN "zem_down" ELSE "report"
      BY <1>1, <2>3 DEF MainCall
    <3>3. CASE (k - 1) % 3 = 0
      <4>1. s[k] = <<"zem_up", "child">>
        BY <1>5, <2>3, <3>3
      <4>2. MainCall(k) = "zem_up"
        BY <3>2, <3>3
      <4>3. QED
        BY <3>1, <4>1, <4>2
    <3>4. CASE (k - 1) % 3 = 1
      <4>1. s[k] = <<"zem_down", "parent">>
        BY <1>5, <2>3, <3>4
      <4>2. MainCall(k) = "zem_down"
        BY <3>2, <3>4
      <4>3. QED
        BY <3>1, <4>1, <4>2
    <3>5. CASE (k - 1) % 3 = 2
      <4>1. MainCalls[k + 1] = <<"report", k \div 3>> /\ MainCall(k) = "report"
        BY <1>5, <2>3, <3>1, <3>2, <3>5
      <4>2. QED
        BY <4>1
    <3>6. QED
      BY <1>3, <2>3, <3>3, <3>4, <3>5
  <2>4. QED
    BY <1>1, <2>1, <2>2, <2>3
<1>9. QED
  BY <1>7, <1>8

LEMMA TestZemFacts ==
  ASSUME Types, program = "test-zem"
  PROVE  /\ Threads = 0 .. NUM_PRINTERS /\ 0 \in Threads /\ NUM_PRINTERS \in Nat
         /\ Zems = {"child", "parent"} /\ ~TakesTurns
         /\ IsFiniteSet(Ended) /\ Cardinality(Ended) \in Nat
<1>1. /\ Threads = 0 .. NUM_PRINTERS /\ 0 \in Threads /\ NUM_PRINTERS \in Nat
      /\ Zems = {"child", "parent"} /\ ~TakesTurns
  BY ThreadProgramsAssumption DEF Types, ProgramOK, TakesTurns
<1>2. Ended \subseteq Threads
  BY DEF Ended
<1>3. QED
  BY <1>1, <1>2, ThreadsFinite, FS_Subset, FS_CardinalityType

(* main's next call.                                                       *)
LEMMA MainNext ==
  ASSUME Types, program = "test-zem", ReportInv, calls[0] # <<>>
  PROVE  /\ MainMade \in 0 .. 3 * NUM_PRINTERS + 1
         /\ Head(calls[0])[1] = MainCall(MainMade)
         /\ MainCall(MainMade) = "zem_up" => Head(calls[0])[2] = "child"
         /\ MainCall(MainMade) = "zem_down" => Head(calls[0])[2] = "parent"
         /\ MainCall(MainMade) = "report" => Head(calls[0])[2] = Waited
         /\ Suffix(Tail(calls[0]), MainCalls)
         /\ Len(Tail(calls[0])) = Len(calls[0]) - 1 /\ Len(calls[0]) \in Nat
<1>1. calls[0] \in Seq(Call) /\ Suffix(calls[0], MainCalls) /\ NUM_PRINTERS \in Nat
  BY TestZemFacts DEF Types, ReportInv
<1>2. Len(MainCalls) = 3 * NUM_PRINTERS + 2
  BY MainCallsText
<1>3. MainMade = Passed(calls[0], MainCalls)
  <2>1. Passed(calls[0], MainCalls) = Len(MainCalls) - Len(calls[0])
    BY DEF Passed
  <2>2. Len(calls[0]) \in Nat /\ NUM_PRINTERS \in Nat
    BY <1>1
  <2>3. QED
    BY <1>2, <2>1, <2>2 DEF MainMade
<1>4. Len(MainCalls) \in Nat /\ Len(MainCalls) - 1 = 3 * NUM_PRINTERS + 1
  BY <1>1, <1>2
<1>5. /\ MainMade \in 0 .. Len(MainCalls) - 1
      /\ Head(calls[0]) = MainCalls[MainMade + 1]
      /\ Suffix(Tail(calls[0]), MainCalls)
  BY <1>1, <1>3, <1>4, NextInText
<1>6. MainMade \in 0 .. 3 * NUM_PRINTERS + 1
  BY <1>4, <1>5
<1>7. Len(Tail(calls[0])) = Len(calls[0]) - 1 /\ Len(calls[0]) \in Nat
  BY <1>1, TailFacts
<1>8. QED
  BY <1>5, <1>6, <1>7, MainCallsText DEF Waited

(* main has made a call: it waits for one more printer if this was         *)
(* zem_down.                                                               *)
LEMMA MainMoves ==
  ASSUME Types, program = "test-zem", ReportInv, calls[0] # <<>>, calls' = Made(0)
  PROVE  /\ Threads' = Threads /\ Ended' = Ended
         /\ Suffix(calls'[0], MainCalls)
         /\ \A t \in Threads \ {0} : calls'[t] = calls[t]
         /\ Waited' = Waited + (IF NextCall(0, "zem_down") THEN 1 ELSE 0)
         /\ Waited \in Int
<1>1. 0 \in Threads /\ NUM_PRINTERS \in Nat
  BY TestZemFacts
<1>2. /\ calls' \in [Threads -> Seq(Call)] /\ calls'[0] = Tail(calls[0])
      /\ \A t \in Threads \ {0} : calls'[t] = calls[t]
  BY <1>1, MadeFacts
<1>3. Threads' = Threads
  BY <1>2 DEF Threads
<1>4. Ended' = Ended
  BY <1>2, <1>3 DEF Ended
<1>5. /\ MainMade \in 0 .. 3 * NUM_PRINTERS + 1
      /\ Head(calls[0])[1] = MainCall(MainMade)
      /\ Suffix(Tail(calls[0]), MainCalls)
      /\ Len(Tail(calls[0])) = Len(calls[0]) - 1 /\ Len(calls[0]) \in Nat
  BY MainNext
<1>6. MainMade' = MainMade + 1
  <2>1. Len(calls'[0]) = Len(calls[0]) - 1
    BY <1>2, <1>5
  <2>2. Len(calls[0]) \in Nat
    BY <1>5
  <2> DEFINE m == Len(calls[0])
             n == Len(calls'[0])
  <2>3. MainMade = 3 * NUM_PRINTERS + 2 - m /\ MainMade' = 3 * NUM_PRINTERS + 2 - n
    BY DEF MainMade
  <2> HIDE DEF m, n
  <2>4. m \in Nat /\ n = m - 1
    BY <2>1, <2>2 DEF m, n
  <2>5. QED
    BY <1>1, <2>3, <2>4
<1>7. NextCall(0, "zem_down") <=> MainCall(MainMade) = "zem_down"
  BY <1>5 DEF NextCall
<1>8. MainCall(MainMade) = "zem_down" <=> MainMade % 3 = 2
  <2>1. \A k \in 0 .. 3 * NUM_PRINTERS + 1 : MainCall(k) = "zem_down" <=> k % 3 = 2
    BY <1>1 DEF MainCall
  <2>2. QED
    BY <1>5, <2>1
<1>9. /\ (MainMade + 1) \div 3 = (MainMade \div 3) + (IF MainMade % 3 = 2 THEN 1 ELSE 0)
      /\ MainMade \div 3 \in Int
  <2>1. \A k \in Nat : /\ (k + 1) \div 3 = (k \div 3) + (IF k % 3 = 2 THEN 1 ELSE 0)
                       /\ k \div 3 \in Int
    OBVIOUS
  <2>2. MainMade \in Nat
    BY <1>1, <1>5
  <2>3. QED
    BY <2>1, <2>2
<1>10. QED
  BY <1>2, <1>3, <1>4, <1>5, <1>6, <1>7, <1>8, <1>9 DEF Waited

(* A printer's next call.                                                  *)
LEMMA PrinterNext ==
  ASSUME Types, program = "test-zem", ReportInv, NEW t \in Threads \ {0}, calls[t] # <<>>
  PROVE  /\ Len(calls[t]) \in 1 .. 3
         /\ Len(calls[t]) = 3 => Head(calls[t]) = <<"zem_down", "child">>
         /\ Len(calls[t]) = 2 => Head(calls[t]) = <<"print", t>>
         /\ Len(calls[t]) = 1 => Head(calls[t]) = <<"zem_up", "parent">>
         /\ Suffix(Tail(calls[t]), PrinterCalls(t))
         /\ Len(Tail(calls[t])) = Len(calls[t]) - 1
<1>1. calls[t] \in Seq(Call) /\ Suffix(calls[t], PrinterCalls(t))
  BY DEF Types, ReportInv
<1>2. /\ Len(PrinterCalls(t)) = 3
      /\ PrinterCalls(t)[1] = <<"zem_down", "child">>
      /\ PrinterCalls(t)[2] = <<"print", t>>
      /\ PrinterCalls(t)[3] = <<"zem_up", "parent">>
  BY DEF PrinterCalls
<1> DEFINE k == Passed(calls[t], PrinterCalls(t))
<1>3. /\ k \in 0 .. 2 /\ Head(calls[t]) = PrinterCalls(t)[k + 1]
      /\ Suffix(Tail(calls[t]), PrinterCalls(t))
  <2>0. Len(PrinterCalls(t)) \in Nat
    BY <1>2
  <2>1. /\ Passed(calls[t], PrinterCalls(t)) \in 0 .. Len(PrinterCalls(t)) - 1
        /\ Head(calls[t]) = PrinterCalls(t)[Passed(calls[t], PrinterCalls(t)) + 1]
        /\ Suffix(Tail(calls[t]), PrinterCalls(t))
    BY <1>1, <2>0, NextInText
  <2>2. QED
    BY <1>2, <2>1
<1>4. Len(calls[t]) = 3 - k /\ Len(Tail(calls[t])) = Len(calls[t]) - 1
  <2>1. k = 3 - Len(calls[t]) /\ Len(calls[t]) \in Nat
    BY <1>1, <1>2 DEF Passed
  <2>2. Len(Tail(calls[t])) = Len(calls[t]) - 1
    BY <1>1, TailFacts
  <2>3. QED
    BY <2>1, <2>2
<1> HIDE DEF k
<1>5. /\ k = 0 => Head(calls[t]) = <<"zem_down", "child">>
      /\ k = 1 => Head(calls[t]) = <<"print", t>>
      /\ k = 2 => Head(calls[t]) = <<"zem_up", "parent">>
  BY <1>2, <1>3
<1>6. QED
  BY <1>3, <1>4, <1>5

(* A printer has made a call: it has ended if this was zem_up.             *)
LEMMA PrinterMoves ==
  ASSUME Types, program = "test-zem", ReportInv, NEW t \in Threads \ {0},
         calls[t] # <<>>, calls' = Made(t)
  PROVE  /\ Threads' = Threads /\ calls'[0] = calls[0]
         /\ \A u \in Threads \ {t} : calls'[u] = calls[u]
         /\ Suffix(calls'[t], PrinterCalls(t)) /\ Len(calls'[t]) = Len(calls[t]) - 1
         /\ Cardinality(Ended') = Cardinality(Ended)
              + (IF NextCall(t, "zem_up") THEN 1 ELSE 0)
<1>1. /\ calls' \in [Threads -> Seq(Call)] /\ calls'[t] = Tail(calls[t])
      /\ \A u \in Threads \ {t} : calls'[u] = calls[u]
      /\ 0 \in Threads
  BY MadeFacts, TestZemFacts
<1>2. Threads' = Threads
  BY <1>1 DEF Threads
<1>3. /\ Len(calls[t]) \in 1 .. 3 /\ Suffix(calls'[t], PrinterCalls(t))
      /\ Len(calls'[t]) = Len(calls[t]) - 1
      /\ NextCall(t, "zem_up") <=> Len(calls[t]) = 1
  <2>1. /\ Len(calls[t]) = 3 => Head(calls[t])[1] = "zem_down"
        /\ Len(calls[t]) = 2 => Head(calls[t])[1] = "print"
        /\ Len(calls[t]) = 1 => Head(calls[t])[1] = "zem_up"
    BY PrinterNext
  <2>2. QED
    BY <1>1, <2>1, PrinterNext DEF NextCall
<1>4. calls'[t] = <<>> <=> Len(calls[t]) = 1
  <2>1. \A s \in Seq(Call) : s = <<>> <=> Len(s) = 0
    OBVIOUS
  <2>2. calls'[t] = <<>> <=> Len(calls'[t]) = 0
    BY <1>1, <2>1
  <2>3. QED
    BY <1>3, <2>2
<1>5. /\ t \notin Ended /\ (t \in Ended' <=> NextCall(t, "zem_up"))
      /\ \A u : u # t => (u \in Ended' <=> u \in Ended)
  BY <1>1, <1>2, <1>3, <1>4 DEF Ended
<1>6. Cardinality(Ended') = Cardinality(Ended) + (IF t \in Ended' THEN 1 ELSE 0)
                              - (IF t \in Ended THEN 1 ELSE 0)
  BY <1>5, TestZemFacts, CardinalityAfterMove
<1>7. QED
  BY <1>1, <1>2, <1>3, <1>5, <1>6, TestZemFacts

(* main's steps that are not zem_down: no unit of "parent" moves.          *)
LEMMA MainMovesOn ==
  ASSUME Types, program = "test-zem", ReportInv, calls[0] # <<>>,
         ~NextCall(0, "zem_down"), calls' = Made(0),
         count'["parent"] = count["parent"], at'[0] = "running",
         \A t \in Threads \ {0} : printed[t] > 0 => printed'[t] > 0
  PROVE  ReportInv'
<1>1. /\ Threads' = Threads /\ Ended' = Ended /\ Suffix(calls'[0], MainCalls)
      /\ \A t \in Threads \ {0} : calls'[t] = calls[t]
      /\ Waited' = Waited + 0
      /\ Waited \in Int
  BY MainMoves
<1>2. Waited' = Waited
  BY <1>1
<1>3. \A t \in Threads' \ {0} :
        /\ Suffix(calls'[t], PrinterCalls(t))
        /\ Len(calls'[t]) <= 1 => printed'[t] > 0
  BY <1>1 DEF ReportInv
<1>4. count'["parent"] = Cardinality(Ended') - Waited' /\ count'["parent"] >= 0
  BY <1>1, <1>2 DEF ReportInv
<1>5. at'[0] # Woken
  BY ZemsApart
<1>6. QED
  BY <1>1, <1>3, <1>4, <1>5 DEF ReportInv

LEMMA MainReports ==
  ASSUME ZemInvariant, program = "test-zem", ReportInv, Step(0)
  PROVE  ReportInv'
<1> USE DEF ZemInvariant
<1>1. 0 \in Threads /\ Zems = {"child", "parent"} /\ printed \in [Threads -> Nat]
      /\ count \in [Zems -> Int] /\ at \in [Threads -> Zems \cup {"running", Woken, "cond"}]
  BY TestZemFacts DEF Types
<1>2. ~TakesTurns
  BY TestZemFacts
<1>3. CASE Down(0)
  <2>1. NextCall(0, "zem_down") /\ calls[0] # <<>>
    BY <1>3 DEF Down, NextCall
  <2>2. Head(calls[0])[2] = "parent"
    BY <2>1, MainNext DEF NextCall
  <2>3. zem_down(0, "parent") /\ UNCHANGED printed
        /\ calls' = IF at'[0] = "running" THEN Made(0) ELSE calls
    BY <1>3, <2>2 DEF Down, Returned
  <2>4. CASE /\ at[0] = "running" /\ MustSleep("parent")
             /\ at' = [at EXCEPT ![0] = "parent"] /\ UNCHANGED count
    <3>1. at'[0] = "parent" /\ "parent" # "running" /\ "parent" # Woken
      BY <1>1, <2>4, ZemsApart
    <3>2. calls' = calls
      BY <2>3, <3>1
    <3>3. Threads' = Threads /\ Ended' = Ended /\ Waited' = Waited
      BY <3>2 DEF Threads, Ended, Waited, MainMade
    <3>4. QED
      BY <2>3, <2>4, <3>1, <3>2, <3>3 DEF ReportInv
  <2>5. CASE /\ (at[0] = "running" /\ ~MustSleep("parent")) \/ at[0] = Woken
             /\ count' = [count EXCEPT !["parent"] = @ - 1]
             /\ at' = [at EXCEPT ![0] = "running"]
    <3>1. at'[0] = "running" /\ at'[0] # Woken
      BY <1>1, <2>5, ZemsApart
    <3>2. calls' = Made(0)
      BY <2>3, <3>1
    <3>3. /\ Threads' = Threads /\ Ended' = Ended /\ Suffix(calls'[0], MainCalls)
          /\ \A t \in Threads \ {0} : calls'[t] = calls[t]
          /\ Waited' = Waited + 1 /\ Waited \in Int
      BY <2>1, <3>2, MainMoves
    <3>4. count["parent"] \in Int /\ count["parent"] > 0
      BY <1>1, <2>5 DEF MustSleep, ReportInv
    <3>5. count'["parent"] = count["parent"] - 1
      BY <1>1, <2>5
    <3>6. count["parent"] = Cardinality(Ended) - Waited
      BY DEF ReportInv
    <3>7. Cardinality(Ended) \in Nat
      BY TestZemFacts
    <3>8. count'["parent"] = Cardinality(Ended') - Waited' /\ count'["parent"] >= 0
      BY <3>3, <3>4, <3>5, <3>6, <3>7
    <3>9. \A t \in Threads' \ {0} :
            /\ Suffix(calls'[t], PrinterCalls(t))
            /\ Len(calls'[t]) <= 1 => printed'[t] > 0
      BY <2>3, <3>3 DEF ReportInv
    <3>10. QED
      BY <3>1, <3>3, <3>8, <3>9 DEF ReportInv
  <2>6. QED
    BY <2>3, <2>4, <2>5 DEF zem_down
<1>4. CASE Up(0)
  <2>1. NextCall(0, "zem_up") /\ calls[0] # <<>> /\ ~NextCall(0, "zem_down")
    BY <1>4 DEF Up, NextCall
  <2>2. Head(calls[0])[2] = "child"
    BY <2>1, MainNext DEF NextCall
  <2>3. /\ zem_up(Head(calls[0])[2]) /\ calls' = Made(0)
        /\ UNCHANGED <<program, turn, printed>>
    BY <1>4 DEF Up
  <2>4. at'[0] = "running"
    BY <1>1, <2>1, <2>3, UpKeepsZem
  <2>5. count'["parent"] = count["parent"]
    BY <1>1, <2>2, <2>3 DEF zem_up
  <2>6. QED
    BY <2>1, <2>3, <2>4, <2>5, MainMovesOn
<1>5. CASE PrintLine(0) \/ Report(0) \/ Join(0)
  <2>1. Passes(0)
    BY <1>1, <1>5, PassingSteps
  <2>2. ~NextCall(0, "zem_down")
    BY <1>5 DEF PrintLine, Report, Join, NextCall
  <2>3. \A t \in Threads \ {0} : printed'[t] = printed[t]
    BY <1>1, <1>5 DEF PrintLine, Report, Join
  <2>4. QED
    BY <2>1, <2>2, <2>3, MainMovesOn DEF Passes
<1>6. ~SetTurn(0) /\ ~Create(0) /\ ~TakeTurn(0)
  BY <1>1, <1>2, CallFacts DEF SetTurn, Create, TakeTurn
<1>7. QED
  BY <1>3, <1>4, <1>5, <1>6 DEF Step

(* A printer's call: it adds a unit to "parent" when it is the last one,   *)
(* and has printed by then.                                                *)
LEMMA PrinterMovesOn ==
  ASSUME Types, program = "test-zem", ReportInv, NEW t \in Threads \ {0},
         calls[t] # <<>>, calls' = Made(t),
         count'["parent"] = count["parent"] + (IF NextCall(t, "zem_up") THEN 1 ELSE 0),
         at'[0] = Woken => at[0] = Woken \/ NextCall(t, "zem_up"),
         \A u \in Threads \ {0} : printed[u] > 0 => printed'[u] > 0,
         NextCall(t, "print") => printed'[t] > 0
  PROVE  ReportInv'
<1>1. /\ Threads' = Threads /\ calls'[0] = calls[0]
      /\ \A u \in Threads \ {t} : calls'[u] = calls[u]
      /\ Suffix(calls'[t], PrinterCalls(t)) /\ Len(calls'[t]) = Len(calls[t]) - 1
      /\ Cardinality(Ended') = Cardinality(Ended)
           + (IF NextCall(t, "zem_up") THEN 1 ELSE 0)
  BY PrinterMoves
<1>2. Waited' = Waited /\ Waited \in Int
  <2>1. Len(calls[0]) \in Int /\ NUM_PRINTERS \in Nat
    BY TestZemFacts DEF Types
  <2>2. MainMade \in Int
    BY <2>1 DEF MainMade
  <2>3. QED
    BY <1>1, <2>2 DEF Waited, MainMade
<1>3. count["parent"] \in Int /\ Cardinality(Ended) \in Nat
  BY TestZemFacts DEF Types
<1>4. count["parent"] = Cardinality(Ended) - Waited /\ count["parent"] >= 0
  BY DEF ReportInv
<1>5. count'["parent"] = Cardinality(Ended') - Waited' /\ count'["parent"] >= 0
  BY <1>1, <1>2, <1>3, <1>4
<1>6. at'[0] = Woken => count'["parent"] > 0
  <2>1. CASE NextCall(t, "zem_up")
    BY <1>3, <1>4, <2>1
  <2>2. CASE ~NextCall(t, "zem_up")
    BY <1>3, <2>2 DEF ReportInv
  <2>3. QED
    BY <2>1, <2>2
<1>7. Len(calls'[t]) <= 1 => printed'[t] > 0
  <2>1. /\ Len(calls[t]) \in 1 .. 3
        /\ Len(calls[t]) = 2 => Head(calls[t])[1] = "print"
    BY PrinterNext
  <2>2. Len(calls[t]) = 2 => printed'[t] > 0
    BY <2>1 DEF NextCall
  <2>3. Len(calls[t]) <= 1 => printed'[t] > 0
    BY DEF ReportInv
  <2>4. Len(calls'[t]) = Len(calls[t]) - 1
    BY <1>1
  <2>5. Len(calls'[t]) <= 1 => Len(calls[t]) = 2 \/ Len(calls[t]) <= 1
    <3>1. \A m \in 1 .. 3 : m - 1 <= 1 => m = 2 \/ m <= 1
      OBVIOUS
    <3>2. QED
      BY <2>1, <2>4, <3>1
  <2>6. QED
    BY <2>2, <2>3, <2>5
<1>8. \A u \in Threads' \ {0} :
        /\ Suffix(calls'[u], PrinterCalls(u))
        /\ Len(calls'[u]) <= 1 => printed'[u] > 0
  BY <1>1, <1>7 DEF ReportInv
<1>9. Suffix(calls'[0], MainCalls)
  BY <1>1 DEF ReportInv
<1>10. QED
  BY <1>5, <1>6, <1>8, <1>9 DEF ReportInv

LEMMA PrinterReports ==
  ASSUME ZemInvariant, program = "test-zem", ReportInv, NEW t \in Threads \ {0}, Step(t)
  PROVE  ReportInv'
<1> USE DEF ZemInvariant
<1>1. 0 \in Threads /\ Zems = {"child", "parent"} /\ printed \in [Threads -> Nat]
      /\ count \in [Zems -> Int] /\ at \in [Threads -> Zems \cup {"running", Woken, "cond"}]
      /\ ~TakesTurns
  BY TestZemFacts DEF Types
<1>2. calls[t] # <<>> => Head(calls[t]) \in
        {<<"zem_down", "child">>, <<"print", t>>, <<"zem_up", "parent">>}
  <2> SUFFICES ASSUME calls[t] # <<>>
               PROVE  Head(calls[t]) \in
                 {<<"zem_down", "child">>, <<"print", t>>, <<"zem_up", "parent">>}
    OBVIOUS
  <2>1. Len(calls[t]) \in 1 .. 3
    BY PrinterNext
  <2>2. Len(calls[t]) = 1 \/ Len(calls[t]) = 2 \/ Len(calls[t]) = 3
    BY <2>1
  <2>3. QED
    BY <2>2, PrinterNext
<1>3. CASE Down(t)
  <2>1. NextCall(t, "zem_down") /\ calls[t] # <<>> /\ ~NextCall(t, "zem_up")
        /\ ~NextCall(t, "print")
    BY <1>3 DEF Down, NextCall
  <2>2. Head(calls[t])[2] = "child"
    BY <1>2, <2>1 DEF NextCall
  <2>3. zem_down(t, "child") /\ UNCHANGED printed
        /\ calls' = IF at'[t] = "running" THEN Made(t) ELSE calls
    BY <1>3, <2>2 DEF Down, Returned
  <2>4. at'[0] = at[0] /\ count'["parent"] = count["parent"]
    BY <1>1, <2>3 DEF zem_down
  <2>5. count["parent"] \in Int
    BY <1>1
  <2>6. CASE calls' = Made(t)
    BY <2>1, <2>3, <2>4, <2>5, <2>6, PrinterMovesOn
  <2>7. CASE calls' = calls
    <3>1. Threads' = Threads /\ Ended' = Ended /\ Waited' = Waited
      BY <2>7 DEF Threads, Ended, Waited, MainMade
    <3>2. QED
      BY <2>3, <2>4, <2>7, <3>1 DEF ReportInv
  <2>8. QED
    BY <2>3, <2>6, <2>7
<1>4. CASE Up(t)
  <2>1. NextCall(t, "zem_up") /\ calls[t] # <<>> /\ ~NextCall(t, "print")
    BY <1>4 DEF Up, NextCall
  <2>2. Head(calls[t])[2] = "parent"
    BY <1>2, <2>1 DEF NextCall
  <2>3. zem_up("parent") /\ calls' = Made(t) /\ UNCHANGED printed
    BY <1>4, <2>2 DEF Up
  <2>4. count'["parent"] = count["parent"] + 1
    BY <1>1, <2>3 DEF zem_up
  <2>5. QED
    BY <2>1, <2>3, <2>4, PrinterMovesOn
<1>5. CASE PrintLine(t)
  <2>1. Passes(t)
    BY <1>1, <1>5, PassingSteps
  <2>2. NextCall(t, "print") /\ ~NextCall(t, "zem_up")
    BY <1>5 DEF PrintLine, NextCall
  <2>3. printed'[t] > 0 /\ \A u \in Threads \ {0} : printed[u] > 0 => printed'[u] > 0
    BY <1>1, <1>5 DEF PrintLine
  <2>4. count["parent"] \in Int
    BY <1>1
  <2>5. QED
    BY <2>1, <2>2, <2>3, <2>4, PrinterMovesOn DEF Passes
<1>6. ~Report(t) /\ ~Join(t) /\ ~SetTurn(t) /\ ~Create(t) /\ ~TakeTurn(t)
  BY <1>2 DEF Report, Join, SetTurn, Create, TakeTurn, NextCall
<1>7. QED
  BY <1>3, <1>4, <1>5, <1>6 DEF Step

LEMMA ReportNextStep ==
  ASSUME ZemInvariant, program = "test-zem", ReportInv, Next, ~unsignalled'
  PROVE  ReportInv'
<1>1. ~Spurious
  BY DEF Spurious
<1>2. PICK t \in Threads : Step(t)
  BY <1>1 DEF Next
<1>3. QED
  BY <1>2, MainReports, PrinterReports

-----------------------------------------------------------------------------
(* ex3.c and ex4.c.                                                        *)

LEMMA TurnFacts ==
  ASSUME Types, TakesTurns
  PROVE  /\ Threads = 0 .. N /\ 0 \in Threads /\ N \in Nat /\ N + 2 \in Nat /\ Rounds \in Nat
         /\ calls \in [Threads -> Seq(Call)] /\ printed \in [Threads -> Nat]
         /\ turn \in 0 .. N
BY ThreadProgramsAssumption DEF Types, ProgramOK, TakesTurns, Rounds

(* Rounds of m calls: call q of round r is call r * m + q.                 *)
LEMMA RoundOf ==
  ASSUME NEW m \in Nat, m > 0, NEW r \in Nat, NEW q \in 0 .. m - 1
  PROVE  (r * m + q) % m = q
<1> DEFINE x == r * m + q
           d == x \div m
           e == x % m
<1>1. x \in Nat /\ d \in Int /\ e \in 0 .. m - 1 /\ x = m * d + e
  OBVIOUS
<1>2. x = r * m + q
  OBVIOUS
<1> HIDE DEF x, d, e
<1>3. m * d = d * m
  BY <1>1
<1>4. d <= r
  <2>1. SUFFICES ASSUME d >= r + 1 PROVE FALSE
    BY <1>1
  <2>2. d * m >= (r + 1) * m
    BY <1>1, <2>1
  <2>3. (r + 1) * m = r * m + m
    OBVIOUS
  <2>4. QED
    BY <1>1, <1>2, <1>3, <2>2, <2>3
<1>5. d >= r
  <2>1. SUFFICES ASSUME d <= r - 1 PROVE FALSE
    BY <1>1
  <2>2. (d + 1) * m <= r * m
    BY <1>1, <2>1
  <2>3. (d + 1) * m = d * m + m
    BY <1>1
  <2>4. QED
    BY <1>1, <1>2, <1>3, <2>2, <2>3
<1>6. d = r
  BY <1>1, <1>4, <1>5
<1>7. e = q
  BY <1>1, <1>2, <1>3, <1>6
<1>8. QED
  BY <1>7 DEF e, x

RoundCall(q) == IF q = 0 THEN <<"set_turn", 0>>
                ELSE IF q = N + 1 THEN <<"join", 0>> ELSE <<"create", q>>

LEMMA RoundText ==
  ASSUME N \in Nat
  PROVE  \A q \in 0 .. N + 1 : RoundCalls[q + 1] = RoundCall(q)
<1> DEFINE s == [i \in 1 .. N |-> <<"create", i>>]
           T == {<<"create", i>> : i \in 1 .. N}
           a == <<"set_turn", 0>>
           b == <<"join", 0>>
<1>1. /\ s \in Seq(T) /\ Len(s) = N /\ \A i \in 1 .. N : s[i] = <<"create", i>>
  OBVIOUS
<1>2. RoundCalls = <<a>> \o s \o <<b>>
  BY DEF RoundCalls
<1>3. \A q \in 0 .. N + 1 :
        RoundCall(q) = IF q = 0 THEN a ELSE IF q = N + 1 THEN b ELSE <<"create", q>>
  BY DEF RoundCall
<1> HIDE DEF s, T, a, b
<1>4. /\ RoundCalls[1] = a /\ RoundCalls[N + 2] = b
      /\ \A i \in 1 .. N : RoundCalls[i + 1] = s[i]
  BY <1>1, <1>2, Enclosed
<1>5. ASSUME NEW q \in 0 .. N + 1
      PROVE  RoundCalls[q + 1] = RoundCall(q)
  <2>1. CASE q = 0
    BY <1>3, <1>4, <2>1
  <2>2. CASE q = N + 1
    <3>1. q + 1 = N + 2 /\ q # 0
      BY <2>2
    <3>2. QED
      BY <1>3, <1>4, <2>2, <3>1
  <2>3. CASE q \in 1 .. N
    <3>1. RoundCalls[q + 1] = <<"create", q>>
      BY <1>1, <1>4, <2>3
    <3>2. q # 0 /\ q # N + 1
      BY <2>3
    <3>3. QED
      BY <1>3, <3>1, <3>2
  <2>4. QED
    BY <2>1, <2>2, <2>3
<1>6. QED
  BY <1>5

(* main's text, by the round and the number of calls of it made.           *)
LEMMA MainTextAt ==
  ASSUME N \in Nat, Rounds \in Nat
  PROVE  /\ Len(MainText) = Rounds * (N + 2) /\ Len(MainText) \in Nat
         /\ \A r \in Nat, q \in 0 .. N + 1 : r * (N + 2) + q < Rounds * (N + 2) =>
              MainText[r * (N + 2) + q + 1] = RoundCall(q)
<1> DEFINE m == N + 2
<1>1. m \in Nat /\ m > 0 /\ Rounds * m \in Nat
  OBVIOUS
<1>2. MainText = [i \in 1 .. Rounds * m |-> RoundCalls[((i - 1) % m) + 1]]
  BY DEF MainText
<1>3. \A q \in 0 .. m - 1 : RoundCalls[q + 1] = RoundCall(q)
  BY RoundText
<1>4. m - 1 = N + 1
  OBVIOUS
<1> HIDE DEF m
<1>5. Len(MainText) = Rounds * m
  BY <1>1, <1>2
<1>6. ASSUME NEW r \in Nat, NEW q \in 0 .. m - 1, r * m + q < Rounds * m
      PROVE  MainText[r * m + q + 1] = RoundCall(q)
  <2>1. r * m + q \in Nat
    BY <1>1
  <2>2. r * m + q + 1 \in 1 .. Rounds * m /\ (r * m + q + 1) - 1 = r * m + q
    BY <1>1, <1>6, <2>1
  <2>3. (r * m + q) % m = q
    BY <1>1, RoundOf
  <2>4. MainText[r * m + q + 1] = RoundCalls[q + 1]
    BY <1>2, <2>2, <2>3
  <2>5. QED
    BY <1>3, <2>4
<1>7. QED
  BY <1>1, <1>4, <1>5, <1>6 DEF m

(* main's next call.                                                       *)
LEMMA RoundNext ==
  ASSUME Types, TakesTurns, Suffix(calls[0], MainText), calls[0] # <<>>,
         NEW r \in 0 .. Rounds, NEW q \in 0 .. N + 1, RoundAt(r, q)
  PROVE  /\ Head(calls[0]) = RoundCall(q) /\ r < Rounds
         /\ Suffix(Tail(calls[0]), MainText)
         /\ Passed(calls[0], MainText) = r * (N + 2) + q
         /\ Passed(Tail(calls[0]), MainText) = r * (N + 2) + q + 1
<1>1. /\ N \in Nat /\ Rounds \in Nat /\ calls[0] \in Seq(Call)
      /\ Len(MainText) = Rounds * (N + 2) /\ Len(MainText) \in Nat
  BY TurnFacts, MainTextAt
<1>2. /\ Passed(calls[0], MainText) \in 0 .. Len(MainText) - 1
      /\ Head(calls[0]) = MainText[Passed(calls[0], MainText) + 1]
      /\ Suffix(Tail(calls[0]), MainText)
      /\ Passed(Tail(calls[0]), MainText) = Passed(calls[0], MainText) + 1
  BY <1>1, NextInText
<1>3. Passed(calls[0], MainText) = r * (N + 2) + q
  BY DEF RoundAt, Passed
<1>4. r * (N + 2) + q < Rounds * (N + 2)
  <2>1. r * (N + 2) + q \in Int /\ Rounds * (N + 2) \in Int
    BY <1>1
  <2>2. r * (N + 2) + q \in 0 .. Len(MainText) - 1
    BY <1>2, <1>3
  <2>3. QED
    BY <1>1, <2>1, <2>2
<1>5. Head(calls[0]) = RoundCall(q)
  <2>1. MainText[r * (N + 2) + q + 1] = RoundCall(q)
    BY <1>1, <1>4, MainTextAt
  <2>2. QED
    BY <1>2, <1>3, <2>1
<1>6. r < Rounds
  <2>1. SUFFICES ASSUME r = Rounds PROVE FALSE
    BY <1>1
  <2>2. QED
    BY <1>1, <1>4, <2>1
<1>7. QED
  BY <1>2, <1>3, <1>5, <1>6

(* "turn = 0": the threads of the round before have ended.                 *)
LEMMA SetTurnInTurn ==
  ASSUME ZemInvariant, TakesTurns, TurnInv, SetTurn(0)
  PROVE  TurnInv'
<1> USE DEF ZemInvariant
<1>1. PICK r \in 0 .. Rounds, q \in 0 .. N + 1 : RoundAt(r, q)
  BY DEF TurnInv
<1>2. /\ Threads = 0 .. N /\ 0 \in Threads /\ N \in Nat /\ Rounds \in Nat
      /\ calls \in [Threads -> Seq(Call)] /\ printed \in [Threads -> Nat]
  BY TurnFacts
<1>3. NextCall(0, "set_turn") /\ calls[0] # <<>> /\ turn' = 0 /\ calls' = Made(0)
      /\ UNCHANGED <<program, printed>>
  BY DEF SetTurn, NextCall
<1>4. /\ Head(calls[0]) = RoundCall(q)
      /\ Suffix(Tail(calls[0]), MainText)
      /\ Passed(Tail(calls[0]), MainText) = r * (N + 2) + q + 1
  BY <1>1, <1>3, RoundNext DEF TurnInv
<1>5. q = 0
  <2>1. RoundCall(q)[1] = "set_turn"
    BY <1>3, <1>4 DEF NextCall
  <2>2. QED
    BY <2>1 DEF RoundCall
<1>6. /\ calls'[0] = Tail(calls[0]) /\ \A t \in Threads \ {0} : calls'[t] = calls[t]
      /\ Threads' = Threads /\ Rounds' = Rounds
  BY <1>2, <1>3, MadeFacts DEF Threads, Rounds
<1>7. MainText' = MainText
  BY <1>6 DEF MainText
<1>8. Len(MainText') - Len(calls'[0]) = r * (N + 2) + 1
  <2>1. r * (N + 2) \in Int
    BY <1>2
  <2>2. QED
    BY <1>4, <1>5, <1>6, <1>7, <2>1 DEF Passed
<1>9. ASSUME NEW t \in Threads \ {0}
      PROVE  calls'[t] = <<>> /\ printed'[t] = r
  <2>1. ~(t < q) /\ ~(q > 0)
    BY <1>2, <1>5
  <2>2. calls[t] = <<>>
    BY <1>1, <2>1 DEF RoundAt
  <2>3. printed[t] = r
    BY <1>1, <2>1 DEF RoundAt
  <2>4. QED
    BY <1>3, <1>6, <2>2, <2>3
<1>10. RoundAt(r, 1)'
  <2>1. \A t \in Threads \ {0} : ~(turn' < t /\ t < 1) /\ ~(1 > 0 /\ t <= turn')
    BY <1>2, <1>3
  <2>2. turn' < 1
    BY <1>3
  <2>3. QED
    BY <1>6, <1>8, <1>9, <2>1, <2>2 DEF RoundAt
<1>11. QED
  <2>1. Suffix(calls'[0], MainText')
    BY <1>4, <1>6, <1>7
  <2>2. r \in 0 .. Rounds' /\ 1 \in 0 .. N + 1
    BY <1>2, <1>6
  <2>3. QED
    BY <1>10, <2>1, <2>2 DEF TurnInv

(* pthread_create: the thread has not run in this round.                   *)
LEMMA CreateInTurn ==
  ASSUME ZemInvariant, TakesTurns, TurnInv, Create(0)
  PROVE  TurnInv' /\ ZemInvariant'
<1> USE DEF ZemInvariant
<1>1. PICK r \in 0 .. Rounds, q \in 0 .. N + 1 : RoundAt(r, q)
  BY DEF TurnInv
<1>2. /\ Threads = 0 .. N /\ 0 \in Threads /\ N \in Nat /\ Rounds \in Nat
      /\ calls \in [Threads -> Seq(Call)] /\ printed \in [Threads -> Nat]
      /\ turn \in 0 .. N
  BY TurnFacts
<1>3. NextCall(0, "create") /\ calls[0] # <<>> /\ UNCHANGED <<program, printed, turn>>
  BY DEF Create, NextCall
<1>4. /\ Head(calls[0]) = RoundCall(q)
      /\ Suffix(Tail(calls[0]), MainText)
      /\ Passed(Tail(calls[0]), MainText) = r * (N + 2) + q + 1
  BY <1>1, <1>3, RoundNext DEF TurnInv
<1>5. q \in 1 .. N /\ Head(calls[0])[2] = q
  <2>1. RoundCall(q)[1] = "create"
    BY <1>3, <1>4 DEF NextCall
  <2>2. q # 0 /\ q # N + 1
    BY <2>1 DEF RoundCall
  <2>3. RoundCall(q) = <<"create", q>>
    BY <2>2 DEF RoundCall
  <2>4. QED
    BY <1>2, <1>4, <2>2, <2>3
<1>6. q \in Threads \ {0} /\ calls[q] = <<>>
  <2>1. q \in Threads \ {0} /\ ~(q < q)
    BY <1>2, <1>5
  <2>2. calls[q] = IF turn < q /\ q < q THEN RoutineCalls ELSE <<>>
    BY <1>1, <2>1 DEF RoundAt
  <2>3. QED
    BY <2>1, <2>2
<1>7. /\ ZemInvariant' /\ calls'[0] = Tail(calls[0]) /\ calls'[q] = RoutineCalls
      /\ \A u \in Threads \ {0, q} : calls'[u] = calls[u]
  <2>1. at[0] = "running"
    BY <1>2, <1>3, RunningInside
  <2>2. q \in Nat \ {0} /\ q \in Threads
    BY <1>5, <1>6
  <2> USE <1>2, <1>5, <1>6, <2>1, <2>2
  <2> HIDE DEF ZemInvariant
  <2>3. ZemInvariant'
    BY CreateKeepsZem
  <2>4. calls'[0] = Tail(calls[0])
    BY CreateKeepsZem
  <2>5. calls'[q] = RoutineCalls
    BY CreateKeepsZem
  <2>6. \A u \in Threads \ {0, q} : calls'[u] = calls[u]
    BY CreateKeepsZem
  <2>7. QED
    BY <2>3, <2>4, <2>5, <2>6
<1>8. Threads' = Threads /\ Rounds' = Rounds
  BY <1>2, <1>3, MadeFacts DEF Create, Threads, Rounds
<1>9. MainText' = MainText
  BY <1>8 DEF MainText
<1>10. Len(MainText') - Len(calls'[0]) = r * (N + 2) + (q + 1)
  <2>1. r * (N + 2) \in Int
    BY <1>2
  <2>2. QED
    BY <1>4, <1>7, <1>9, <2>1 DEF Passed
<1>11. turn < q
  BY <1>1, <1>5 DEF RoundAt
<1>12. ASSUME NEW t \in Threads \ {0}
       PROVE  /\ calls'[t] = IF turn' < t /\ t < q + 1 THEN RoutineCalls ELSE <<>>
              /\ printed'[t] = IF q + 1 > 0 /\ t <= turn' THEN r + 1 ELSE r
  <2>1. /\ calls[t] = IF turn < t /\ t < q THEN RoutineCalls ELSE <<>>
        /\ printed[t] = IF q > 0 /\ t <= turn THEN r + 1 ELSE r
    BY <1>1 DEF RoundAt
  <2>2. turn' = turn /\ printed' = printed /\ q > 0 /\ q + 1 > 0
    BY <1>3, <1>5
  <2>3. CASE t = q
    <3>1. turn' < t /\ t < q + 1
      BY <1>3, <1>11, <2>3
    <3>2. QED
      BY <1>7, <2>1, <2>2, <2>3, <3>1
  <2>4. CASE t # q
    <3>1. t < q + 1 <=> t < q
      BY <1>2, <2>4
    <3>2. calls'[t] = calls[t]
      BY <1>7, <2>4
    <3>3. QED
      BY <2>1, <2>2, <3>1, <3>2
  <2>5. QED
    BY <2>3, <2>4
<1>13. RoundAt(r, q + 1)'
  <2>1. turn' < q + 1
    BY <1>2, <1>3, <1>11
  <2>2. QED
    BY <1>8, <1>10, <1>12, <2>1 DEF RoundAt
<1>14. Suffix(calls'[0], MainText')
  BY <1>4, <1>7, <1>9
<1>15. r \in 0 .. Rounds' /\ q + 1 \in 0 .. N + 1
  BY <1>2, <1>5, <1>8
<1>16. QED
  BY <1>7, <1>13, <1>14, <1>15 DEF TurnInv

(* pthread_join: the round is over, and all have printed once more.        *)
LEMMA JoinInTurn ==
  ASSUME ZemInvariant, TakesTurns, TurnInv, Join(0)
  PROVE  TurnInv'
<1> USE DEF ZemInvariant
<1>1. PICK r \in 0 .. Rounds, q \in 0 .. N + 1 : RoundAt(r, q)
  BY DEF TurnInv
<1>2. /\ Threads = 0 .. N /\ 0 \in Threads /\ N \in Nat /\ Rounds \in Nat
      /\ calls \in [Threads -> Seq(Call)] /\ printed \in [Threads -> Nat]
      /\ turn \in 0 .. N
  BY TurnFacts
<1>3. NextCall(0, "join") /\ calls[0] # <<>> /\ calls' = Made(0)
      /\ UNCHANGED <<program, printed, turn>>
      /\ \A u \in Threads \ {0} : calls[u] = <<>>
  BY DEF Join, NextCall
<1>4. /\ Head(calls[0]) = RoundCall(q) /\ r < Rounds
      /\ Suffix(Tail(calls[0]), MainText)
      /\ Passed(Tail(calls[0]), MainText) = r * (N + 2) + q + 1
  BY <1>1, <1>3, RoundNext DEF TurnInv
<1>5. q = N + 1
  <2>1. RoundCall(q)[1] = "join"
    BY <1>3, <1>4 DEF NextCall
  <2>2. QED
    BY <2>1 DEF RoundCall
<1>6. /\ calls'[0] = Tail(calls[0]) /\ \A t \in Threads \ {0} : calls'[t] = calls[t]
      /\ Threads' = Threads /\ Rounds' = Rounds
  BY <1>2, <1>3, MadeFacts DEF Threads, Rounds
<1>7. MainText' = MainText
  BY <1>6 DEF MainText
<1>8. Len(MainText') - Len(calls'[0]) = (r + 1) * (N + 2) + 0
  <2>1. (r + 1) * (N + 2) = r * (N + 2) + (N + 2) /\ r * (N + 2) \in Int
    BY <1>2
  <2>2. Len(MainText') - Len(calls'[0]) = r * (N + 2) + q + 1
    BY <1>4, <1>6, <1>7 DEF Passed
  <2>3. \A a \in Int : a + (N + 1) + 1 = (a + (N + 2)) + 0
    BY <1>2
  <2>4. r * (N + 2) + q + 1 = (r * (N + 2) + (N + 2)) + 0
    BY <1>5, <2>1, <2>3
  <2>5. QED
    BY <2>1, <2>2, <2>4
<1>9. ASSUME NEW t \in Threads \ {0}
      PROVE  calls'[t] = <<>> /\ printed'[t] = r + 1
  <2>1. t < q /\ q > 0
    BY <1>2, <1>5
  <2>2. ~(turn < t)
    <3>1. calls[t] = IF turn < t /\ t < q THEN RoutineCalls ELSE <<>>
      BY <1>1 DEF RoundAt
    <3>2. RoutineCalls # <<>>
      BY DEF RoutineCalls
    <3>3. QED
      BY <1>3, <2>1, <3>1, <3>2
  <2>3. t <= turn
    BY <1>2, <2>2
  <2>4. printed[t] = r + 1
    BY <1>1, <2>1, <2>3 DEF RoundAt
  <2>5. QED
    BY <1>3, <1>6, <2>4
<1>10. RoundAt(r + 1, 0)'
  <2>1. \A t \in Threads \ {0} : ~(turn' < t /\ t < 0) /\ ~(0 > 0 /\ t <= turn')
    BY <1>2
  <2>2. ~(0 > 0)
    OBVIOUS
  <2>3. QED
    BY <1>6, <1>8, <1>9, <2>1, <2>2 DEF RoundAt
<1>11. QED
  <2>1. Suffix(calls'[0], MainText')
    BY <1>4, <1>6, <1>7
  <2>2. r + 1 \in 0 .. Rounds' /\ 0 \in 0 .. N + 1
    BY <1>2, <1>4, <1>6
  <2>3. QED
    BY <1>10, <2>1, <2>2 DEF TurnInv

(* routine: only the thread whose turn it is prints.                       *)
LEMMA TakeTurnInTurn ==
  ASSUME ZemInvariant, TakesTurns, TurnInv, NEW t \in Threads, TakeTurn(t)
  PROVE  TurnInv'
<1> USE DEF ZemInvariant
<1>1. PICK r \in 0 .. Rounds, q \in 0 .. N + 1 : RoundAt(r, q)
  BY DEF TurnInv
<1>2. /\ Threads = 0 .. N /\ 0 \in Threads /\ N \in Nat /\ Rounds \in Nat
      /\ calls \in [Threads -> Seq(Call)] /\ printed \in [Threads -> Nat]
      /\ turn \in 0 .. N
  BY TurnFacts
<1>3. /\ calls[t] # <<>> /\ Head(calls[t]) = <<"take_turn", "cond">>
      /\ UNCHANGED <<count, program, unsignalled>>
      /\ \/ UNCHANGED <<calls, turn, printed>>
         \/ /\ t - 1 = turn /\ turn' = turn + 1
            /\ printed' = [printed EXCEPT ![t] = @ + 1]
            /\ calls' = Made(t)
  BY TakeTurnEffect
<1>4. t # 0
  <2>1. SUFFICES ASSUME t = 0 PROVE FALSE
    OBVIOUS
  <2>2. Head(calls[0]) = RoundCall(q)
    BY <1>1, <1>3, <2>1, RoundNext DEF TurnInv
  <2>3. RoundCall(q)[1] \in {"set_turn", "create", "join"}
    BY DEF RoundCall
  <2>4. QED
    BY <1>3, <2>1, <2>2, <2>3
<1>5. turn < t /\ t < q /\ calls[t] = RoutineCalls
  BY <1>1, <1>3, <1>4 DEF RoundAt
<1>6. CASE UNCHANGED <<calls, turn, printed>>
  <2>1. Threads' = Threads /\ Rounds' = Rounds
    BY <1>3, <1>6 DEF Threads, Rounds
  <2>2. MainText' = MainText
    BY <2>1 DEF MainText
  <2>3. RoundAt(r, q)'
    BY <1>1, <1>6, <2>1, <2>2 DEF RoundAt
  <2>4. QED
    BY <1>6, <2>1, <2>2, <2>3 DEF TurnInv
<1>7. CASE /\ t - 1 = turn /\ turn' = turn + 1
           /\ printed' = [printed EXCEPT ![t] = @ + 1]
           /\ calls' = Made(t)
  <2>1. /\ calls'[t] = Tail(calls[t]) /\ \A u \in Threads \ {t} : calls'[u] = calls[u]
        /\ Threads' = Threads /\ Rounds' = Rounds
    BY <1>2, <1>3, <1>7, MadeFacts DEF Threads, Rounds
  <2>2. MainText' = MainText /\ calls'[0] = calls[0]
    BY <1>2, <1>4, <2>1 DEF MainText
  <2>3. calls'[t] = <<>>
    BY <1>5, <2>1 DEF RoutineCalls
  <2>4. printed'[t] = printed[t] + 1 /\ \A u \in Threads \ {t} : printed'[u] = printed[u]
    BY <1>2, <1>7
  <2>5. turn' = t
    BY <1>2, <1>7
  <2>6. ASSUME NEW u \in Threads \ {0}
        PROVE  /\ calls'[u] = IF turn' < u /\ u < q THEN RoutineCalls ELSE <<>>
               /\ printed'[u] = IF q > 0 /\ u <= turn' THEN r + 1 ELSE r
    <3>1. /\ calls[u] = IF turn < u /\ u < q THEN RoutineCalls ELSE <<>>
          /\ printed[u] = IF q > 0 /\ u <= turn THEN r + 1 ELSE r
      BY <1>1 DEF RoundAt
    <3>2. q > 0
      BY <1>2, <1>5
    <3>3. CASE u = t
      <4>1. ~(turn' < u) /\ u <= turn' /\ ~(u <= turn)
        BY <1>2, <1>5, <2>5, <3>3
      <4>2. printed[u] = r
        BY <3>1, <4>1
      <4>3. QED
        BY <2>3, <2>4, <3>2, <3>3, <4>1, <4>2
    <3>4. CASE u # t
      <4>1. (turn' < u <=> turn < u) /\ (u <= turn' <=> u <= turn)
        BY <1>2, <1>7, <2>5, <3>4
      <4>2. calls'[u] = calls[u] /\ printed'[u] = printed[u]
        BY <2>1, <2>4, <3>4
      <4>3. QED
        BY <3>1, <4>1, <4>2
    <3>5. QED
      BY <3>3, <3>4
  <2>7. RoundAt(r, q)'
    <3>1. Len(MainText') - Len(calls'[0]) = r * (N + 2) + q
      BY <1>1, <2>2 DEF RoundAt
    <3>2. q > 0 => turn' < q
      BY <1>5, <2>5
    <3>3. QED
      BY <2>1, <2>6, <3>1, <3>2 DEF RoundAt
  <2>8. Suffix(calls'[0], MainText')
    BY <2>2 DEF TurnInv
  <2>9. QED
    BY <2>1, <2>7, <2>8 DEF TurnInv
<1>8. QED
  BY <1>3, <1>6, <1>7

(* Only main sets the turn, creates threads and waits for their end.       *)
LEMMA MainOnly ==
  ASSUME TakesTurns, TurnInv, NEW t \in Threads, SetTurn(t) \/ Create(t) \/ Join(t)
  PROVE  t = 0
<1>1. PICK r \in 0 .. Rounds, q \in 0 .. N + 1 : RoundAt(r, q)
  BY DEF TurnInv
<1>2. calls[t] # <<>> /\ Head(calls[t])[1] # "take_turn"
  BY DEF SetTurn, Create, Join, NextCall
<1>3. Head(RoutineCalls)[1] = "take_turn"
  BY DEF RoutineCalls
<1>4. t # 0 => calls[t] \in {RoutineCalls, <<>>}
  BY <1>1 DEF RoundAt
<1>5. QED
  BY <1>2, <1>3, <1>4

(* No step of these programs is a call of a zemaphore.                     *)
LEMMA TurnNextStep ==
  ASSUME ZemInvariant, TakesTurns, TurnInv, Next
  PROVE  TurnInv'
<1> USE DEF ZemInvariant
<1>1. CASE Spurious
  <2>1. UNCHANGED <<program, calls, turn, printed>>
    BY <1>1 DEF Spurious
  <2>2. Threads' = Threads /\ Rounds' = Rounds
    BY <2>1 DEF Threads, Rounds
  <2>3. MainText' = MainText
    BY <2>2 DEF MainText
  <2>4. \A r, q : RoundAt(r, q) => RoundAt(r, q)'
    BY <2>1, <2>2, <2>3 DEF RoundAt
  <2>5. QED
    BY <2>1, <2>2, <2>3, <2>4 DEF TurnInv
<1>2. CASE \E t \in Threads : Step(t)
  <2>1. PICK t \in Threads : Step(t)
    BY <1>2
  <2>2. ~Down(t) /\ ~Up(t) /\ ~PrintLine(t) /\ ~Report(t)
    BY CallFacts DEF Down, Up, PrintLine, Report
  <2>3. CASE TakeTurn(t)
    BY <2>3, TakeTurnInTurn
  <2>4. CASE SetTurn(t) \/ Create(t) \/ Join(t)
    <3>1. t = 0
      BY <2>4, MainOnly
    <3>2. QED
      BY <2>4, <3>1, SetTurnInTurn, CreateInTurn, JoinInTurn
  <2>5. QED
    BY <2>1, <2>2, <2>3, <2>4 DEF Step
<1>3. QED
  BY <1>1, <1>2 DEF Next

-----------------------------------------------------------------------------
(* The invariant is inductive.                                             *)

LEMMA DownKeepsZem ==
  ASSUME ZemInvariant, NEW t \in Threads, Down(t)
  PROVE  ZemInvariant'
<1> DEFINE s == Head(calls[t])[2]
<1>1. /\ NextCall(t, "zem_down") /\ zem_down(t, s)
      /\ calls' = (IF at'[t] = "running" THEN Made(t) ELSE calls)
      /\ UNCHANGED <<program, turn, printed>>
  BY DEF Down, Returned
<1>2. s \in Zems /\ s # "running" /\ at \in [Threads -> Zems \cup {"running", Woken, "cond"}]
  BY <1>1, CallFacts, ZemsApart DEF ZemInvariant, Types
<1>3. s = Head(calls[t])[2]
  OBVIOUS
<1> HIDE DEF s
<1>4. CASE at[t] = "running" /\ MustSleep(s) /\ at' = [at EXCEPT ![t] = s] /\ UNCHANGED count
  <2>1. at'[t] # "running"
    BY <1>2, <1>4
  <2>2. calls' = calls
    BY <1>1, <2>1
  <2>3. UNCHANGED <<count, calls, program, turn, printed>>
    BY <1>1, <1>4, <2>2
  <2>4. QED
    BY <1>1, <1>3, <1>4, <2>3, DownSleepsKeepsZem
<1>5. CASE /\ (at[t] = "running" /\ ~MustSleep(s)) \/ at[t] = Woken
           /\ count' = [count EXCEPT ![s] = @ - 1]
           /\ at' = [at EXCEPT ![t] = "running"]
  <2>1. at'[t] = "running"
    BY <1>2, <1>5
  <2>2. calls' = Made(t)
    BY <1>1, <2>1
  <2>3. QED
    BY <1>1, <1>3, <1>5, <2>2, DownTakesKeepsZem
<1>6. QED
  BY <1>1, <1>4, <1>5 DEF zem_down

LEMMA ZemNextStep ==
  ASSUME ZemInvariant, TakesTurns => TurnInv, Next
  PROVE  ZemInvariant' /\ program' = program
<1>1. CASE Spurious
  BY <1>1, SpuriousKeepsZem DEF Spurious
<1>2. CASE \E t \in Threads : Step(t)
  <2>1. PICK t \in Threads : Step(t)
    BY <1>2
  <2>2. CASE Down(t)
    BY <2>2, DownKeepsZem DEF Down
  <2>3. CASE Up(t)
    <3>1. /\ NextCall(t, "zem_up") /\ zem_up(Head(calls[t])[2]) /\ calls' = Made(t)
          /\ UNCHANGED <<program, turn, printed>>
      BY <2>3 DEF Up
    <3>2. QED
      BY <3>1, UpKeepsZem
  <2>4. CASE PrintLine(t) \/ Report(t) \/ Join(t) \/ SetTurn(t)
    <3>1. Passes(t)
      BY <2>4, PassingSteps DEF ZemInvariant
    <3>2. QED
      BY <3>1, PassesKeepsZem DEF Passes
  <2>5. CASE Create(t)
    <3>1. TakesTurns
      BY <2>5, CallFacts DEF Create, ZemInvariant
    <3>2. t = 0
      BY <2>5, <3>1, MainOnly
    <3>3. QED
      BY <2>5, <3>1, <3>2, CreateInTurn DEF Create
  <2>6. CASE TakeTurn(t)
    BY <2>6, TakeTurnKeepsZem DEF TakeTurn
  <2>7. QED
    BY <2>1, <2>2, <2>3, <2>4, <2>5, <2>6 DEF Step
<1>3. QED
  BY <1>1, <1>2 DEF Next

LEMMA ProgramsNextStep ==
  ASSUME ProgramsInv, Next
  PROVE  ProgramsInv'
<1>1. ZemInvariant /\ (TakesTurns => TurnInv)
  BY DEF ProgramsInv
<1>2. ZemInvariant' /\ program' = program
  BY <1>1, ZemNextStep
<1>3. ~unsignalled' => ~unsignalled
  <2>1. ~unsignalled' => ~Spurious
    BY DEF Spurious
  <2>2. ASSUME NEW t \in Threads, Step(t) PROVE unsignalled' = unsignalled
    BY <2>2 DEF Step, Down, Up, PrintLine, Report, Join, SetTurn, Create, TakeTurn
  <2>3. QED
    BY <2>1, <2>2 DEF Next
<1>4. (program = "test-toggle" /\ ~unsignalled => ToggleInv)'
  <2>1. SUFFICES ASSUME program' = "test-toggle", ~unsignalled' PROVE ToggleInv'
    OBVIOUS
  <2>2. program = "test-toggle" /\ ToggleInv
    BY <1>2, <1>3, <2>1 DEF ProgramsInv
  <2>3. QED
    BY <1>1, <2>1, <2>2, ToggleNextStep
<1>5. (program = "test-zem" /\ ~unsignalled => ReportInv)'
  <2>1. SUFFICES ASSUME program' = "test-zem", ~unsignalled' PROVE ReportInv'
    OBVIOUS
  <2>2. program = "test-zem" /\ ReportInv
    BY <1>2, <1>3, <2>1 DEF ProgramsInv
  <2>3. QED
    BY <1>1, <2>1, <2>2, ReportNextStep
<1>6. (TakesTurns => TurnInv)'
  <2>1. SUFFICES ASSUME TakesTurns' PROVE TurnInv'
    OBVIOUS
  <2>2. TakesTurns
    BY <1>2, <2>1 DEF TakesTurns
  <2>3. QED
    BY <1>1, <2>2, TurnNextStep
<1>7. QED
  BY <1>2, <1>4, <1>5, <1>6 DEF ProgramsInv

LEMMA ProgramsStutter ==
  ASSUME ProgramsInv, UNCHANGED vars
  PROVE  ProgramsInv'
<1>1. UNCHANGED <<count, at, program, calls, turn, printed, unsignalled>>
  BY DEF vars
<1>2. /\ Threads' = Threads /\ Zems' = Zems /\ (TakesTurns' <=> TakesTurns)
      /\ Rounds' = Rounds
  BY <1>1 DEF Threads, Zems, TakesTurns, Rounds
<1>3. Call' = Call /\ MainText' = MainText
  BY <1>2 DEF Call, MainText
<1>4. ZemInvariant'
  <2>1. Types'
    BY <1>1, <1>2, <1>3 DEF ProgramsInv, ZemInvariant, Types, ProgramOK, TakesTurns
  <2>2. AsleepInCalls'
    BY <1>1, <1>2 DEF ProgramsInv, ZemInvariant, AsleepInCalls, InsideCall, NextCall
  <2>3. UnitsAreOwed'
    BY <1>1, <1>2 DEF ProgramsInv, ZemInvariant, UnitsAreOwed, WokenOn
  <2>4. QED
    BY <2>1, <2>2, <2>3 DEF ZemInvariant
<1>5. (program = "test-toggle" /\ ~unsignalled => ToggleInv)'
  BY <1>1, <1>2 DEF ProgramsInv, ToggleInv, TokenAt
<1>6. (program = "test-zem" /\ ~unsignalled => ReportInv)'
  BY <1>1, <1>2 DEF ProgramsInv, ReportInv, Ended, Waited, MainMade
<1>7. (TakesTurns => TurnInv)'
  BY <1>1, <1>2, <1>3 DEF ProgramsInv, TurnInv, RoundAt
<1>8. QED
  BY <1>4, <1>5, <1>6, <1>7 DEF ProgramsInv

-----------------------------------------------------------------------------
(* The programs' initial states.                                           *)

(* A thread that has not called anything is nowhere asleep.                *)
LEMMA StartsAwake ==
  ASSUME Types, \A t \in Threads : at[t] = "running"
  PROVE  ZemInvariant
<1>1. AsleepInCalls
  BY DEF AsleepInCalls
<1>2. \A s \in Zems : Sleepers(at, s) = {}
  BY ZemsApart DEF Sleepers, Types
<1>3. QED
  BY <1>1, <1>2 DEF ZemInvariant, UnitsAreOwed, Zems

LEMMA ToggleInit ==
  ASSUME TestToggle, turn = 0, printed = [t \in Threads |-> 0]
  PROVE  ProgramsInv
<1>1. /\ program = "test-toggle" /\ ~TakesTurns
      /\ calls = [t \in 0 .. NUM_THREADS - 1 |-> ToggleCalls(t)]
      /\ Threads = 0 .. NUM_THREADS - 1
  BY DEF TestToggle, TakesTurns, Threads
<1>2. /\ NUM_THREADS \in Nat \ {0} /\ NUM_ITER \in Nat /\ DOMAIN zem = Threads
      /\ 0 \in Threads /\ \A i, j \in Threads : zem[i] = zem[j] => i = j
  BY <1>1, ThreadProgramsAssumption
<1>3. /\ count = [s \in {zem[t] : t \in Threads} |-> IF s = zem[0] THEN 1 ELSE 0]
      /\ at = [t \in Threads |-> "running"]
  BY <1>2 DEF TestToggle, zem_init
<1>4. Zems = {zem[t] : t \in Threads}
  BY <1>3 DEF Zems
<1>5. ASSUME NEW t \in Threads
      PROVE  ToggleCalls(t) \in Seq(Call) /\ Suffix(ToggleCalls(t), ToggleCalls(t))
  <2> DEFINE round == << <<"zem_down", zem[t]>>, <<"print", t>>,
                         <<"zem_up", zem[next_thread(t)]>> >>
  <2>1. next_thread(t) \in Threads
    BY <1>1, <1>2 DEF next_thread
  <2>2. \A p \in 1 .. 3 : round[p] \in Call
    <3>1. zem[t] \in Zems /\ zem[next_thread(t)] \in Zems /\ t \in Nat
      BY <1>1, <1>4, <2>1
    <3>2. /\ <<"zem_down", zem[t]>> \in Call /\ <<"print", t>> \in Call
          /\ <<"zem_up", zem[next_thread(t)]>> \in Call
      BY <1>1, <3>1 DEF Call
    <3>3. QED
      BY <3>2
  <2>3. ToggleCalls(t) = [i \in 1 .. 3 * NUM_ITER |-> round[((i - 1) % 3) + 1]]
    BY DEF ToggleCalls
  <2> HIDE DEF round
  <2>4. 3 * NUM_ITER \in Nat
    BY <1>2
  <2>5. \A i \in 1 .. 3 * NUM_ITER : ((i - 1) % 3) + 1 \in 1 .. 3
    BY <2>4
  <2>6. \A i \in 1 .. 3 * NUM_ITER : round[((i - 1) % 3) + 1] \in Call
    BY <2>2, <2>5
  <2>7. ToggleCalls(t) \in Seq(Call)
    BY <2>3, <2>4, <2>6, IsASeq
  <2>8. QED
    BY <2>7, WholeIsSuffix
<1>6. Types
  <2>1. ProgramOK
    BY <1>1, <1>2, <1>4 DEF ProgramOK
  <2>2. count \in [Zems -> Int] /\ at \in [Threads -> Zems \cup {"running", Woken, "cond"}]
    BY <1>3, <1>4
  <2>3. calls \in [Threads -> Seq(Call)]
    BY <1>1, <1>5
  <2>4. QED
    BY <2>1, <2>2, <2>3, ThreadProgramsAssumption DEF Types
<1>7. ZemInvariant
  BY <1>3, <1>6, StartsAwake
<1>8. TokenAt(0, 0, 0)
  <2>1. ASSUME NEW t \in Threads
        PROVE  /\ 3 * NUM_ITER - Len(calls[t]) = 0
               /\ count[zem[t]] = (IF t = 0 THEN 1 ELSE 0)
               /\ at[t] = "running" /\ printed[t] = 0 /\ ~(t < 0)
    <3>1. Len(calls[t]) = 3 * NUM_ITER
      BY <1>1, ToggleText
    <3>2. zem[t] = zem[0] <=> t = 0
      BY <1>2
    <3>3. count[zem[t]] = IF zem[t] = zem[0] THEN 1 ELSE 0
      BY <1>3
    <3>4. QED
      BY <1>1, <1>2, <1>3, <3>1, <3>2, <3>3
  <2>2. "running" # Woken
    BY <1>6, ZemsApart
  <2>3. QED
    BY <2>1, <2>2 DEF TokenAt
<1>9. ToggleInv
  <2>1. \A t \in Threads : Suffix(calls[t], ToggleCalls(t))
    BY <1>1, <1>5
  <2>2. 0 \in Threads /\ 0 \in Nat /\ 0 \in 0 .. 2
    BY <1>2
  <2>3. QED
    BY <1>8, <2>1, <2>2 DEF ToggleInv
<1>10. QED
  BY <1>1, <1>7, <1>9 DEF ProgramsInv

LEMMA TestZemInit ==
  ASSUME TestZem, turn = 0, printed = [t \in Threads |-> 0]
  PROVE  ProgramsInv
<1>1. /\ program = "test-zem" /\ ~TakesTurns
      /\ calls = [t \in 0 .. NUM_PRINTERS |-> IF t = 0 THEN MainCalls ELSE PrinterCalls(t)]
      /\ Threads = 0 .. NUM_PRINTERS
  BY DEF TestZem, TakesTurns, Threads
<1>2. NUM_PRINTERS \in Nat /\ 0 \in Threads
  BY <1>1, ThreadProgramsAssumption
<1>3. /\ count = [s \in {"child", "parent"} |-> 0] /\ at = [t \in Threads |-> "running"]
  BY DEF TestZem, zem_init
<1>4. Zems = {"child", "parent"}
  BY <1>3 DEF Zems
<1>5. MainCalls \in Seq(Call)
  <2> DEFINE L == 3 * NUM_PRINTERS
             round(n) == << <<"zem_up", "child">>, <<"zem_down", "parent">>, <<"report", n>> >>
             s == [i \in 1 .. L |-> round(((i - 1) \div 3) + 1)[((i - 1) % 3) + 1]]
  <2>1. MainCalls = << <<"print", 0>> >> \o s \o << <<"join", 0>> >>
    BY DEF MainCalls
  <2>2. <<"print", 0>> \in Call /\ <<"join", 0>> \in Call
    BY <1>1 DEF Call
  <2>3. \A n \in Nat, p \in 1 .. 3 : round(n)[p] \in Call
    <3>1. ASSUME NEW n \in Nat
          PROVE  /\ <<"zem_up", "child">> \in Call /\ <<"zem_down", "parent">> \in Call
                 /\ <<"report", n>> \in Call
      BY <1>1, <1>4 DEF Call
    <3>2. QED
      BY <3>1
  <2>4. L \in Nat
    BY <1>2
  <2>5. \A i \in 1 .. L : ((i - 1) \div 3) + 1 \in Nat /\ ((i - 1) % 3) + 1 \in 1 .. 3
    BY <2>4
  <2> HIDE DEF L, round
  <2>6. \A i \in 1 .. L : round(((i - 1) \div 3) + 1)[((i - 1) % 3) + 1] \in Call
    BY <2>3, <2>5
  <2>7. s \in Seq(Call)
    BY <2>4, <2>6, IsASeq
  <2> HIDE DEF s
  <2>8. QED
    BY <2>1, <2>2, <2>7
<1>6. ASSUME NEW t \in Threads \ {0}
      PROVE  PrinterCalls(t) \in Seq(Call) /\ Len(PrinterCalls(t)) = 3
  <2>1. /\ <<"zem_down", "child">> \in Call /\ <<"print", t>> \in Call
        /\ <<"zem_up", "parent">> \in Call
    BY <1>1, <1>4 DEF Call
  <2>2. QED
    BY <2>1 DEF PrinterCalls
<1>7. Types
  <2>1. ProgramOK
    BY <1>1, <1>4 DEF ProgramOK
  <2>2. count \in [Zems -> Int] /\ at \in [Threads -> Zems \cup {"running", Woken, "cond"}]
    BY <1>3, <1>4
  <2>3. calls \in [Threads -> Seq(Call)]
    BY <1>1, <1>5, <1>6
  <2>4. QED
    BY <2>1, <2>2, <2>3, ThreadProgramsAssumption DEF Types
<1>8. ZemInvariant
  BY <1>3, <1>7, StartsAwake
<1>9. calls[0] = MainCalls /\ \A t \in Threads \ {0} : calls[t] = PrinterCalls(t)
  BY <1>1, <1>2
<1>10. Waited = 0
  <2>1. MainMade = 0
    BY <1>2, <1>9, MainCallsText DEF MainMade
  <2>2. QED
    BY <2>1 DEF Waited
<1>11. Ended = {} /\ Cardinality(Ended) = 0
  <2>1. \A t \in Threads \ {0} : calls[t] # <<>>
    BY <1>9 DEF PrinterCalls
  <2>2. QED
    BY <2>1, FS_EmptySet DEF Ended
<1>12. ReportInv
  <2>1. count["parent"] = 0 /\ at[0] # Woken
    BY <1>2, <1>3, <1>7, ZemsApart
  <2>2. Suffix(calls[0], MainCalls)
    BY <1>5, <1>9, WholeIsSuffix
  <2>3. \A t \in Threads \ {0} : /\ Suffix(calls[t], PrinterCalls(t))
                                 /\ Len(calls[t]) <= 1 => printed[t] > 0
    <3>1. ASSUME NEW t \in Threads \ {0}
          PROVE  Suffix(PrinterCalls(t), PrinterCalls(t)) /\ ~(3 <= 1)
      BY <1>6, WholeIsSuffix
    <3>2. ASSUME NEW t \in Threads \ {0} PROVE Len(calls[t]) = 3
      BY <1>6, <1>9
    <3>3. QED
      BY <1>9, <3>1, <3>2
  <2>4. QED
    BY <1>10, <1>11, <2>1, <2>2, <2>3 DEF ReportInv
<1>13. QED
  BY <1>1, <1>8, <1>12 DEF ProgramsInv

LEMMA TurnInit ==
  ASSUME TurnTaking, turn = 0, printed = [t \in Threads |-> 0]
  PROVE  ProgramsInv
<1>1. /\ TakesTurns /\ program # "test-toggle" /\ program # "test-zem"
      /\ calls = [t \in 0 .. N |-> IF t # 0 THEN <<>> ELSE MainText]
      /\ Threads = 0 .. N
  BY DEF TurnTaking, TakesTurns, Threads, MainText
<1>2. N \in Nat /\ 0 \in Threads /\ Rounds \in Nat
  BY <1>1, ThreadProgramsAssumption DEF Rounds
<1>3. DOMAIN count = {} /\ count \in [Zems -> Int] /\ at = [t \in Threads |-> "running"]
  BY DEF TurnTaking, zem_init, Zems
<1>4. MainText \in Seq(Call) /\ Len(MainText) = Rounds * (N + 2)
  <2> DEFINE m == N + 2
  <2>1. m \in Nat /\ m > 0 /\ Rounds * m \in Nat /\ m - 1 = N + 1
    BY <1>2
  <2>2. \A q \in 0 .. m - 1 : RoundCalls[q + 1] \in Call
    <3>1. \A q \in 0 .. N + 1 : RoundCall(q) \in Call
      BY <1>1, <1>2 DEF RoundCall, Call
    <3>2. QED
      BY <1>2, <3>1, RoundText
  <2>3. MainText = [i \in 1 .. Rounds * m |-> RoundCalls[((i - 1) % m) + 1]]
    BY DEF MainText
  <2> HIDE DEF m
  <2>4. \A i \in 1 .. Rounds * m : (i - 1) % m \in 0 .. m - 1
    BY <2>1
  <2>5. \A i \in 1 .. Rounds * m : RoundCalls[((i - 1) % m) + 1] \in Call
    BY <2>2, <2>4
  <2>6. MainText \in Seq(Call)
    BY <2>1, <2>3, <2>5, IsASeq
  <2>7. QED
    BY <1>2, <2>6, MainTextAt
<1>5. Types
  <2>1. ProgramOK
    BY <1>1, <1>3 DEF ProgramOK, Zems
  <2>2. calls \in [Threads -> Seq(Call)]
    BY <1>1, <1>4
  <2>3. QED
    BY <1>1, <1>2, <1>3, <2>1, <2>2 DEF Types
<1>6. ZemInvariant
  BY <1>3, <1>5, StartsAwake
<1>7. calls[0] = MainText /\ \A t \in Threads \ {0} : calls[t] = <<>> /\ printed[t] = 0
  BY <1>1, <1>2
<1>8. RoundAt(0, 0)
  <2>1. Len(MainText) - Len(calls[0]) = 0 * (N + 2) + 0
    BY <1>2, <1>4, <1>7
  <2>2. \A t \in Threads \ {0} : ~(t < 0) /\ ~(0 > 0)
    BY <1>1, <1>2
  <2>3. QED
    BY <1>7, <2>1, <2>2 DEF RoundAt
<1>9. TurnInv
  <2>1. Suffix(calls[0], MainText)
    BY <1>4, <1>7, WholeIsSuffix
  <2>2. 0 \in 0 .. Rounds /\ 0 \in 0 .. N + 1
    BY <1>2
  <2>3. QED
    BY <1>8, <2>1, <2>2 DEF TurnInv
<1>10. QED
  BY <1>1, <1>6, <1>9 DEF ProgramsInv

LEMMA AnyInit ==
  ASSUME AnyProgram, turn = 0, printed = [t \in Threads |-> 0]
  PROVE  ProgramsInv
<1>1. /\ program = "any" /\ ~TakesTurns /\ Threads = 1 .. NUM_CALLERS
      /\ \A t \in Threads : \E n \in 0 .. MAX_CALLS :
           calls[t] \in [1 .. n -> {"zem_down", "zem_up"} \X {"child"}]
      /\ calls = [t \in Threads |-> calls[t]]
  BY DEF AnyProgram, TakesTurns, Threads
<1>2. /\ count = [s \in {"child"} |-> 0] /\ at = [t \in Threads |-> "running"]
  BY DEF AnyProgram, zem_init
<1>3. Zems = {"child"}
  BY <1>2 DEF Zems
<1>4. ASSUME NEW t \in Threads PROVE calls[t] \in Seq(Call)
  <2>1. PICK n \in 0 .. MAX_CALLS :
          calls[t] \in [1 .. n -> {"zem_down", "zem_up"} \X {"child"}]
    BY <1>1
  <2>2. {"zem_down", "zem_up"} \X {"child"} \subseteq Call
    BY <1>1, <1>3 DEF Call
  <2>3. n \in Nat /\ calls[t] = [i \in 1 .. n |-> calls[t][i]]
        /\ \A i \in 1 .. n : calls[t][i] \in Call
    BY <2>1, <2>2, ThreadProgramsAssumption
  <2>4. QED
    BY <2>3
<1>5. Types
  <2>1. ProgramOK
    BY <1>1, <1>3 DEF ProgramOK
  <2>2. calls \in [Threads -> Seq(Call)]
    BY <1>1, <1>4
  <2>3. count \in [Zems -> Int] /\ at \in [Threads -> Zems \cup {"running", Woken, "cond"}]
    BY <1>2, <1>3
  <2>4. QED
    BY <2>1, <2>2, <2>3, ThreadProgramsAssumption DEF Types
<1>6. ZemInvariant
  BY <1>2, <1>5, StartsAwake
<1>7. QED
  BY <1>1, <1>6 DEF ProgramsInv

LEMMA InitEstablishes == Init => ProgramsInv
BY ToggleInit, TestZemInit, TurnInit, AnyInit DEF Init

-----------------------------------------------------------------------------
(* What the inductive invariant says.                                      *)

LEMMA ZemHolds == ProgramsInv => ZemInv
<1> SUFFICES ASSUME ProgramsInv PROVE ZemInv
  OBVIOUS
<1>1. Types /\ AsleepInCalls /\ UnitsAreOwed
  BY DEF ProgramsInv, ZemInvariant
<1>2. ASSUME program = "test-toggle", ~unsignalled, NEW s \in DOMAIN count
      PROVE  count[s] \in {0, 1}
  <2>1. PICK h \in Threads, r \in Nat, p \in 0 .. 2 : TokenAt(h, r, p)
    BY <1>2 DEF ProgramsInv, ToggleInv
  <2>2. PICK t \in Threads : s = zem[t]
    <3>1. Zems = {zem[t] : t \in DOMAIN zem} /\ Threads = DOMAIN zem
      BY <1>1, <1>2, ThreadProgramsAssumption DEF Types, ProgramOK, TakesTurns
    <3>2. QED
      BY <3>1 DEF Zems
  <2>3. QED
    BY <2>1, <2>2 DEF TokenAt
<1>3. TypeOK
  <2>1. count \in [DOMAIN count -> Int] /\ turn \in 0 .. N /\ printed \in [Threads -> Nat]
    BY <1>1 DEF Types, Zems
  <2>2. \A t \in Threads : at[t] # "running" =>
          /\ NextCall(t, "zem_down") \/ NextCall(t, "take_turn")
          /\ at[t] \in {Woken, Head(calls[t])[2]}
    BY <1>1 DEF AsleepInCalls, InsideCall
  <2>3. QED
    BY <1>2, <2>1, <2>2 DEF TypeOK
<1>4. QED
  BY <1>1, <1>3 DEF ZemInv

LEMMA TurnsHold == ProgramsInv => PrintsInTurn
<1> SUFFICES ASSUME ProgramsInv PROVE PrintsInTurn
  OBVIOUS
<1>1. Types
  BY DEF ProgramsInv, ZemInvariant
<1>2. CASE TakesTurns
  <2>1. PICK r \in 0 .. Rounds, q \in 0 .. N + 1 : RoundAt(r, q)
    BY <1>2 DEF ProgramsInv, TurnInv
  <2>2. Threads = 0 .. N /\ N \in Nat /\ Rounds \in Nat /\ turn \in 0 .. N
    BY <1>1, <1>2, TurnFacts
  <2>3. Printers = Threads \ {0}
    BY <1>2 DEF Printers, TakesTurns
  <2>4. ASSUME NEW t \in Threads \ {0}, NEW u \in Threads \ {0}, t < u
        PROVE  printed[t] - printed[u] \in {0, 1}
    <3>1. /\ printed[t] = IF q > 0 /\ t <= turn THEN r + 1 ELSE r
          /\ printed[u] = IF q > 0 /\ u <= turn THEN r + 1 ELSE r
      BY <2>1 DEF RoundAt
    <3>2. u <= turn => t <= turn
      BY <2>2, <2>4
    <3>3. QED
      BY <2>2, <3>1, <3>2
  <2>5. ASSUME NextCall(0, "set_turn"), NEW t \in Threads \ {0}
        PROVE  calls[t] = <<>>
    <3>1. Head(calls[0]) = RoundCall(q)
      BY <1>1, <1>2, <2>1, <2>5, RoundNext DEF ProgramsInv, TurnInv, NextCall
    <3>2. q = 0
      BY <2>5, <3>1 DEF RoundCall, NextCall
    <3>3. ~(t < q)
      BY <2>2, <3>2
    <3>4. QED
      BY <2>1, <3>3 DEF RoundAt
  <2>6. QED
    BY <2>3, <2>4, <2>5 DEF PrintsInTurn
<1>3. CASE program = "test-toggle"
  <2>1. ~TakesTurns /\ Printers = Threads /\ Threads = 0 .. NUM_THREADS - 1
    BY <1>1, <1>3 DEF TakesTurns, Printers, Types, ProgramOK
  <2>2. ASSUME ~unsignalled, NEW t \in Threads, NEW u \in Threads, t < u
        PROVE  printed[t] - printed[u] \in {0, 1}
    <3>1. PICK h \in Threads, r \in Nat, p \in 0 .. 2 : TokenAt(h, r, p)
      BY <1>3, <2>2 DEF ProgramsInv, ToggleInv
    <3>2. /\ printed[t] = IF t < h \/ (t = h /\ p = 2) THEN r + 1 ELSE r
          /\ printed[u] = IF u < h \/ (u = h /\ p = 2) THEN r + 1 ELSE r
      BY <3>1 DEF TokenAt
    <3>3. u < h \/ u = h => t < h
      BY <2>1, <2>2, ThreadProgramsAssumption
    <3>4. QED
      BY <3>2, <3>3
  <2>3. QED
    BY <2>1, <2>2 DEF PrintsInTurn, TakesTurns
<1>4. CASE ~TakesTurns /\ program # "test-toggle"
  BY <1>4 DEF PrintsInTurn, TakesTurns
<1>5. QED
  BY <1>2, <1>3, <1>4

LEMMA ReportsHold == ProgramsInv => ReportsAreTrue
<1> SUFFICES ASSUME ProgramsInv, program = "test-zem", ~unsignalled, NextCall(0, "report")
             PROVE  PrintersDone >= Head(calls[0])[2]
  BY DEF ReportsAreTrue
<1>1. Types /\ ReportInv /\ calls[0] # <<>>
  BY DEF ProgramsInv, ZemInvariant, NextCall
<1>2. Head(calls[0])[2] = Waited
  BY <1>1, MainNext DEF NextCall
<1>3. /\ Cardinality(Ended) \in Nat /\ count["parent"] \in Int
      /\ count["parent"] = Cardinality(Ended) - Waited /\ count["parent"] >= 0
  BY <1>1, TestZemFacts DEF Types, ReportInv
<1>4. Waited \in Int
  <2>1. MainMade \in Int
    BY <1>1, MainNext, TestZemFacts
  <2>2. QED
    BY <2>1 DEF Waited
<1>5. Cardinality(Ended) >= Waited
  BY <1>3, <1>4
<1>6. Cardinality(Ended) <= PrintersDone /\ PrintersDone \in Nat
  <2> DEFINE D == {t \in Threads \ {0} : printed[t] > 0}
  <2>1. Ended \subseteq D
    BY <1>1 DEF ReportInv, Ended
  <2>2. D \subseteq Threads
    OBVIOUS
  <2> HIDE DEF D
  <2>3. IsFiniteSet(D)
    BY <1>1, <2>2, ThreadsFinite, FS_Subset
  <2>4. Cardinality(Ended) <= Cardinality(D) /\ Cardinality(D) \in Nat
    BY <2>1, <2>3, FS_Subset, FS_CardinalityType
  <2>5. QED
    BY <2>4 DEF D, PrintersDone
<1>7. QED
  BY <1>2, <1>3, <1>4, <1>5, <1>6

-----------------------------------------------------------------------------
(* The inductive invariant holds in every reachable state.                 *)
THEOREM ProgramsInvariant == Spec => []ProgramsInv
<1>1. Init => ProgramsInv
  BY InitEstablishes
<1>2. ProgramsInv /\ [Next]_vars => ProgramsInv'
  BY ProgramsNextStep, ProgramsStutter
<1>3. QED
  BY <1>1, <1>2, PTL DEF Spec

(* zem_down and zem_up: in every program, a thread asleep on a zemaphore   *)
(* has no unit left to it that is not owed to a thread already awake, and  *)
(* test-toggle.c's zemaphores are binary while every wakeup is a signal's. *)
THEOREM NobodySleepsOnAUnit == Spec => []ZemInv
BY ProgramsInvariant, ZemHolds, PTL

(* justprint of test-toggle.c and routine of ex3.c and ex4.c: the lines    *)
(* come out in turn, for every number of threads and rounds, and the turn  *)
(* is reset when no thread is left to see it.                              *)
THEOREM LinesComeInTurn == Spec => []PrintsInTurn
BY ProgramsInvariant, TurnsHold, PTL

(* main of test-zem.c: what it reports has happened.                       *)
THEOREM MainReportsTheTruth == Spec => []ReportsAreTrue
BY ProgramsInvariant, ReportsHold, PTL
=============================================================================
