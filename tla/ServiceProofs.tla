--------------------------- MODULE ServiceProofs ---------------------------
(***************************************************************************)
(* Theorems about the two systems in which one thread serves all who wait: *)
(* the sleeping barber, for every finite set of customers and every number *)
(* of chairs, with or without spurious wakeups; and the echo servers, for  *)
(* any number of clients, any backlog and any number of events in one call *)
(* of epoll_wait.                                                          *)
(***************************************************************************)
EXTENDS Barber, EchoServer, FiniteSetTheorems, SequenceTheorems, TLAPS

-----------------------------------------------------------------------------
(* The sleeping barber.                                                    *)

BarberPlaces == {"looping", "cutting", "customer_arrived", Woken,
                 "coming", "barber_ready", "served", "left"}

-----------------------------------------------------------------------------
(* What a step does to the sets of customers that the counters count.      *)

(* The sets that the counters count are finite.                            *)
LEMMA CustomerSets ==
  /\ IsFiniteSet(Seated) /\ Cardinality(Seated) \in Nat
  /\ IsFiniteSet(Called) /\ Cardinality(Called) \in Nat
<1>1. Seated \subseteq Customers /\ Called \subseteq Customers
  BY DEF Seated, Called
<1>2. QED
  BY <1>1, BarberAssumption, FS_Subset, FS_CardinalityType

(* No customer moves.                                                      *)
CustomersStay == \A c \in Customers : pc'[c] = pc[c]

(* One customer moves.                                                     *)
OneMoves(c, place) ==
  /\ pc'[c] = place
  /\ \A u \in Customers \ {c} : pc'[u] = pc[u]

(* A step of the barber's that calls nobody changes neither set.           *)
LEMMA SetsStay ==
  ASSUME CustomersStay
  PROVE  Seated' = Seated /\ Called' = Called
BY DEF CustomersStay, Seated, Called

(* When only t may have come or gone, the size of a set changes by at    *)
(* most one, and by what has become of t.                                  *)
LEMMA CardinalityAfterMove ==
  ASSUME NEW S, IsFiniteSet(S), NEW t, NEW T,
         \A u : u # t => (u \in T <=> u \in S)
  PROVE  Cardinality(T) = Cardinality(S) + (IF t \in T THEN 1 ELSE 0)
                                         - (IF t \in S THEN 1 ELSE 0)
<1>0. Cardinality(S) \in Nat
  BY FS_CardinalityType
<1>1. CASE t \in T /\ t \in S
  <2>1. T = S
    BY <1>1
  <2>2. QED
    BY <1>0, <1>1, <2>1
<1>2. CASE t \in T /\ t \notin S
  <2>1. T = S \cup {t}
    BY <1>2
  <2>2. Cardinality(T) = Cardinality(S) + 1
    BY <1>2, <2>1, FS_AddElement
  <2>3. QED
    BY <1>0, <1>2, <2>2
<1>3. CASE t \notin T /\ t \in S
  <2>1. T = S \ {t}
    BY <1>3
  <2>2. Cardinality(T) = Cardinality(S) - 1
    BY <1>3, <2>1, FS_RemoveElement
  <2>3. QED
    BY <1>0, <1>3, <2>2
<1>4. CASE t \notin T /\ t \notin S
  <2>1. T = S
    BY <1>4
  <2>2. QED
    BY <1>0, <1>4, <2>1
<1>5. QED
  BY <1>1, <1>2, <1>3, <1>4

(* How the move of one customer changes the numbers of those who sit and   *)
(* of those who have been called.                                          *)
LEMMA SetsAfterMove ==
  ASSUME NEW c \in Customers, NEW place, OneMoves(c, place)
  PROVE  /\ Cardinality(Seated') = Cardinality(Seated)
              + (IF place = "barber_ready" THEN 1 ELSE 0)
              - (IF pc[c] = "barber_ready" THEN 1 ELSE 0)
         /\ Cardinality(Called') = Cardinality(Called)
              + (IF place \in {Woken, "served"} THEN 1 ELSE 0)
              - (IF pc[c] \in {Woken, "served"} THEN 1 ELSE 0)
<1>1. \A u : u # c => (u \in Seated' <=> u \in Seated) /\ (u \in Called' <=> u \in Called)
  BY DEF OneMoves, Seated, Called
<1>2. /\ c \in Seated <=> pc[c] = "barber_ready"
      /\ c \in Called <=> pc[c] \in {Woken, "served"}
      /\ c \in Seated' <=> place = "barber_ready"
      /\ c \in Called' <=> place \in {Woken, "served"}
  BY DEF OneMoves, Seated, Called
<1>3. Cardinality(Seated') = Cardinality(Seated)
        + (IF c \in Seated' THEN 1 ELSE 0) - (IF c \in Seated THEN 1 ELSE 0)
  BY <1>1, CustomerSets, CardinalityAfterMove
<1>4. Cardinality(Called') = Cardinality(Called)
        + (IF c \in Called' THEN 1 ELSE 0) - (IF c \in Called THEN 1 ELSE 0)
  BY <1>1, CustomerSets, CardinalityAfterMove
<1>5. QED
  BY <1>2, <1>3, <1>4

-----------------------------------------------------------------------------
(* One lemma per action: it preserves the invariant.                       *)

(* The barber tests the counter and sleeps.                                *)
LEMMA BarberSleepsStep ==
  ASSUME BarberInv, BarberSleeps
  PROVE  BarberInv'
<1> USE DEF BarberInv, Woken
<1>1. BarberTypeOK' /\ CustomersStay
  BY BarberAssumption DEF BarberSleeps, BarberTypeOK, Threads, CustomersStay
<1>2. QED
  BY <1>1, SetsStay DEF BarberSleeps, NothingToDo, ChairsExact, HaircutsExact, BarberAwake

(* The barber calls a customer, if there is one: the chair that is given   *)
(* up is the one the customer sat in, and the haircut is this customer's.  *)
LEMMA BarberCutsStep ==
  ASSUME BarberInv, BarberCuts
  PROVE  BarberInv'
<1> USE DEF BarberInv, Woken
<1>1. PICK called \in Signal(pc, "barber_ready") : pc' = [called EXCEPT ![barber] = "cutting"]
  BY DEF BarberCuts, CalledIn
<1>2. /\ waiting_customers \in 1 .. chairs
      /\ waiting_customers' = waiting_customers - 1
      /\ haircuts' = haircuts + 1 /\ unsignalled' = unsignalled
  BY BarberAssumption DEF BarberCuts, NothingToDo, BarberTypeOK
<1>3. pc \in [Threads -> BarberPlaces] /\ barber \in Threads /\ DOMAIN pc = Threads
  BY DEF BarberTypeOK, BarberPlaces, Threads
<1>4. CASE Sleepers(pc, "barber_ready") = {}
  <2>1. BarberTypeOK' /\ CustomersStay
    BY <1>1, <1>2, <1>4, BarberAssumption DEF Signal, BarberTypeOK, Threads, CustomersStay
  <2>2. Cardinality(Seated) = 0
    BY <1>3, <1>4, FS_EmptySet DEF Sleepers, Seated, Threads
  <2>3. /\ Seated' = Seated /\ Called' = Called
        /\ pc'[barber] = "cutting"
    BY <1>1, <1>3, <1>4, <2>1, SetsStay DEF Signal
  <2>4. ChairsExact'
    BY <1>2, <2>2, <2>3 DEF ChairsExact, BarberTypeOK
  <2>5. HaircutsExact'
    BY <1>2, <2>2, <2>3, CustomerSets DEF HaircutsExact, BarberTypeOK
  <2>6. QED
    BY <2>1, <2>3, <2>4, <2>5 DEF BarberAwake
<1>5. CASE Sleepers(pc, "barber_ready") # {}
  <2>1. PICK c \in Threads : pc[c] = "barber_ready" /\ called = [pc EXCEPT ![c] = Woken]
    BY <1>1, <1>3, <1>5 DEF Signal, Sleepers
  <2>2. c \in Customers /\ c # barber
    BY <2>1, BarberAssumption DEF BarberTypeOK, Threads
  <2>3. BarberTypeOK' /\ OneMoves(c, Woken)
    BY <1>1, <1>2, <1>3, <2>1, <2>2, BarberAssumption DEF BarberTypeOK, Threads, OneMoves
  <2>4. /\ Cardinality(Seated') = Cardinality(Seated) - 1
        /\ Cardinality(Called') = Cardinality(Called) + 1
    BY <2>1, <2>2, <2>3, SetsAfterMove, CustomerSets
  <2>5. pc'[barber] = "cutting"
    BY <1>1, <1>3, <2>1
  <2>6. QED
    BY <1>2, <2>3, <2>4, <2>5, CustomerSets
    DEF ChairsExact, HaircutsExact, BarberAwake, BarberTypeOK
<1>6. QED
  BY <1>4, <1>5

(* A haircut ends.                                                         *)
LEMMA HaircutEndsStep ==
  ASSUME BarberInv, HaircutEnds
  PROVE  BarberInv'
<1> USE DEF BarberInv, Woken
<1>1. BarberTypeOK' /\ CustomersStay
  BY BarberAssumption DEF HaircutEnds, BarberTypeOK, Threads, CustomersStay
<1>2. pc'[barber] = "looping"
  BY DEF HaircutEnds, BarberTypeOK, Threads
<1>3. QED
  BY <1>1, <1>2, SetsStay DEF HaircutEnds, ChairsExact, HaircutsExact, BarberAwake

(* A customer sits down.  The signal can wake nobody but the barber, who   *)
(* is awake after it.                                                      *)
LEMMA CustomerWaitsStep ==
  ASSUME BarberInv, NEW c \in Customers, CustomerWaits(c)
  PROVE  BarberInv'
<1> USE DEF BarberInv, Woken
<1>1. PICK woken \in Signal(pc, "customer_arrived") : pc' = [woken EXCEPT ![c] = "barber_ready"]
  BY DEF CustomerWaits, WokenByCustomer
<1>2. c # barber /\ c \in Threads /\ barber \in Threads
  BY BarberAssumption DEF Threads
<1>3. pc \in [Threads -> BarberPlaces] /\ DOMAIN pc = Threads
  BY DEF BarberTypeOK, BarberPlaces
<1>4. woken = IF pc[barber] = "customer_arrived" THEN [pc EXCEPT ![barber] = Woken] ELSE pc
  <2>1. Sleepers(pc, "customer_arrived")
          = IF pc[barber] = "customer_arrived" THEN {barber} ELSE {}
    BY <1>3, BarberAssumption DEF Sleepers, BarberTypeOK, Threads
  <2>2. QED
    BY <1>1, <2>1 DEF Signal
<1>5. /\ waiting_customers' = waiting_customers + 1
      /\ waiting_customers' \in 0 .. chairs
      /\ haircuts' = haircuts /\ unsignalled' = unsignalled
  BY BarberAssumption DEF CustomerWaits, BarberTypeOK
<1>6. BarberTypeOK'
  BY <1>1, <1>2, <1>3, <1>4, <1>5 DEF BarberTypeOK, Threads
<1>7. OneMoves(c, "barber_ready") /\ pc'[barber] # "customer_arrived"
  BY <1>1, <1>2, <1>3, <1>4, BarberAssumption DEF OneMoves, Threads
<1>8. /\ Cardinality(Seated') = Cardinality(Seated) + 1
      /\ Cardinality(Called') = Cardinality(Called)
  BY <1>7, SetsAfterMove, CustomerSets DEF CustomerWaits
<1>9. QED
  BY <1>5, <1>6, <1>7, <1>8, CustomerSets
  DEF ChairsExact, HaircutsExact, BarberAwake, BarberTypeOK

(* A customer leaves the shop or gets the haircut it was called for.       *)
LEMMA CustomerGoesStep ==
  ASSUME BarberInv, NEW c \in Customers, CustomerLeaves(c) \/ CustomerServed(c)
  PROVE  BarberInv'
<1> USE DEF BarberInv, Woken
<1>1. /\ UNCHANGED <<waiting_customers, haircuts, unsignalled>>
      /\ \/ pc[c] = "coming" /\ pc' = [pc EXCEPT ![c] = "left"]
         \/ pc[c] = Woken /\ pc' = [pc EXCEPT ![c] = "served"]
  BY DEF CustomerLeaves, CustomerServed
<1>2. BarberTypeOK' /\ pc'[barber] = pc[barber]
  BY <1>1, BarberAssumption DEF BarberTypeOK, Threads
<1>3. \/ OneMoves(c, "left") /\ pc[c] = "coming"
      \/ OneMoves(c, "served") /\ pc[c] = Woken
  BY <1>1 DEF BarberTypeOK, Threads, OneMoves
<1>4. /\ Cardinality(Seated') = Cardinality(Seated)
      /\ Cardinality(Called') = Cardinality(Called)
  BY <1>3, SetsAfterMove, CustomerSets
<1>5. QED
  BY <1>1, <1>2, <1>4 DEF ChairsExact, HaircutsExact, BarberAwake

(* A wait returns without a signal: one of the chairs counted is empty, or *)
(* the barber is awake for nothing.                                        *)
LEMMA SpuriousStep ==
  ASSUME BarberInv, Spurious
  PROVE  BarberInv'
<1> USE DEF BarberInv, Woken
<1>1. PICK t \in Threads : /\ pc[t] \in {"customer_arrived", "barber_ready"}
                           /\ pc' = [pc EXCEPT ![t] = Woken]
  BY DEF Spurious, SpuriousWakeup, BarberTypeOK
<1>2. /\ unsignalled \in Nat /\ pc \in [Threads -> BarberPlaces] /\ barber \in Threads
      /\ unsignalled' = (IF pc'[barber] = pc[barber] THEN unsignalled + 1 ELSE unsignalled)
      /\ UNCHANGED <<waiting_customers, haircuts>>
  BY DEF Spurious, BarberTypeOK, BarberPlaces, Threads
<1>3. BarberTypeOK'
  BY <1>1, <1>2, BarberAssumption DEF Spurious, BarberTypeOK, Threads
<1>4. pc'[barber] = "customer_arrived" => pc[barber] = "customer_arrived"
  BY <1>1 DEF BarberTypeOK, Threads
<1>5. CASE t = barber
  <2>1. CustomersStay /\ unsignalled' = unsignalled
    BY <1>1, <1>2, <1>5, BarberAssumption DEF Threads, CustomersStay
  <2>2. QED
    BY <1>2, <1>3, <1>4, <2>1, SetsStay
    DEF ChairsExact, HaircutsExact, BarberAwake
<1>6. CASE t # barber
  <2>1. /\ t \in Customers /\ OneMoves(t, Woken) /\ pc[t] = "barber_ready"
        /\ unsignalled' = unsignalled + 1
    BY <1>1, <1>2, <1>6 DEF BarberTypeOK, Threads, OneMoves
  <2>2. /\ Cardinality(Seated') = Cardinality(Seated) - 1
        /\ Cardinality(Called') = Cardinality(Called) + 1
    BY <2>1, SetsAfterMove, CustomerSets
  <2>3. QED
    BY <1>2, <1>3, <1>4, <2>1, <2>2, CustomerSets
    DEF ChairsExact, HaircutsExact, BarberAwake, BarberTypeOK
<1>7. QED
  BY <1>5, <1>6

-----------------------------------------------------------------------------
(* Initially nobody sits and nobody has been called.                       *)
LEMMA BarberInvInit == BarberInit => BarberInv
<1> SUFFICES ASSUME BarberInit PROVE BarberInv
  OBVIOUS
<1>1. BarberTypeOK
  <2>1. /\ pc[barber] = "looping"
        /\ \A c \in Customers : pc[c] = "coming"
        /\ pc \in [Threads -> BarberPlaces]
    BY BarberAssumption DEF BarberInit, Threads, BarberPlaces
  <2>2. unsignalled \in Nat
    BY DEF BarberInit
  <2>3. waiting_customers \in 0 .. chairs /\ haircuts \in Nat
    BY BarberAssumption DEF BarberInit
  <2>4. QED
    BY <2>1, <2>2, <2>3 DEF BarberTypeOK, BarberPlaces
<1>2. Seated = {} /\ Called = {}
  BY BarberAssumption DEF BarberInit, Seated, Called, Threads, Woken
<1>3. QED
  BY <1>1, <1>2, FS_EmptySet DEF BarberInit, BarberInv, ChairsExact, HaircutsExact, BarberAwake

(* The shop's two counters always say what the threads do, and nobody      *)
(* waits for a barber who is asleep: any number of customers and chairs.   *)
THEOREM BarberInvariant == BarberSpec => []BarberInv
<1>1. BarberInv /\ [BarberNext]_barberVars => BarberInv'
  <2> SUFFICES ASSUME BarberInv, [BarberNext]_barberVars PROVE BarberInv'
    OBVIOUS
  <2>1. CASE Barbers
    BY <2>1, BarberSleepsStep, BarberCutsStep, HaircutEndsStep DEF Barbers
  <2>2. ASSUME NEW c \in Customers, Visits(c) PROVE BarberInv'
    BY <2>2, CustomerWaitsStep, CustomerGoesStep DEF Visits
  <2>3. CASE Spurious
    BY <2>3, SpuriousStep
  <2>4. CASE UNCHANGED barberVars
    BY <2>4 DEF barberVars, BarberInv, BarberTypeOK, ChairsExact, HaircutsExact, BarberAwake,
                Seated, Called
  <2>5. QED
    BY <2>1, <2>2, <2>3, <2>4 DEF BarberNext
<1>2. QED
  BY <1>1, BarberInvInit, PTL DEF BarberSpec

-----------------------------------------------------------------------------
(* The echo servers.                                                       *)

(* Lists without repetitions: what is on them after a step.                *)

List(S) == {s \in Seq(S) : IsInjective(s)}

(* A list read by its places.                                              *)
LEMMA ListPlaces ==
  ASSUME NEW S, NEW s \in Seq(S)
  PROVE  /\ Len(s) \in Nat /\ DOMAIN s = 1 .. Len(s)
         /\ \A i \in 1 .. Len(s) : s[i] \in S
         /\ IsInjective(s) <=> \A i, k \in 1 .. Len(s) : s[i] = s[k] => i = k
         /\ \A x : Contains(s, x) <=> \E i \in 1 .. Len(s) : s[i] = x
         /\ ToSet(s) = {s[i] : i \in 1 .. Len(s)}
<1>1. Len(s) \in Nat /\ DOMAIN s = 1 .. Len(s) /\ \A i \in 1 .. Len(s) : s[i] \in S
  BY LenProperties
<1>2. QED
  BY <1>1 DEF IsInjective, Contains, ToSet

(* Nothing is on the empty list.                                           *)
LEMMA EmptyList ==
  ASSUME NEW S
  PROVE  <<>> \in List(S) /\ (\A x : ~Contains(<<>>, x))
<1>1. <<>> \in Seq(S) /\ Len(<<>>) = 0
  BY EmptySeq
<1>2. \A i \in 1 .. Len(<<>>) : FALSE
  BY <1>1
<1>3. IsInjective(<<>>)
  BY <1>1, <1>2, ListPlaces
<1>4. \A x : ~Contains(<<>>, x)
  BY <1>2 DEF Contains
<1>5. QED
  BY <1>1, <1>3, <1>4 DEF List

(* A new element is appended.                                              *)
LEMMA AppendToList ==
  ASSUME NEW S, NEW s \in List(S), NEW e \in S, ~Contains(s, e)
  PROVE  /\ Append(s, e) \in List(S)
         /\ Len(Append(s, e)) = Len(s) + 1
         /\ \A x : Contains(Append(s, e), x) <=> Contains(s, x) \/ x = e
<1> DEFINE t == Append(s, e)
<1>1. s \in Seq(S) /\ Len(s) \in Nat
  BY ListPlaces DEF List
<1>2. /\ t \in Seq(S) /\ Len(t) = Len(s) + 1
      /\ \A i \in 1 .. Len(s) : t[i] = s[i]
      /\ t[Len(s) + 1] = e
  BY <1>1, AppendProperties
<1>3. \A i \in 1 .. Len(s) + 1 : i \in 1 .. Len(s) \/ i = Len(s) + 1
  BY <1>1
<1>4. \A i \in 1 .. Len(s) : i \in 1 .. Len(s) + 1
  BY <1>1
<1>5. Len(s) + 1 \in 1 .. Len(s) + 1
  BY <1>1
<1> HIDE DEF t
<1>6. \A x : Contains(t, x) <=> Contains(s, x) \/ x = e
  <2>1. \A x : Contains(t, x) <=> \E i \in 1 .. Len(s) + 1 : t[i] = x
    BY <1>2, ListPlaces
  <2>2. \A x : Contains(s, x) <=> \E i \in 1 .. Len(s) : s[i] = x
    BY <1>1, ListPlaces
  <2>3. QED
    BY <1>2, <1>3, <1>4, <1>5, <2>1, <2>2
<1>7. IsInjective(t)
  <2>1. \A i \in 1 .. Len(s) : s[i] # e
    BY <1>1, ListPlaces
  <2>2. \A i, k \in 1 .. Len(s) : s[i] = s[k] => i = k
    BY <1>1, ListPlaces DEF List
  <2>3. \A i, k \in 1 .. Len(s) + 1 : t[i] = t[k] => i = k
    BY <1>2, <1>3, <2>1, <2>2
  <2>4. QED
    BY <1>2, <2>3, ListPlaces
<1>8. QED
  BY <1>2, <1>6, <1>7 DEF List, t

(* The first element is taken.                                             *)
LEMMA TailOfList ==
  ASSUME NEW S, NEW s \in List(S), s # <<>>
  PROVE  /\ Head(s) \in S /\ Contains(s, Head(s))
         /\ Tail(s) \in List(S)
         /\ Len(s) \in Nat /\ Len(Tail(s)) = Len(s) - 1
         /\ \A x : Contains(Tail(s), x) <=> Contains(s, x) /\ x # Head(s)
<1> DEFINE t == Tail(s)
<1>1. s \in Seq(S) /\ Len(s) \in Nat \ {0}
  BY EmptySeq DEF List
<1>2. /\ Head(s) = s[1] /\ Head(s) \in S /\ t \in Seq(S) /\ Len(t) = Len(s) - 1
      /\ \A i \in 1 .. Len(t) : t[i] = s[i + 1]
  BY <1>1, HeadTailProperties
<1>3. \A i \in 1 .. Len(s) : i = 1 \/ (i - 1 \in 1 .. Len(t) /\ (i - 1) + 1 = i)
  BY <1>1, <1>2
<1>4. \A i \in 1 .. Len(t) : i + 1 \in 1 .. Len(s) /\ i + 1 # 1
  BY <1>1, <1>2
<1>5. 1 \in 1 .. Len(s)
  BY <1>1
<1>6. \A i, k \in 1 .. Len(s) : s[i] = s[k] => i = k
  BY <1>1, ListPlaces DEF List
<1> HIDE DEF t
<1>7. \A x : Contains(t, x) <=> \E i \in 1 .. Len(t) : t[i] = x
  BY <1>2, ListPlaces
<1>8. \A x : Contains(s, x) <=> \E i \in 1 .. Len(s) : s[i] = x
  BY <1>1, ListPlaces
<1>9. \A x : Contains(t, x) <=> Contains(s, x) /\ x # Head(s)
  <2>1. ASSUME NEW x, Contains(t, x)
        PROVE  Contains(s, x) /\ x # Head(s)
    <3>1. PICK i \in 1 .. Len(t) : t[i] = x
      BY <1>7, <2>1
    <3>2. s[i + 1] = x /\ i + 1 \in 1 .. Len(s) /\ i + 1 # 1
      BY <1>2, <1>4, <3>1
    <3>3. QED
      BY <1>2, <1>5, <1>6, <1>8, <3>2
  <2>2. ASSUME NEW x, Contains(s, x), x # Head(s)
        PROVE  Contains(t, x)
    <3>1. PICK i \in 1 .. Len(s) : s[i] = x
      BY <1>8, <2>2
    <3>2. i - 1 \in 1 .. Len(t) /\ (i - 1) + 1 = i
      BY <1>2, <1>3, <2>2, <3>1
    <3>3. t[i - 1] = x
      BY <1>2, <3>1, <3>2
    <3>4. QED
      BY <1>7, <3>2, <3>3
  <2>3. QED
    BY <2>1, <2>2
<1>10. IsInjective(t)
  <2>1. \A i, k \in 1 .. Len(t) : t[i] = t[k] => i = k
    <3>1. SUFFICES ASSUME NEW i \in 1 .. Len(t), NEW k \in 1 .. Len(t), t[i] = t[k]
                   PROVE  i = k
      OBVIOUS
    <3>2. i + 1 = k + 1
      BY <1>2, <1>4, <1>6, <3>1
    <3>3. QED
      BY <1>1, <1>2, <3>2
  <2>2. QED
    BY <1>2, <2>1, ListPlaces
<1>11. Contains(s, Head(s))
  BY <1>2, <1>5, <1>8
<1>12. QED
  BY <1>1, <1>2, <1>9, <1>10, <1>11 DEF List, t

(* An element stands at one place or at none.                              *)
LEMMA PlacesCounted ==
  ASSUME NEW S, NEW s \in List(S), NEW x
  PROVE  Cardinality({i \in DOMAIN s : s[i] = x}) = IF Contains(s, x) THEN 1 ELSE 0
<1>1. /\ s \in Seq(S) /\ DOMAIN s = 1 .. Len(s)
      /\ \A i, k \in 1 .. Len(s) : s[i] = s[k] => i = k
      /\ Contains(s, x) <=> \E i \in 1 .. Len(s) : s[i] = x
  BY ListPlaces DEF List
<1>2. CASE Contains(s, x)
  <2>1. PICK i \in 1 .. Len(s) : s[i] = x
    BY <1>1, <1>2
  <2>2. {k \in DOMAIN s : s[k] = x} = {i}
    BY <1>1, <2>1
  <2>3. QED
    BY <1>2, <2>2, FS_Singleton
<1>3. CASE ~Contains(s, x)
  <2>1. {k \in DOMAIN s : s[k] = x} = {}
    BY <1>1, <1>3
  <2>2. QED
    BY <1>3, <2>1, FS_EmptySet
<1>4. QED
  BY <1>2, <1>3

(* A list is cut in two: every element is on one part.                     *)
LEMMA PartsOfList ==
  ASSUME NEW S, NEW s \in List(S), s # <<>>, NEW m \in Nat \ {0}
  PROVE  LET a == SubSeq(s, 1, Min({Len(s), m}))
             b == SubSeq(s, m + 1, Len(s))
         IN  /\ a \in List(S) /\ b \in List(S)
             /\ a # <<>> /\ Len(a) <= m
             /\ \A x : Contains(s, x) <=> Contains(a, x) \/ Contains(b, x)
             /\ \A x : ~(Contains(a, x) /\ Contains(b, x))
<1> DEFINE l == Min({Len(s), m})
           a == SubSeq(s, 1, l)
           b == SubSeq(s, m + 1, Len(s))
<1>1. s \in Seq(S) /\ Len(s) \in Nat \ {0}
  BY EmptySeq DEF List
<1>2. /\ \A i \in 1 .. Len(s) : s[i] \in S
      /\ \A i, k \in 1 .. Len(s) : s[i] = s[k] => i = k
      /\ \A x : Contains(s, x) <=> \E i \in 1 .. Len(s) : s[i] = x
  BY <1>1, ListPlaces DEF List
<1>3. /\ l \in Nat \ {0} /\ l <= m /\ l <= Len(s)
      /\ l = m \/ l = Len(s)
  <2>1. l \in {Len(s), m} /\ \A j \in {Len(s), m} : l <= j
    <3>1. \E i \in {Len(s), m} : \A j \in {Len(s), m} : i <= j
      BY <1>1
    <3>2. QED
      BY <3>1 DEF Min
  <2>2. QED
    BY <1>1, <2>1
<1> HIDE DEF l
<1>4. /\ a \in Seq(S) /\ Len(a) = l
      /\ \A i \in 1 .. l : a[i] = s[i]
  <2>1. \A i \in 1 .. l : s[i] \in S
    BY <1>1, <1>2, <1>3
  <2>2. QED
    BY <1>3, <2>1, SubSeqProperties
<1>5. /\ b \in Seq(S) /\ Len(b) = IF m + 1 <= Len(s) THEN Len(s) - m ELSE 0
      /\ \A i \in 1 .. Len(s) - m : b[i] = s[m + i]
  <2>1. \A i \in m + 1 .. Len(s) : s[i] \in S
    BY <1>1, <1>2
  <2>2. /\ b \in Seq(S)
        /\ Len(b) = IF m + 1 <= Len(s) THEN Len(s) - (m + 1) + 1 ELSE 0
        /\ \A i \in 1 .. Len(s) - (m + 1) + 1 : b[i] = s[(m + 1) + i - 1]
    BY <1>1, <2>1, SubSeqProperties
  <2>3. QED
    BY <1>1, <2>2
<1> HIDE DEF a, b
<1>6. /\ \A x : Contains(a, x) <=> \E i \in 1 .. l : s[i] = x
      /\ \A i, k \in 1 .. l : a[i] = a[k] => i = k
  <2>1. \A x : Contains(a, x) <=> \E i \in 1 .. l : a[i] = x
    BY <1>4, ListPlaces
  <2>2. \A i \in 1 .. l : i \in 1 .. Len(s)
    BY <1>1, <1>3
  <2>3. QED
    BY <1>2, <1>4, <2>1, <2>2
<1>7. \A i \in 1 .. Len(b) : b[i] = s[m + i] /\ m + i \in 1 .. Len(s) /\ m + i > l
  BY <1>1, <1>3, <1>5
<1>8. \A i \in 1 .. Len(s) : i \in 1 .. l \/ (i - m \in 1 .. Len(b) /\ m + (i - m) = i)
  BY <1>1, <1>3, <1>5
<1>9. \A i \in 1 .. l : i \in 1 .. Len(s) /\ i <= l
  BY <1>1, <1>3
<1>10. \A x : Contains(b, x) <=> \E i \in 1 .. Len(b) : s[m + i] = x
  <2>1. \A x : Contains(b, x) <=> \E i \in 1 .. Len(b) : b[i] = x
    BY <1>5, ListPlaces
  <2>2. QED
    BY <1>7, <2>1
<1>11. \A x : Contains(s, x) => Contains(a, x) \/ Contains(b, x)
  <2>1. SUFFICES ASSUME NEW x, Contains(s, x)
                 PROVE  Contains(a, x) \/ Contains(b, x)
    OBVIOUS
  <2>2. PICK i \in 1 .. Len(s) : s[i] = x
    BY <1>2, <2>1
  <2>3. CASE i \in 1 .. l
    BY <1>6, <2>2, <2>3
  <2>4. CASE i - m \in 1 .. Len(b) /\ m + (i - m) = i
    BY <1>10, <2>2, <2>4
  <2>5. QED
    BY <1>8, <2>3, <2>4
<1>12. \A x : Contains(a, x) \/ Contains(b, x) => Contains(s, x)
  BY <1>2, <1>6, <1>7, <1>9, <1>10
<1>13. \A x : ~(Contains(a, x) /\ Contains(b, x))
  <2>1. SUFFICES ASSUME NEW x, Contains(a, x), Contains(b, x)
                 PROVE  FALSE
    OBVIOUS
  <2>2. PICK i \in 1 .. l : s[i] = x
    BY <1>6, <2>1
  <2>3. PICK k \in 1 .. Len(b) : s[m + k] = x
    BY <1>10, <2>1
  <2>4. i = m + k
    BY <1>2, <1>7, <1>9, <2>2, <2>3
  <2>5. QED
    BY <1>3, <1>7, <2>2, <2>3, <2>4
<1>14. IsInjective(a)
  BY <1>4, <1>6, ListPlaces
<1>15. IsInjective(b)
  <2>1. \A i, k \in 1 .. Len(b) : b[i] = b[k] => i = k
    <3>1. SUFFICES ASSUME NEW i \in 1 .. Len(b), NEW k \in 1 .. Len(b), b[i] = b[k]
                   PROVE  i = k
      OBVIOUS
    <3>2. m + i = m + k
      BY <1>2, <1>7, <3>1
    <3>3. i \in Int /\ k \in Int
      OBVIOUS
    <3>4. QED
      BY <3>2, <3>3
  <2>2. QED
    BY <1>5, <2>1, ListPlaces
<1>16. a # <<>> /\ Len(a) <= m
  BY <1>3, <1>4, EmptySeq
<1>17. QED
  BY <1>4, <1>5, <1>11, <1>12, <1>13, <1>14, <1>15, <1>16 DEF List, a, b, l
(* What is kept of a list: the elements of S, and no others.               *)
LEMMA KeptOfList ==
  ASSUME NEW T, NEW s \in List(T), NEW S
  PROVE  /\ Kept(s, S) \in List(T)
         /\ \A x : Contains(Kept(s, S), x) <=> Contains(s, x) /\ x \in S
<1> DEFINE P == {i \in DOMAIN s : s[i] \in S}
           N == Cardinality(P)
           UpTo(i) == {j \in P : j <= i}
           rank == [i \in P |-> Cardinality(UpTo(i))]
           nth(k) == CHOOSE i \in P : Cardinality({j \in P : j <= i}) = k
           t == [k \in 1 .. N |-> s[nth(k)]]
<1>1. /\ s \in Seq(T) /\ Len(s) \in Nat /\ DOMAIN s = 1 .. Len(s)
      /\ \A i \in 1 .. Len(s) : s[i] \in T
      /\ \A i, k \in 1 .. Len(s) : s[i] = s[k] => i = k
      /\ \A x : Contains(s, x) <=> \E i \in 1 .. Len(s) : s[i] = x
  BY ListPlaces DEF List
<1>2. Kept(s, S) = t
  BY DEF Kept
<1>3. /\ P \subseteq 1 .. Len(s) /\ IsFiniteSet(P) /\ N \in Nat
      /\ \A i \in P : i \in Nat
  <2>1. P \subseteq 1 .. Len(s) /\ \A i \in P : i \in Nat
    BY <1>1
  <2>2. IsFiniteSet(1 .. Len(s))
    BY <1>1, FS_Interval
  <2>3. QED
    BY <2>1, <2>2, FS_Subset, FS_CardinalityType
<1>4. \A i \in P : s[i] \in S /\ s[i] \in T
  BY <1>1
<1>5. \A i \in 1 .. Len(s) : s[i] \in S => i \in P
  BY <1>1
<1> HIDE DEF P
<1>6. \A i \in P : /\ IsFiniteSet(UpTo(i)) /\ UpTo(i) \in SUBSET P
                   /\ Cardinality(UpTo(i)) \in 1 .. N
  <2>1. SUFFICES ASSUME NEW i \in P
                 PROVE  /\ IsFiniteSet(UpTo(i)) /\ UpTo(i) \in SUBSET P
                        /\ Cardinality(UpTo(i)) \in 1 .. N
    OBVIOUS
  <2>2. UpTo(i) \in SUBSET P
    OBVIOUS
  <2>3. i \in UpTo(i)
    BY <1>3
  <2> HIDE DEF UpTo
  <2>4. IsFiniteSet(UpTo(i)) /\ Cardinality(UpTo(i)) <= N /\ Cardinality(UpTo(i)) \in Nat
    BY <1>3, <2>2, FS_Subset, FS_CardinalityType
  <2>5. Cardinality(UpTo(i)) # 0
    BY <2>3, <2>4, FS_EmptySet
  <2>6. QED
    BY <1>3, <2>2, <2>4, <2>5
<1>7. \A i, k \in P : Cardinality(UpTo(i)) = Cardinality(UpTo(k)) => i = k
  <2>1. ASSUME NEW i \in P, NEW k \in P, i < k
        PROVE  Cardinality(UpTo(i)) # Cardinality(UpTo(k))
    <3>0. \A j \in P : j \in Nat
      BY <1>3
    <3>1. UpTo(i) \in SUBSET UpTo(k) /\ k \in UpTo(k) /\ k \notin UpTo(i)
      <4>1. \A j \in P : j <= i => j <= k
        BY <2>1, <3>0
      <4>2. k <= k /\ ~(k <= i)
        BY <2>1, <3>0
      <4>3. QED
        BY <4>1, <4>2
    <3> HIDE DEF UpTo
    <3>2. QED
      BY <1>6, <3>1, FS_Subset
  <2>2. \A i, k \in P : i = k \/ i < k \/ k < i
    BY <1>3
  <2> HIDE DEF UpTo
  <2>3. QED
    BY <2>1, <2>2
<1>8. \A k \in 1 .. N : \E i \in P : Cardinality(UpTo(i)) = k
  <2>1. rank \in Injection(P, 1 .. N)
    BY <1>6, <1>7 DEF Injection, IsInjective
  <2>2. IsFiniteSet(1 .. N) /\ Cardinality(1 .. N) = N
    BY <1>3, FS_Interval
  <2>3. rank \in Surjection(P, 1 .. N)
    BY <2>1, <2>2, FS_Injection
  <2>4. QED
    BY <2>3 DEF Surjection
<1>9. \A k \in 1 .. N : nth(k) \in P /\ Cardinality(UpTo(nth(k))) = k
  BY <1>8
<1>10. \A i \in P : nth(Cardinality(UpTo(i))) = i
  BY <1>6, <1>7, <1>9
<1> HIDE DEF nth
<1>11. t \in Seq(T) /\ Len(t) = N /\ \A k \in 1 .. N : t[k] = s[nth(k)]
  <2>1. \A k \in 1 .. N : s[nth(k)] \in T
    BY <1>4, <1>9
  <2>2. QED
    BY <1>3, <2>1
<1> HIDE DEF t
<1>12. \A x : Contains(t, x) <=> Contains(s, x) /\ x \in S
  <2>1. \A x : Contains(t, x) <=> \E k \in 1 .. N : s[nth(k)] = x
    BY <1>11, ListPlaces
  <2>2. ASSUME NEW x, Contains(t, x)
        PROVE  Contains(s, x) /\ x \in S
    <3>1. PICK k \in 1 .. N : s[nth(k)] = x
      BY <2>1, <2>2
    <3>2. nth(k) \in P
      BY <1>9
    <3>3. nth(k) \in 1 .. Len(s) /\ s[nth(k)] \in S
      BY <1>3, <1>4, <3>2
    <3>4. QED
      BY <1>1, <3>1, <3>3
  <2>3. ASSUME NEW x, Contains(s, x), x \in S
        PROVE  Contains(t, x)
    <3>1. PICK i \in 1 .. Len(s) : s[i] = x
      BY <1>1, <2>3
    <3>2. i \in P
      BY <1>5, <2>3, <3>1
    <3>3. nth(Cardinality(UpTo(i))) = i /\ Cardinality(UpTo(i)) \in 1 .. N
      BY <1>6, <1>10, <3>2
    <3>4. QED
      BY <2>1, <3>1, <3>3
  <2>4. QED
    BY <2>2, <2>3
<1>13. IsInjective(t)
  <2>1. \A i, k \in 1 .. N : t[i] = t[k] => i = k
    <3>1. SUFFICES ASSUME NEW i \in 1 .. N, NEW k \in 1 .. N, t[i] = t[k]
                   PROVE  i = k
      OBVIOUS
    <3>2. nth(i) = nth(k)
      <4>1. nth(i) \in 1 .. Len(s) /\ nth(k) \in 1 .. Len(s)
        BY <1>3, <1>9
      <4>2. s[nth(i)] = s[nth(k)]
        BY <1>11, <3>1
      <4>3. QED
        BY <1>1, <4>1, <4>2
    <3>3. QED
      BY <1>9, <3>2
  <2>2. QED
    BY <1>11, <2>1, ListPlaces
<1>14. QED
  BY <1>2, <1>11, <1>12, <1>13 DEF List

-----------------------------------------------------------------------------
(* The inductive invariant.                                                *)

(* The values, without the lists.                                          *)
Kinds ==
  /\ server \in {"simple", "epoll"}
  /\ s_pc \in {"accept", "read", "write", "epoll_wait", "event", "down"}
  /\ s_pc = "event" => events # <<>>
  /\ newsockfd \in Clients /\ n \in {0, 1}
  /\ c_pc \in [Clients -> Places]
  /\ link \in [Clients -> {"open", "closed", "aborted", "answered", "dead"}]
  /\ inbox \in [Clients -> {0, 1}] /\ outbox \in [Clients -> {0, 1}]

(* No connection waits twice, and no descriptor is reported twice.         *)
Lists ==
  /\ backlog \in List(Clients) /\ Len(backlog) <= Backlog
  /\ ready \in List(Fds)
  /\ events \in List(Fds) /\ Len(events) <= MAX_EVENTS
  /\ accepted \subseteq Clients /\ \A c \in accepted : ~Contains(backlog, c)

(* Where each server can be; simple-server.c does not use epoll.           *)
Programs ==
  /\ server = "simple" =>
       s_pc \in {"accept", "read", "write", "down"} /\ ready = <<>> /\ events = <<>>
  /\ server = "epoll" => s_pc \in {"epoll_wait", "event", "write", "down"}
  /\ s_pc = "epoll_wait" => events = <<>>

(* A client that has not connected is not known, and one whose connection  *)
(* has ended is gone.                                                      *)
Connections ==
  \A c \in Clients :
    /\ c_pc[c] = "off" => ~Contains(backlog, c) /\ c \notin accepted
    /\ link[c] # "open" => c_pc[c] = "gone"

(* Only accepted connections are served, an answer that answers nothing    *)
(* goes to a client that has left, and what epoll_wait has reported of a   *)
(* connection still holds when its turn comes.                             *)
Served ==
  /\ s_pc \in {"read", "write"} => newsockfd \in accepted
  /\ s_pc = "write" /\ n = 0 => link[newsockfd] # "open"
  /\ \A fd \in Clients : Contains(ready, fd) => fd \in accepted
  /\ \A fd \in Clients : Contains(events, fd) => fd \in accepted /\ Pollable(fd)

Times(list, fd) == IF Contains(list, fd) THEN 1 ELSE 0

(* EdgesKept, by what is on the lists.                                     *)
Reported ==
  server = "epoll" /\ s_pc # "down" =>
    /\ \A c \in accepted :
         Pollable(c) => \/ Contains(ready, c) \/ Contains(events, c)
                        \/ InService(c) \/ link[c] = "answered"
    /\ Len(backlog) = Times(ready, "sockfd") + Times(events, "sockfd") + coalesced

EchoIInv ==
  /\ Kinds /\ Lists /\ coalesced \in 0 .. Backlog
  /\ OneLineAtATime /\ Programs /\ Connections /\ Served
  /\ Reported /\ ExitsOnlyOnDeparture

(* The lists of the inductive invariant are those of the type invariant.   *)
LEMMA ListsAreTyped ==
  Kinds /\ Lists /\ coalesced \in 0 .. Backlog => TypeOK
<1> SUFFICES ASSUME Kinds, Lists, coalesced \in 0 .. Backlog
             PROVE  TypeOK
  OBVIOUS
<1>1. backlog \in Seq(Clients) /\ ready \in Seq(Fds) /\ events \in Seq(Fds)
  BY DEF Lists, List
<1>2. accepted \subseteq Clients \ ToSet(backlog)
  <2>1. \A c : c \in ToSet(backlog) => Contains(backlog, c)
    BY <1>1, ListPlaces
  <2>2. QED
    BY <2>1 DEF Lists
<1>3. QED
  BY <1>1, <1>2 DEF Kinds, Lists, TypeOK

(* How often a descriptor is pending is read off the lists.                *)
LEMMA PendingOnLists ==
  ASSUME Lists
  PROVE  \A fd : Pending(fd) = Times(ready, fd) + Times(events, fd)
<1>1. \A fd : /\ Cardinality({i \in DOMAIN ready : ready[i] = fd}) = Times(ready, fd)
              /\ Cardinality({i \in DOMAIN events : events[i] = fd}) = Times(events, fd)
  BY PlacesCounted DEF Lists, Times
<1>2. QED
  BY <1>1 DEF Pending

(* What the inductive invariant says is what is meant.                     *)
LEMMA EchoIInvImplies == EchoIInv => EchoInv /\ EdgesKept /\ ExitsOnlyOnDeparture
<1> SUFFICES ASSUME EchoIInv
             PROVE  EchoInv /\ EdgesKept /\ ExitsOnlyOnDeparture
  OBVIOUS
<1>1. EchoInv
  BY ListsAreTyped DEF EchoIInv, EchoInv
<1>2. EdgesKept
  <2>1. \A fd : Pending(fd) = Times(ready, fd) + Times(events, fd)
    BY PendingOnLists DEF EchoIInv
  <2>2. \A fd : Contains(ready, fd) \/ Contains(events, fd) => Pending(fd) > 0
    BY <2>1 DEF Times
  <2>3. QED
    BY <2>1, <2>2 DEF EchoIInv, Reported, EdgesKept
<1>3. QED
  BY <1>1, <1>2 DEF EchoIInv

-----------------------------------------------------------------------------
(* The kernel's list.                                                      *)

(* An event puts its descriptor on the list, once.                         *)
LEMMA EdgeFacts ==
  ASSUME Lists, NEW fd \in Fds
  PROVE  /\ Edge(fd) \in List(Fds)
         /\ \A x : Contains(Edge(fd), x) <=> Contains(ready, x) \/ x = fd
<1>1. CASE Contains(ready, fd)
  BY <1>1 DEF Edge, Lists
<1>2. CASE ~Contains(ready, fd)
  <2>1. Edge(fd) = Append(ready, fd)
    BY <1>2 DEF Edge
  <2>2. QED
    BY <1>2, <2>1, AppendToList DEF Lists
<1>3. QED
  BY <1>1, <1>2

(* The same for a connection, if it has been added to the set.             *)
LEMMA EdgeOnFacts ==
  ASSUME Lists, NEW c \in Clients
  PROVE  /\ EdgeOn(c) \in List(Fds)
         /\ \A x : Contains(EdgeOn(c), x) <=> Contains(ready, x) \/ (x = c /\ Registered(c))
         /\ server = "simple" => EdgeOn(c) = ready
<1>1. c \in Fds
  BY DEF Fds
<1>2. CASE Registered(c)
  BY <1>1, <1>2, EdgeFacts DEF EdgeOn, Registered
<1>3. CASE ~Registered(c)
  BY <1>3 DEF EdgeOn, Lists
<1>4. QED
  BY <1>2, <1>3

-----------------------------------------------------------------------------
(* Init and the steps of the clients.                                      *)

(* The inductive invariant holds at the start.                             *)
LEMMA EchoInit == Init => EchoIInv
<1> SUFFICES ASSUME Init
             PROVE  EchoIInv
  OBVIOUS
<1>1. /\ <<>> \in List(Clients) /\ <<>> \in List(Fds) /\ Len(<<>>) = 0
      /\ \A x : ~Contains(<<>>, x)
  BY EmptyList, EmptySeq
<1>2. newsockfd \in Clients
  BY EchoServerAssumption DEF Init
<1>3. Kinds
  BY <1>2 DEF Init, Kinds, Places
<1>4. Lists /\ coalesced \in 0 .. Backlog
  BY <1>1, EchoServerAssumption DEF Init, Lists
<1>5. OneLineAtATime
  BY DEF Init, OneLineAtATime, InService
<1>6. Programs /\ Connections /\ Served /\ ExitsOnlyOnDeparture
  BY <1>1 DEF Init, Programs, Connections, Served, ExitsOnlyOnDeparture
<1>7. Reported
  BY <1>1 DEF Init, Reported, Times
<1>8. QED
  BY <1>3, <1>4, <1>5, <1>6, <1>7 DEF EchoIInv

(* Something happens to one connection, and the kernel hears of it: what   *)
(* the servers rely on stays true.                                         *)
LEMMA ConnectionChanges ==
  ASSUME EchoIInv, NEW c \in Clients,
         UNCHANGED <<server, s_pc, backlog, accepted, events, newsockfd, n, coalesced>>,
         \A d \in Clients \ {c} : inbox'[d] = inbox[d] /\ link'[d] = link[d],
         link[c] # "open" => link'[c] # "open",
         inbox[c] > 0 => inbox'[c] > 0,
         \/ ready' = EdgeOn(c)
         \/ ready' = ready /\ inbox'[c] = inbox[c] /\ link'[c] = link[c]
  PROVE  Lists' /\ Programs' /\ Served' /\ Reported' /\ ExitsOnlyOnDeparture'
<1> USE DEF EchoIInv
<1>0. \A fd \in Clients : fd # "sockfd"
  BY EchoServerAssumption
<1>1. /\ ready' \in List(Fds)
      /\ \A x : Contains(ready', x) => Contains(ready, x) \/ (x = c /\ Registered(c))
      /\ \A x : Contains(ready, x) => Contains(ready', x)
      /\ server = "simple" => ready' = ready
  BY EdgeOnFacts DEF Lists
<1>2. Lists'
  BY <1>1 DEF Lists
<1>3. Programs'
  BY <1>1 DEF Programs
<1>4. \A d \in Clients : /\ Pollable(d) => Pollable(d)'
                         /\ link[d] # "open" => link'[d] # "open"
  BY <1>0 DEF Pollable
<1>5. Served'
  <2>1. (s_pc \in {"read", "write"} => newsockfd \in accepted)'
    BY DEF Served
  <2>2. (s_pc = "write" /\ n = 0 => link[newsockfd] # "open")'
    BY <1>4 DEF Served, Kinds
  <2>3. (\A fd \in Clients : Contains(ready, fd) => fd \in accepted)'
    BY <1>1 DEF Served, Registered
  <2>4. (\A fd \in Clients : Contains(events, fd) => fd \in accepted /\ Pollable(fd))'
    BY <1>4 DEF Served
  <2>5. QED
    BY <2>1, <2>2, <2>3, <2>4 DEF Served
<1>6. Reported'
  <2> SUFFICES ASSUME server = "epoll", s_pc # "down"
               PROVE  /\ (\A d \in accepted :
                            Pollable(d) => \/ Contains(ready, d) \/ Contains(events, d)
                                           \/ InService(d) \/ link[d] = "answered")'
                      /\ (Len(backlog) = Times(ready, "sockfd") + Times(events, "sockfd")
                                           + coalesced)'
    BY DEF Reported
  <2>1. ASSUME NEW d \in accepted, Pollable(d)'
        PROVE  (\/ Contains(ready, d) \/ Contains(events, d)
                \/ InService(d) \/ link[d] = "answered")'
    <3>1. d \in Clients /\ d # "sockfd"
      BY <1>0 DEF Lists
    <3>2. CASE inbox'[d] = inbox[d] /\ link'[d] = link[d]
      <4>1. Pollable(d)
        BY <2>1, <3>1, <3>2 DEF Pollable
      <4>2. \/ Contains(ready, d) \/ Contains(events, d)
            \/ InService(d) \/ link[d] = "answered"
        BY <4>1 DEF Reported
      <4>3. QED
        BY <1>1, <3>2, <4>2 DEF InService
    <3>3. CASE d = c /\ ready' = EdgeOn(c)
      BY <3>3, EdgeOnFacts DEF Registered
    <3>4. QED
      BY <3>1, <3>2, <3>3
  <2>2. Contains(ready', "sockfd") <=> Contains(ready, "sockfd")
    BY <1>0, <1>1
  <2>3. (Len(backlog) = Times(ready, "sockfd") + Times(events, "sockfd") + coalesced)'
    BY <2>2 DEF Reported, Times
  <2>4. QED
    BY <2>1, <2>3
<1>7. ExitsOnlyOnDeparture'
  BY <1>4 DEF ExitsOnlyOnDeparture, Lists
<1>8. QED
  BY <1>2, <1>3, <1>5, <1>6, <1>7

(* A client connects, or finds nobody: its connection joins the backlog    *)
(* and the event on sockfd is new, or is counted as one that is not.       *)
LEMMA ConnectStep ==
  ASSUME EchoIInv, NEW c \in Clients, connect(c)
  PROVE  EchoIInv'
<1> USE DEF EchoIInv
<1>0. /\ c_pc[c] = "off" /\ link[c] = "open"
      /\ UNCHANGED <<server, s_pc, accepted, events, newsockfd, n, link, inbox, outbox>>
  BY DEF connect, connVars, Connections
<1>1. PICK place \in {"input", "gone"} : c_pc' = [c_pc EXCEPT ![c] = place]
  BY DEF connect
<1>2. Kinds'
  BY <1>0, <1>1 DEF Kinds, Places
<1>3. OneLineAtATime'
  BY <1>0, <1>1 DEF OneLineAtATime, InService, Kinds
<1>4. ExitsOnlyOnDeparture'
  BY <1>0 DEF ExitsOnlyOnDeparture
<1>5. CASE s_pc = "down"
  <2>1. UNCHANGED <<backlog, ready, coalesced>>
    BY <1>5 DEF connect
  <2>2. Lists' /\ Programs' /\ (coalesced \in 0 .. Backlog)'
    BY <1>0, <2>1 DEF Lists, Programs
  <2>3. c_pc' = [c_pc EXCEPT ![c] = "gone"]
    BY <1>5 DEF connect
  <2>4. Connections'
    BY <1>0, <2>1, <2>3 DEF Connections, Kinds
  <2>5. Served'
    BY <1>0, <2>1 DEF Served, Pollable
  <2>6. Reported'
    BY <1>0, <1>5 DEF Reported
  <2>7. QED
    BY <1>2, <1>3, <1>4, <2>2, <2>4, <2>5, <2>6
<1>6. CASE s_pc # "down"
  <2>1. /\ Len(backlog) < Backlog
        /\ c_pc' = [c_pc EXCEPT ![c] = "input"]
        /\ backlog' = Append(backlog, c)
        /\ ready' = IF server = "epoll" THEN Edge("sockfd") ELSE ready
        /\ coalesced' = IF Contains(ready, "sockfd") THEN coalesced + 1 ELSE coalesced
    BY <1>6 DEF connect
  <2>2. ~Contains(backlog, c) /\ c \notin accepted
    BY <1>0 DEF Connections
  <2>3. /\ backlog' \in List(Clients) /\ Len(backlog') = Len(backlog) + 1
        /\ \A x : Contains(backlog', x) <=> Contains(backlog, x) \/ x = c
    BY <2>1, <2>2, AppendToList DEF Lists
  <2>4. Len(backlog) \in Nat
    BY ListPlaces DEF Lists, List
  <2>5. /\ ready' \in List(Fds)
        /\ \A fd \in Clients : Contains(ready', fd) <=> Contains(ready, fd)
        /\ server = "epoll" => Contains(ready', "sockfd")
        /\ server = "simple" => ready' = ready
    <3>1. "sockfd" \in Fds /\ \A fd \in Clients : fd # "sockfd"
      BY EchoServerAssumption DEF Fds
    <3>2. CASE server = "epoll"
      BY <2>1, <3>1, <3>2, EdgeFacts
    <3>3. CASE server # "epoll"
      BY <2>1, <3>3 DEF Lists
    <3>4. QED
      BY <3>2, <3>3 DEF Kinds
  <2>6. Lists'
    <3>1. Len(backlog') <= Backlog
      BY <2>1, <2>3, <2>4, EchoServerAssumption
    <3>2. \A d \in accepted : ~Contains(backlog', d)
      BY <2>2, <2>3 DEF Lists
    <3>3. QED
      BY <1>0, <2>3, <2>5, <3>1, <3>2 DEF Lists
  <2>7. Programs'
    BY <1>0, <2>5 DEF Programs
  <2>8. Connections'
    BY <1>0, <2>1, <2>3 DEF Connections, Kinds
  <2>9. Served'
    <3>1. \A fd \in Clients : Pollable(fd) => Pollable(fd)'
      BY <1>0, EchoServerAssumption DEF Pollable
    <3>2. QED
      BY <1>0, <2>5, <3>1 DEF Served
  <2>10. server = "epoll" =>
           Len(backlog') = Times(ready', "sockfd") + Times(events', "sockfd") + coalesced'
    <3>1. SUFFICES ASSUME server = "epoll"
                   PROVE  Len(backlog') = Times(ready', "sockfd")
                                            + Times(events', "sockfd") + coalesced'
      OBVIOUS
    <3>2. Len(backlog) = Times(ready, "sockfd") + Times(events, "sockfd") + coalesced
      BY <1>6, <3>1 DEF Reported
    <3>3. Times(ready', "sockfd") = 1 /\ Times(events', "sockfd") = Times(events, "sockfd")
      BY <1>0, <2>5, <3>1 DEF Times
    <3>4. Times(ready, "sockfd") + coalesced + 1 = 1 + coalesced'
      BY <2>1 DEF Times
    <3>5. /\ Times(events, "sockfd") \in Nat /\ Times(ready, "sockfd") \in Nat
          /\ coalesced \in Nat /\ coalesced' \in Nat
      BY <2>1, EchoServerAssumption DEF Times
    <3>6. \A l, r, e, k, k1 \in Nat :
            l = r + e + k /\ r + k + 1 = 1 + k1 => l + 1 = 1 + e + k1
      OBVIOUS
    <3>7. Len(backlog) + 1 = 1 + Times(events, "sockfd") + coalesced'
      BY <2>4, <3>2, <3>4, <3>5, <3>6
    <3>8. QED
      BY <2>3, <3>3, <3>7
  <2>11. Reported'
    <3>1. SUFFICES ASSUME server = "epoll", NEW d \in accepted, Pollable(d)'
                   PROVE  (\/ Contains(ready, d) \/ Contains(events, d)
                           \/ InService(d) \/ link[d] = "answered")'
      BY <1>0, <2>10 DEF Reported
    <3>2. d \in Clients /\ d # "sockfd"
      BY EchoServerAssumption DEF Lists
    <3>3. Pollable(d)
      BY <1>0, <3>1, <3>2 DEF Pollable
    <3>4. \/ Contains(ready, d) \/ Contains(events, d)
          \/ InService(d) \/ link[d] = "answered"
      BY <1>6, <3>1, <3>3 DEF Reported
    <3>5. QED
      BY <1>0, <2>5, <3>2, <3>4 DEF InService
  <2>12. (coalesced \in 0 .. Backlog)'
    <3>1. CASE Contains(ready, "sockfd")
      <4>1. server = "epoll"
        BY <3>1, EmptyList DEF Programs, Kinds
      <4>2. Len(backlog') = 1 + Times(events', "sockfd") + coalesced' /\ coalesced' \in Nat
        BY <2>1, <2>5, <2>10, <4>1, EchoServerAssumption DEF Times
      <4>3. Len(backlog') <= Backlog /\ Times(events', "sockfd") \in Nat /\ Backlog \in Nat
        BY <2>6, EchoServerAssumption DEF Lists, Times
      <4>4. QED
        BY <4>2, <4>3
    <3>2. CASE ~Contains(ready, "sockfd")
      BY <2>1, <3>2
    <3>3. QED
      BY <3>1, <3>2
  <2>13. QED
    BY <1>2, <1>3, <1>4, <2>6, <2>7, <2>8, <2>9, <2>11, <2>12
<1>7. QED
  BY <1>5, <1>6

(* A client sends its next line: it had none on its way, and now has one.  *)
LEMMA SendLineStep ==
  ASSUME EchoIInv, NEW c \in Clients, SendLine(c)
  PROVE  EchoIInv'
<1> USE DEF EchoIInv
<1>1. /\ c_pc[c] = "input" /\ link[c] = "open"
      /\ UNCHANGED <<server, s_pc, backlog, accepted, events, newsockfd, n, link,
                     outbox, coalesced>>
  BY DEF SendLine, Connections
<1>2. PICK place \in {"reply", "gone"} :
        c_pc' = [c_pc EXCEPT ![c] = place] /\ (s_pc # "down" => place = "reply")
  BY DEF SendLine, AfterSend
<1>3. CASE s_pc = "down"
  <2>1. UNCHANGED <<inbox, ready>>
    BY <1>3 DEF SendLine
  <2>2. Lists' /\ Programs' /\ Served' /\ Reported' /\ ExitsOnlyOnDeparture'
    BY <1>1, <2>1, ConnectionChanges
  <2>3. Kinds'
    BY <1>1, <1>2, <2>1 DEF Kinds, Places
  <2>4. OneLineAtATime'
    BY <1>1, <1>3 DEF OneLineAtATime
  <2>5. Connections'
    BY <1>1, <1>2 DEF Connections, Kinds
  <2>6. QED
    BY <1>1, <2>2, <2>3, <2>4, <2>5
<1>4. CASE s_pc # "down"
  <2>1. inbox' = [inbox EXCEPT ![c] = @ + 1] /\ ready' = EdgeOn(c)
    BY <1>4 DEF SendLine
  <2>2. inbox[c] = 0 /\ outbox[c] = 0 /\ ~InService(c)
    BY <1>1, <1>4 DEF OneLineAtATime, Kinds
  <2>3. inbox' \in [Clients -> {0, 1}] /\ inbox'[c] = 1
        /\ \A d \in Clients \ {c} : inbox'[d] = inbox[d]
    BY <2>1, <2>2 DEF Kinds
  <2>4. Lists' /\ Programs' /\ Served' /\ Reported' /\ ExitsOnlyOnDeparture'
    BY <1>1, <2>1, <2>3, ConnectionChanges
  <2>5. Kinds'
    BY <1>1, <1>2, <2>3 DEF Kinds, Places
  <2>6. OneLineAtATime'
    <3>1. SUFFICES ASSUME NEW d \in Clients, link[d] = "open"
                   PROVE  inbox'[d] + outbox'[d] + (IF InService(d)' THEN 1 ELSE 0)
                            = (IF c_pc'[d] = "reply" THEN 1 ELSE 0)
      BY <1>1 DEF OneLineAtATime
    <3>2. InService(d)' = InService(d)
      BY <1>1 DEF InService
    <3>3. CASE d = c
      BY <1>1, <1>2, <1>4, <2>2, <2>3, <3>2, <3>3 DEF Kinds
    <3>4. CASE d # c
      BY <1>1, <1>2, <1>4, <2>3, <3>1, <3>2, <3>4 DEF OneLineAtATime, Kinds
    <3>5. QED
      BY <3>3, <3>4
  <2>7. Connections'
    BY <1>1, <1>2 DEF Connections, Kinds
  <2>8. QED
    BY <1>1, <2>4, <2>5, <2>6, <2>7
<1>5. QED
  BY <1>3, <1>4

(* A client at the end of its input waits for what will not come.          *)
LEMMA SendNothingStep ==
  ASSUME EchoIInv, NEW c \in Clients, SendNothing(c)
  PROVE  EchoIInv'
<1> USE DEF EchoIInv
<1>1. /\ c_pc[c] = "input" /\ c_pc' = [c_pc EXCEPT ![c] = "nothing"]
      /\ UNCHANGED <<server, s_pc, backlog, accepted, ready, events, newsockfd, n,
                     link, inbox, outbox, coalesced>>
  BY DEF SendNothing, epollVars, connVars
<1>2. Lists' /\ Programs' /\ Served' /\ Reported' /\ ExitsOnlyOnDeparture'
  BY <1>1, ConnectionChanges
<1>3. Kinds'
  BY <1>1 DEF Kinds, Places
<1>4. OneLineAtATime'
  BY <1>1 DEF OneLineAtATime, InService, Kinds
<1>5. Connections'
  BY <1>1 DEF Connections, Kinds
<1>6. QED
  BY <1>1, <1>2, <1>3, <1>4, <1>5

(* A client reads its answer, or is told that the server is gone.          *)
LEMMA ReadAnswerStep ==
  ASSUME EchoIInv, NEW c \in Clients, ReadAnswer(c)
  PROVE  EchoIInv'
<1> USE DEF EchoIInv
<1>1. /\ c_pc[c] \in {"reply", "nothing"}
      /\ UNCHANGED <<server, s_pc, backlog, accepted, ready, events, newsockfd, n,
                     link, inbox, coalesced>>
  BY DEF ReadAnswer, epollVars
<1>2. Lists' /\ Programs' /\ Served' /\ Reported' /\ ExitsOnlyOnDeparture'
  BY <1>1, ConnectionChanges
<1>3. /\ c_pc' \in [Clients -> Places] /\ outbox' \in [Clients -> {0, 1}]
      /\ c_pc'[c] \in {"input", "gone"}
      /\ \A d \in Clients \ {c} : c_pc'[d] = c_pc[d] /\ outbox'[d] = outbox[d]
  BY DEF ReadAnswer, Kinds, Places
<1>4. s_pc # "down" => outbox[c] = 1 /\ outbox'[c] = 0 /\ c_pc'[c] = "input"
  BY DEF ReadAnswer, Kinds
<1>5. Kinds'
  BY <1>1, <1>3 DEF Kinds
<1>6. OneLineAtATime'
  <2>1. SUFFICES ASSUME NEW d \in Clients, s_pc # "down", link[d] = "open"
                 PROVE  inbox[d] + outbox'[d] + (IF InService(d) THEN 1 ELSE 0)
                          = (IF c_pc'[d] = "reply" THEN 1 ELSE 0)
    BY <1>1 DEF OneLineAtATime, InService
  <2>2. inbox[d] + outbox[d] + (IF InService(d) THEN 1 ELSE 0)
          = (IF c_pc[d] = "reply" THEN 1 ELSE 0)
    BY <2>1 DEF OneLineAtATime
  <2>3. CASE d = c
    BY <1>1, <1>4, <2>1, <2>2, <2>3 DEF Kinds
  <2>4. CASE d # c
    BY <1>3, <2>2, <2>4
  <2>5. QED
    BY <2>3, <2>4
<1>7. Connections'
  BY <1>1, <1>3 DEF Connections
<1>8. QED
  BY <1>1, <1>2, <1>5, <1>6, <1>7

(* A client is killed.                                                     *)
LEMMA KillStep ==
  ASSUME EchoIInv, NEW c \in Clients, Kill(c)
  PROVE  EchoIInv'
<1> USE DEF EchoIInv
<1>1. /\ c_pc' = [c_pc EXCEPT ![c] = "gone"] /\ ready' = EdgeOn(c)
      /\ UNCHANGED <<server, s_pc, backlog, accepted, events, newsockfd, n, inbox,
                     outbox, coalesced>>
  BY DEF Kill
<1>2. PICK heard \in {"aborted", "closed"} : link' = [link EXCEPT ![c] = heard]
  BY DEF Kill
<1>3. link'[c] # "open" /\ \A d \in Clients \ {c} : link'[d] = link[d]
  BY <1>2 DEF Kinds
<1>4. Lists' /\ Programs' /\ Served' /\ Reported' /\ ExitsOnlyOnDeparture'
  BY <1>1, <1>3, ConnectionChanges
<1>5. Kinds'
  BY <1>1, <1>2 DEF Kinds, Places
<1>6. OneLineAtATime'
  BY <1>1, <1>3 DEF OneLineAtATime, InService, Kinds
<1>7. Connections'
  BY <1>1, <1>3 DEF Connections, Kinds
<1>8. QED
  BY <1>1, <1>4, <1>5, <1>6, <1>7

(* A RST arrives.                                                          *)
LEMMA ResetArrivesStep ==
  ASSUME EchoIInv, NEW c \in Clients, ResetArrives(c)
  PROVE  EchoIInv'
<1> USE DEF EchoIInv
<1>1. /\ link[c] = "answered" /\ link' = [link EXCEPT ![c] = "dead"] /\ ready' = EdgeOn(c)
      /\ UNCHANGED <<server, s_pc, backlog, accepted, events, newsockfd, n, c_pc,
                     inbox, outbox, coalesced>>
  BY DEF ResetArrives
<1>2. link'[c] # "open" /\ \A d \in Clients \ {c} : link'[d] = link[d]
  BY <1>1 DEF Kinds
<1>3. Lists' /\ Programs' /\ Served' /\ Reported' /\ ExitsOnlyOnDeparture'
  BY <1>1, <1>2, ConnectionChanges
<1>4. Kinds'
  BY <1>1 DEF Kinds
<1>5. OneLineAtATime'
  BY <1>1, <1>2 DEF OneLineAtATime, InService
<1>6. Connections'
  BY <1>1, <1>2 DEF Connections
<1>7. QED
  BY <1>1, <1>3, <1>4, <1>5, <1>6

-----------------------------------------------------------------------------
(* The steps of the servers.                                               *)

(* accept: the connection leaves the backlog, and is on the list if it     *)
(* can be read from already.                                               *)
LEMMA AcceptFacts ==
  ASSUME EchoIInv, NEW after, Accept(after), backlog # <<>>
  PROVE  /\ newsockfd' \in Clients /\ newsockfd' \notin accepted
         /\ c_pc[newsockfd'] # "off"
         /\ backlog' \in List(Clients) /\ Len(backlog) \in Nat
         /\ Len(backlog') = Len(backlog) - 1
         /\ \A x : Contains(backlog', x) <=> Contains(backlog, x) /\ x # newsockfd'
         /\ accepted' = accepted \cup {newsockfd'}
         /\ ready' \in List(Fds)
         /\ \A x : Contains(ready', x) <=>
                     \/ Contains(ready, x)
                     \/ x = newsockfd' /\ server = "epoll" /\ Pollable(newsockfd')
         /\ server = "simple" => ready' = ready
         /\ s_pc' = after
         /\ UNCHANGED <<server, n, c_pc, link, inbox, outbox, coalesced>>
<1> USE DEF EchoIInv
<1>1. /\ newsockfd' = Head(backlog) /\ backlog' = Tail(backlog)
      /\ accepted' = accepted \cup {newsockfd'}
      /\ ready' = IF server = "epoll" /\ Pollable(newsockfd')
                  THEN Edge(newsockfd') ELSE ready
      /\ s_pc' = after
      /\ UNCHANGED <<server, n, c_pc, link, inbox, outbox, coalesced>>
  BY DEF Accept, clientVars, connVars
<1>2. /\ newsockfd' \in Clients /\ Contains(backlog, newsockfd')
      /\ backlog' \in List(Clients) /\ Len(backlog) \in Nat
      /\ Len(backlog') = Len(backlog) - 1
      /\ \A x : Contains(backlog', x) <=> Contains(backlog, x) /\ x # newsockfd'
  BY <1>1, TailOfList DEF Lists
<1>3. newsockfd' \notin accepted /\ c_pc[newsockfd'] # "off"
  BY <1>2 DEF Lists, Connections
<1>4. /\ ready' \in List(Fds)
      /\ \A x : Contains(ready', x) <=>
                  \/ Contains(ready, x)
                  \/ x = newsockfd' /\ server = "epoll" /\ Pollable(newsockfd')
  <2>1. newsockfd' \in Fds
    BY <1>2 DEF Fds
  <2>2. CASE server = "epoll" /\ Pollable(newsockfd')
    <3>1. ready' = Edge(newsockfd')
      BY <1>1, <2>2
    <3>2. QED
      BY <2>1, <2>2, <3>1, EdgeFacts
  <2>3. CASE ~(server = "epoll" /\ Pollable(newsockfd'))
    <3>1. ready' = ready
      BY <1>1, <2>3
    <3>2. QED
      BY <2>3, <3>1 DEF Lists
  <2>4. QED
    BY <2>2, <2>3
<1>5. server = "simple" => ready' = ready
  BY <1>1
<1>6. QED
  BY <1>1, <1>2, <1>3, <1>4, <1>5

(* What accept leaves true whatever the server does next.                  *)
LEMMA AcceptKeeps ==
  ASSUME EchoIInv, NEW after, Accept(after), backlog # <<>>, after # "write"
  PROVE  /\ Connections' /\ (coalesced \in 0 .. Backlog)'
         /\ s_pc # "write" /\ s_pc # "down" => OneLineAtATime'
         /\ accepted' \subseteq Clients /\ \A c \in accepted' : ~Contains(backlog', c)
         /\ Len(backlog') <= Backlog
         /\ \A fd \in Clients : Contains(ready', fd) => fd \in accepted'
<1> USE DEF EchoIInv
<1>1. Connections'
  BY AcceptFacts DEF Connections
<1>2. s_pc # "write" /\ s_pc # "down" => OneLineAtATime'
  <2>1. UNCHANGED <<c_pc, link, inbox, outbox>> /\ s_pc' = after
    BY AcceptFacts
  <2>2. s_pc # "write" => \A c : InService(c)' = InService(c)
    BY <2>1 DEF InService
  <2>3. QED
    BY <2>1, <2>2 DEF OneLineAtATime
<1>3. accepted' \subseteq Clients /\ \A c \in accepted' : ~Contains(backlog', c)
  BY AcceptFacts DEF Lists
<1>4. Len(backlog') <= Backlog
  <2>1. Len(backlog') = Len(backlog) - 1 /\ Len(backlog) \in Nat
    BY AcceptFacts
  <2>2. QED
    BY <2>1, EchoServerAssumption DEF Lists
<1>5. \A fd \in Clients : Contains(ready', fd) => fd \in accepted'
  BY AcceptFacts DEF Served
<1>6. (coalesced \in 0 .. Backlog)'
  BY AcceptFacts
<1>7. QED
  BY <1>1, <1>2, <1>3, <1>4, <1>5, <1>6

(* simple-server.c accepts its connection.                                 *)
LEMMA AcceptOneStep ==
  ASSUME EchoIInv, AcceptOne
  PROVE  EchoIInv'
<1> USE DEF EchoIInv
<1>1. /\ server = "simple" /\ s_pc = "accept" /\ backlog # <<>> /\ Accept("read")
      /\ events' = events
  BY DEF AcceptOne
<1>2. /\ newsockfd' \in accepted' /\ newsockfd' \in Clients /\ s_pc' = "read"
      /\ ready' = ready /\ ready' \in List(Fds) /\ backlog' \in List(Clients)
      /\ UNCHANGED <<server, n, c_pc, link, inbox, outbox>>
  BY <1>1, AcceptFacts
<1>3. Kinds'
  BY <1>1, <1>2 DEF Kinds
<1>4. Lists'
  BY <1>1, <1>2, AcceptKeeps DEF Lists
<1>5. Programs'
  BY <1>1, <1>2 DEF Programs
<1>6. Served'
  <2>1. events = <<>> /\ ready = <<>>
    BY <1>1 DEF Programs
  <2>2. \A x : ~Contains(<<>>, x)
    BY EmptyList
  <2>3. QED
    BY <1>1, <1>2, <2>1, <2>2 DEF Served
<1>7. Reported' /\ ExitsOnlyOnDeparture'
  BY <1>1, <1>2 DEF Reported, ExitsOnlyOnDeparture
<1>8. Connections' /\ OneLineAtATime' /\ (coalesced \in 0 .. Backlog)'
  BY <1>1, AcceptKeeps
<1>9. QED
  BY <1>3, <1>4, <1>5, <1>6, <1>7, <1>8

(* epoll-server.c accepts a connection for an event on sockfd: there is    *)
(* one, because the event stands for one.                                  *)
LEMMA AcceptEventStep ==
  ASSUME EchoIInv, AcceptEvent
  PROVE  EchoIInv'
<1> USE DEF EchoIInv
<1>0. \A fd \in Clients : fd # "sockfd"
  BY EchoServerAssumption
<1>1. /\ s_pc = "event" /\ Head(events) = "sockfd"
      /\ Accept(NextEvent(Tail(events))) /\ events' = Tail(events)
  BY DEF AcceptEvent, LaterEvents
<1>2. server = "epoll" /\ events # <<>>
  BY <1>1 DEF Programs, Kinds
<1>3. /\ Contains(events, "sockfd") /\ events' \in List(Fds)
      /\ Len(events) \in Nat /\ Len(events') = Len(events) - 1
      /\ \A x : Contains(events', x) <=> Contains(events, x) /\ x # "sockfd"
  BY <1>1, <1>2, TailOfList DEF Lists
<1>4. Len(backlog) = Times(ready, "sockfd") + 1 + coalesced
  BY <1>1, <1>2, <1>3 DEF Reported, Times
<1>5. backlog # <<>>
  <2>1. Times(ready, "sockfd") \in Nat /\ coalesced \in Nat
    BY DEF Times
  <2>2. Len(backlog) # 0
    BY <1>4, <2>1
  <2>3. QED
    BY <2>2, EmptySeq
<1> DEFINE after == NextEvent(Tail(events))
<1>6. /\ after \in {"epoll_wait", "event"} /\ (after = "epoll_wait" <=> events' = <<>>)
      /\ after # "write"
  BY <1>1 DEF NextEvent
<1> HIDE DEF after
<1>7. Accept(after)
  BY <1>1 DEF after
<1>8. /\ newsockfd' \in Clients
      /\ backlog' \in List(Clients) /\ Len(backlog') = Len(backlog) - 1
      /\ accepted' = accepted \cup {newsockfd'}
      /\ ready' \in List(Fds)
      /\ \A x : Contains(ready', x) <=>
                  Contains(ready, x) \/ (x = newsockfd' /\ Pollable(newsockfd'))
      /\ s_pc' = after
      /\ UNCHANGED <<server, n, c_pc, link, inbox, outbox, coalesced>>
  BY <1>2, <1>5, <1>7, AcceptFacts
<1>9. Kinds'
  BY <1>6, <1>8 DEF Kinds
<1>10. Lists'
  <2>1. Len(events') <= MAX_EVENTS
    BY <1>3, EchoServerAssumption DEF Lists
  <2>2. QED
    BY <1>3, <1>5, <1>6, <1>7, <1>8, <2>1, AcceptKeeps DEF Lists
<1>11. Programs'
  BY <1>2, <1>6, <1>8 DEF Programs
<1>12. Connections' /\ OneLineAtATime' /\ (coalesced \in 0 .. Backlog)'
  BY <1>1, <1>5, <1>6, <1>7, AcceptKeeps
<1>13. \A d \in Clients : Pollable(d)' = Pollable(d)
  BY <1>0, <1>8 DEF Pollable
<1>14. Served'
  <2>1. \A fd \in Clients : Contains(ready', fd) => fd \in accepted'
    BY <1>5, <1>6, <1>7, AcceptKeeps
  <2>2. \A fd \in Clients : Contains(events', fd) => fd \in accepted' /\ Pollable(fd)'
    BY <1>3, <1>8, <1>13 DEF Served
  <2>3. QED
    BY <1>6, <1>8, <2>1, <2>2 DEF Served
<1>15. Reported'
  <2>1. ASSUME NEW d \in accepted', Pollable(d)'
        PROVE  (Contains(ready, d) \/ Contains(events, d) \/ InService(d) \/ link[d] = "answered")'
    <3>1. d \in Clients /\ Pollable(d)
      BY <1>8, <1>13, <2>1 DEF Lists
    <3>2. CASE d = newsockfd'
      BY <1>8, <3>1, <3>2
    <3>3. CASE d \in accepted
      <4>1. Contains(ready, d) \/ Contains(events, d) \/ link[d] = "answered"
        BY <1>1, <1>2, <3>1, <3>3 DEF Reported, InService
      <4>2. QED
        BY <1>0, <1>3, <1>8, <3>1, <4>1
    <3>4. QED
      BY <1>8, <3>2, <3>3
  <2>2. Len(backlog') = Times(ready', "sockfd") + Times(events', "sockfd") + coalesced'
    <3>1. Times(ready', "sockfd") = Times(ready, "sockfd") /\ Times(events', "sockfd") = 0
      BY <1>0, <1>3, <1>8 DEF Times
    <3>2. Times(ready, "sockfd") \in Nat /\ coalesced \in Nat
      BY DEF Times
    <3>3. QED
      BY <1>4, <1>8, <3>1, <3>2
  <2>3. QED
    BY <2>1, <2>2 DEF Reported
<1>16. ExitsOnlyOnDeparture'
  BY <1>6, <1>8 DEF ExitsOnlyOnDeparture
<1>17. QED
  BY <1>9, <1>10, <1>11, <1>12, <1>14, <1>15, <1>16

(* read, of a connection that has something to read: it fails only on a    *)
(* RST, and returns nothing only at end of file.                           *)
LEMMA ReadFacts ==
  ASSUME EchoIInv, NEW c \in accepted, Pollable(c), s_pc # "write", s_pc # "down", Read(c)
  PROVE  /\ Kinds' /\ Connections' /\ OneLineAtATime' /\ ExitsOnlyOnDeparture'
         /\ (coalesced \in 0 .. Backlog)'
         /\ s_pc' \in {"write", "down"}
         /\ s_pc' = "write" => newsockfd' = c /\ (n' = 0 => link[c] # "open")
         /\ \A d \in Clients \ {c} : inbox'[d] = inbox[d]
         /\ UNCHANGED <<server, backlog, accepted, ready, link, coalesced>>
<1> USE DEF EchoIInv
<1>0. c \in Clients /\ c # "sockfd"
  BY EchoServerAssumption DEF Lists
<1>1. UNCHANGED <<server, backlog, accepted, ready, c_pc, link, outbox, coalesced>>
  BY DEF Read
<1>2. Connections' /\ (coalesced \in 0 .. Backlog)'
  BY <1>1 DEF Connections
<1>3. inbox[c] > 0 \/ link[c] # "open"
  BY <1>0 DEF Pollable
<1>4. CASE ReadFails(c)
  <2>1. s_pc' = "down" /\ UNCHANGED <<newsockfd, n, inbox>>
    BY <1>4 DEF Read
  <2>2. link[c] # "open"
    BY <1>3, <1>4, <1>0 DEF ReadFails, Kinds
  <2>3. Kinds'
    BY <1>1, <2>1 DEF Kinds
  <2>4. ExitsOnlyOnDeparture'
    BY <1>1, <2>2 DEF ExitsOnlyOnDeparture
  <2>5. OneLineAtATime'
    BY <2>1 DEF OneLineAtATime
  <2>6. QED
    BY <1>1, <1>2, <2>1, <2>3, <2>4, <2>5
<1>5. CASE ~ReadFails(c)
  <2>1. /\ newsockfd' = c /\ n' = inbox[c] /\ inbox' = [inbox EXCEPT ![c] = 0]
        /\ s_pc' = "write"
    BY <1>5 DEF Read
  <2>2. n' = 0 => link[c] # "open"
    BY <1>5, <2>1 DEF ReadFails
  <2>3. Kinds'
    BY <1>0, <1>1, <2>1 DEF Kinds
  <2>4. ExitsOnlyOnDeparture'
    BY <2>1 DEF ExitsOnlyOnDeparture
  <2>5. OneLineAtATime'
    <3>1. SUFFICES ASSUME NEW d \in Clients, link[d] = "open"
                   PROVE  inbox'[d] + outbox[d] + (IF InService(d)' THEN 1 ELSE 0)
                            = (IF c_pc[d] = "reply" THEN 1 ELSE 0)
      BY <1>1 DEF OneLineAtATime
    <3>2. inbox[d] + outbox[d] = (IF c_pc[d] = "reply" THEN 1 ELSE 0)
      <4>1. inbox[d] + outbox[d] + 0 = (IF c_pc[d] = "reply" THEN 1 ELSE 0)
        BY <3>1 DEF OneLineAtATime, InService
      <4>2. inbox[d] \in {0, 1} /\ outbox[d] \in {0, 1}
        BY DEF Kinds
      <4>3. QED
        BY <4>1, <4>2
    <3>3. InService(d)' <=> d = c
      BY <2>1 DEF InService
    <3>4. inbox[d] \in {0, 1} /\ outbox[d] \in {0, 1}
      BY DEF Kinds
    <3>5. CASE d = c
      <4>1. inbox[d] = 1 /\ inbox'[d] = 0
        BY <1>3, <2>1, <3>1, <3>4, <3>5 DEF Kinds
      <4>2. QED
        BY <3>2, <3>3, <3>4, <3>5, <4>1
    <3>6. CASE d # c
      <4>1. inbox'[d] = inbox[d]
        BY <2>1, <3>6 DEF Kinds
      <4>2. QED
        BY <3>2, <3>3, <3>4, <3>6, <4>1
    <3>7. QED
      BY <3>5, <3>6
  <2>6. \A d \in Clients \ {c} : inbox'[d] = inbox[d]
    BY <2>1 DEF Kinds
  <2>7. QED
    BY <1>1, <1>2, <2>1, <2>2, <2>3, <2>4, <2>5, <2>6
<1>6. QED
  BY <1>4, <1>5

(* simple-server.c reads.                                                  *)
LEMMA ReadLineStep ==
  ASSUME EchoIInv, ReadLine
  PROVE  EchoIInv'
<1> USE DEF EchoIInv
<1>1. /\ server = "simple" /\ s_pc = "read" /\ Pollable(newsockfd)
      /\ Read(newsockfd) /\ events' = events
  BY DEF ReadLine
<1>2. newsockfd \in accepted
  BY <1>1 DEF Served
<1>3. /\ Kinds' /\ Connections' /\ OneLineAtATime' /\ ExitsOnlyOnDeparture'
      /\ (coalesced \in 0 .. Backlog)'
  BY <1>1, <1>2, ReadFacts
<1>4. /\ s_pc' \in {"write", "down"}
      /\ s_pc' = "write" => newsockfd' = newsockfd /\ (n' = 0 => link[newsockfd] # "open")
      /\ UNCHANGED <<server, backlog, accepted, ready, link, coalesced>>
  BY <1>1, <1>2, ReadFacts
<1>5. Lists' /\ Programs'
  BY <1>1, <1>4 DEF Lists, Programs
<1>6. Served'
  <2>1. events' = <<>> /\ ready' = <<>>
    BY <1>1, <1>4 DEF Programs
  <2>2. \A x : ~Contains(<<>>, x)
    BY EmptyList
  <2>3. QED
    BY <1>2, <1>4, <2>1, <2>2 DEF Served
<1>7. Reported'
  BY <1>1, <1>4 DEF Reported
<1>8. QED
  BY <1>3, <1>5, <1>6, <1>7

(* epoll-server.c reads from the connection of its next event.             *)
LEMMA ReadEventStep ==
  ASSUME EchoIInv, ReadEvent
  PROVE  EchoIInv'
<1> USE DEF EchoIInv
<1> DEFINE c == Head(events)
<1>1. /\ s_pc = "event" /\ c # "sockfd" /\ Read(c) /\ events' = Tail(events)
  BY DEF ReadEvent, LaterEvents
<1>2. server = "epoll" /\ events # <<>>
  BY <1>1 DEF Programs, Kinds
<1>3. /\ c \in Fds /\ Contains(events, c) /\ events' \in List(Fds)
      /\ Len(events) \in Nat /\ Len(events') = Len(events) - 1
      /\ \A x : Contains(events', x) <=> Contains(events, x) /\ x # c
  BY <1>1, <1>2, TailOfList DEF Lists
<1> HIDE DEF c
<1>4. c \in Clients /\ c \in accepted /\ Pollable(c)
  BY <1>1, <1>3 DEF Fds, Served
<1>5. /\ Kinds' /\ Connections' /\ OneLineAtATime' /\ ExitsOnlyOnDeparture'
      /\ (coalesced \in 0 .. Backlog)'
  BY <1>1, <1>4, ReadFacts
<1>6. /\ s_pc' \in {"write", "down"}
      /\ s_pc' = "write" => newsockfd' = c /\ (n' = 0 => link[c] # "open")
      /\ \A d \in Clients \ {c} : inbox'[d] = inbox[d]
      /\ UNCHANGED <<server, backlog, accepted, ready, link, coalesced>>
  BY <1>1, <1>4, ReadFacts
<1>7. Lists'
  <2>1. Len(events') <= MAX_EVENTS
    BY <1>3, EchoServerAssumption DEF Lists
  <2>2. QED
    BY <1>3, <1>6, <2>1 DEF Lists
<1>8. Programs'
  BY <1>2, <1>6 DEF Programs
<1>9. \A d \in Clients \ {c} : Pollable(d)' = Pollable(d)
  BY <1>6, EchoServerAssumption DEF Pollable
<1>10. Served'
  <2>1. \A fd \in Clients : Contains(events', fd) => fd \in accepted' /\ Pollable(fd)'
    BY <1>3, <1>6, <1>9 DEF Served
  <2>2. QED
    BY <1>4, <1>6, <2>1 DEF Served
<1>11. Reported'
  <2>0. SUFFICES ASSUME s_pc' = "write"
                 PROVE  Reported'
    BY <1>6 DEF Reported
  <2>1. ASSUME NEW d \in accepted', Pollable(d)'
        PROVE  (Contains(ready, d) \/ Contains(events, d) \/ InService(d) \/ link[d] = "answered")'
    <3>1. d \in accepted /\ d \in Clients
      BY <1>6, <2>1 DEF Lists
    <3>2. CASE d = c
      BY <1>6, <2>0, <3>2 DEF InService
    <3>3. CASE d # c
      <4>1. Pollable(d)
        BY <1>9, <2>1, <3>1, <3>3
      <4>2. Contains(ready, d) \/ Contains(events, d) \/ link[d] = "answered"
        BY <1>1, <1>2, <3>1, <4>1 DEF Reported, InService
      <4>3. QED
        BY <1>3, <1>6, <3>3, <4>2
    <3>4. QED
      BY <3>2, <3>3
  <2>2. Len(backlog') = Times(ready', "sockfd") + Times(events', "sockfd") + coalesced'
    <3>1. Len(backlog) = Times(ready, "sockfd") + Times(events, "sockfd") + coalesced
      BY <1>1, <1>2 DEF Reported
    <3>2. Times(events', "sockfd") = Times(events, "sockfd")
      BY <1>1, <1>3 DEF Times
    <3>3. Times(ready', "sockfd") = Times(ready, "sockfd")
      BY <1>6
    <3>4. QED
      BY <1>6, <3>1, <3>2, <3>3
  <2>3. QED
    BY <2>1, <2>2 DEF Reported
<1>12. QED
  BY <1>5, <1>7, <1>8, <1>10, <1>11

(* write: it fails only on a RST; a client that is there gets the answer   *)
(* to its line, and one that has left sends a RST.                         *)
LEMMA WriteFacts ==
  ASSUME EchoIInv, NEW after \in {"read", "down", "epoll_wait", "event"}, Write(after),
         after = "down" => n = 0, after = "event" => events # <<>>, events' = events
  PROVE  /\ Kinds' /\ Lists' /\ Connections' /\ OneLineAtATime' /\ ExitsOnlyOnDeparture'
         /\ (coalesced \in 0 .. Backlog)'
         /\ s_pc' \in {after, "down"} /\ newsockfd \in accepted
         /\ \A d \in Clients \ {newsockfd} : link'[d] = link[d]
         /\ \A d \in Clients : Pollable(d)' = Pollable(d)
         /\ s_pc' # "down" /\ link[newsockfd] # "open" => link'[newsockfd] = "answered"
         /\ link[newsockfd] = "open" => inbox[newsockfd] = 0
         /\ UNCHANGED <<server, backlog, accepted, ready, newsockfd, n, inbox, coalesced>>
<1> USE DEF EchoIInv
<1> DEFINE c == newsockfd
<1>1. /\ s_pc = "write" /\ s_pc' \in {after, "down"}
      /\ UNCHANGED <<server, backlog, accepted, ready, newsockfd, n, c_pc, inbox, coalesced>>
  BY DEF Write, epollVars
<1>2. c \in accepted /\ c \in Clients /\ c # "sockfd"
  BY <1>1, EchoServerAssumption DEF Served, Lists
<1>3. link[c] = "open" => inbox[c] = 0 /\ outbox[c] = 0 /\ c_pc[c] = "reply"
  <2>1. SUFFICES ASSUME link[c] = "open"
                 PROVE  inbox[c] = 0 /\ outbox[c] = 0 /\ c_pc[c] = "reply"
    OBVIOUS
  <2>2. inbox[c] + outbox[c] + 1 = (IF c_pc[c] = "reply" THEN 1 ELSE 0)
    BY <1>1, <1>2, <2>1 DEF OneLineAtATime, InService
  <2>3. inbox[c] \in {0, 1} /\ outbox[c] \in {0, 1}
    BY <1>2 DEF Kinds
  <2>4. QED
    BY <2>2, <2>3
<1>4. \/ /\ s_pc' = "down" /\ link[c] # "open"
         /\ UNCHANGED <<link, outbox>>
      \/ /\ s_pc' = after /\ link[c] = "open"
         /\ outbox' = [outbox EXCEPT ![c] = @ + 1] /\ UNCHANGED link
      \/ /\ s_pc' = after /\ link[c] # "open"
         /\ link' = [link EXCEPT ![c] = "answered"] /\ UNCHANGED outbox
  BY DEF Write, WriteFails
<1>5. /\ link' \in [Clients -> {"open", "closed", "aborted", "answered", "dead"}]
      /\ outbox' \in [Clients -> {0, 1}]
      /\ \A d \in Clients \ {c} : link'[d] = link[d] /\ outbox'[d] = outbox[d]
      /\ link'[c] = "open" <=> link[c] = "open"
      /\ s_pc' # "down" /\ link[c] # "open" => link'[c] = "answered"
      /\ s_pc' # "down" /\ link[c] = "open" => outbox'[c] = 1
  <2>1. CASE s_pc' = "down" /\ link[c] # "open" /\ UNCHANGED <<link, outbox>>
    BY <2>1 DEF Kinds
  <2>2. CASE /\ s_pc' = after /\ link[c] = "open"
             /\ outbox' = [outbox EXCEPT ![c] = @ + 1] /\ UNCHANGED link
    BY <1>2, <1>3, <2>2 DEF Kinds
  <2>3. CASE /\ s_pc' = after /\ link[c] # "open"
             /\ link' = [link EXCEPT ![c] = "answered"] /\ UNCHANGED outbox
    BY <1>2, <2>3 DEF Kinds
  <2>4. QED
    BY <1>4, <2>1, <2>2, <2>3
<1>6. \A d \in Clients : link'[d] = "open" <=> link[d] = "open"
  BY <1>5
<1>7. Kinds'
  BY <1>1, <1>5 DEF Kinds
<1>8. Lists' /\ (coalesced \in 0 .. Backlog)'
  BY <1>1 DEF Lists
<1>9. Connections'
  BY <1>1, <1>6 DEF Connections
<1>10. OneLineAtATime'
  <2>1. SUFFICES ASSUME NEW d \in Clients, s_pc' # "down", link'[d] = "open"
                 PROVE  inbox[d] + outbox'[d] + (IF InService(d)' THEN 1 ELSE 0)
                          = (IF c_pc[d] = "reply" THEN 1 ELSE 0)
    BY <1>1 DEF OneLineAtATime
  <2>2. ~InService(d)'
    BY <1>1, <2>1 DEF InService
  <2>3. CASE d = c
    <3>1. inbox[d] = 0 /\ outbox'[d] = 1 /\ c_pc[d] = "reply"
      BY <1>3, <1>5, <1>6, <2>1, <2>3
    <3>2. QED
      BY <2>2, <3>1
  <2>4. CASE d # c
    <3>1. inbox[d] + outbox[d] + 0 = (IF c_pc[d] = "reply" THEN 1 ELSE 0)
      BY <1>1, <1>6, <2>1, <2>4 DEF OneLineAtATime, InService
    <3>2. outbox'[d] = outbox[d]
      BY <1>5, <2>4
    <3>3. QED
      BY <2>2, <3>1, <3>2
  <2>5. QED
    BY <2>3, <2>4
<1>11. ExitsOnlyOnDeparture'
  <2>1. s_pc' = "down" => link[c] # "open"
    BY <1>1, <1>4 DEF Served
  <2>2. QED
    BY <1>1, <1>2, <1>6, <2>1 DEF ExitsOnlyOnDeparture
<1>12. \A d \in Clients : Pollable(d)' = Pollable(d)
  <2>1. SUFFICES ASSUME NEW d \in Clients
                 PROVE  Pollable(d)' <=> Pollable(d)
    BY DEF Pollable
  <2>2. d # "sockfd"
    BY EchoServerAssumption
  <2>3. QED
    BY <1>1, <1>6, <2>2 DEF Pollable
<1>13. QED
  BY <1>1, <1>2, <1>3, <1>5, <1>7, <1>8, <1>9, <1>10, <1>11, <1>12

(* simple-server.c answers.                                                *)
LEMMA WriteAnswerStep ==
  ASSUME EchoIInv, WriteAnswer, events' = events
  PROVE  EchoIInv'
<1> USE DEF EchoIInv
<1> DEFINE after == IF GoesOn THEN "read" ELSE "down"
<1>1. /\ server = "simple" /\ Write(after)
  BY DEF WriteAnswer
<1>2. /\ after \in {"read", "down", "epoll_wait", "event"}
      /\ after \in {"read", "down"}
      /\ after = "down" => n = 0 /\ after # "event"
  BY DEF GoesOn, Kinds
<1> HIDE DEF after
<1>3. after # "event"
  BY <1>2
<1>4. /\ Kinds' /\ Lists' /\ Connections' /\ OneLineAtATime' /\ ExitsOnlyOnDeparture'
      /\ (coalesced \in 0 .. Backlog)'
  BY <1>1, <1>2, <1>3, WriteFacts
<1>5. /\ s_pc' \in {after, "down"} /\ newsockfd \in accepted
      /\ UNCHANGED <<server, backlog, accepted, ready, newsockfd, n, inbox, coalesced>>
  BY <1>1, <1>2, <1>3, WriteFacts
<1>6. events = <<>> /\ ready = <<>>
  BY <1>1 DEF Programs
<1>7. Programs'
  BY <1>1, <1>2, <1>5, <1>6 DEF Programs
<1>8. Served'
  <2>1. \A x : ~Contains(<<>>, x)
    BY EmptyList
  <2>2. QED
    BY <1>2, <1>5, <1>6, <2>1 DEF Served
<1>9. Reported'
  BY <1>1, <1>5 DEF Reported
<1>10. QED
  BY <1>4, <1>7, <1>8, <1>9

(* epoll-server.c answers, and goes on to its next event.                  *)
LEMMA WriteEventStep ==
  ASSUME EchoIInv, WriteEvent, events' = events
  PROVE  EchoIInv'
<1> USE DEF EchoIInv
<1> DEFINE after == NextEvent(events)
<1>1. server = "epoll" /\ Write(after) /\ s_pc = "write"
  BY DEF WriteEvent, Write
<1>2. /\ after \in {"read", "down", "epoll_wait", "event"}
      /\ after \in {"epoll_wait", "event"}
      /\ after = "event" <=> events # <<>>
  BY DEF NextEvent
<1> HIDE DEF after
<1>3. after # "down"
  BY <1>2
<1>4. /\ Kinds' /\ Lists' /\ Connections' /\ OneLineAtATime' /\ ExitsOnlyOnDeparture'
      /\ (coalesced \in 0 .. Backlog)'
  BY <1>1, <1>2, <1>3, WriteFacts
<1>5. /\ s_pc' \in {after, "down"} /\ newsockfd \in accepted
      /\ \A d \in Clients \ {newsockfd} : link'[d] = link[d]
      /\ \A d \in Clients : Pollable(d)' = Pollable(d)
      /\ s_pc' # "down" /\ link[newsockfd] # "open" => link'[newsockfd] = "answered"
      /\ link[newsockfd] = "open" => inbox[newsockfd] = 0
      /\ UNCHANGED <<server, backlog, accepted, ready, newsockfd, n, inbox, coalesced>>
  BY <1>1, <1>2, <1>3, WriteFacts
<1>6. Programs'
  BY <1>1, <1>2, <1>5 DEF Programs
<1>7. Served'
  <2>1. \A fd \in Clients : Contains(events', fd) => fd \in accepted' /\ Pollable(fd)'
    BY <1>5 DEF Served
  <2>2. \A fd \in Clients : Contains(ready', fd) => fd \in accepted'
    BY <1>5 DEF Served
  <2>3. QED
    BY <1>2, <1>5, <2>1, <2>2 DEF Served
<1>8. Reported'
  <2>0. SUFFICES ASSUME s_pc' # "down"
                 PROVE  Reported'
    BY DEF Reported
  <2>1. ASSUME NEW d \in accepted', Pollable(d)'
        PROVE  (Contains(ready, d) \/ Contains(events, d) \/ InService(d) \/ link[d] = "answered")'
    <3>1. d \in accepted /\ d \in Clients /\ Pollable(d) /\ d # "sockfd"
      BY <1>5, <2>1, EchoServerAssumption DEF Lists
    <3>2. CASE d = newsockfd
      <4>1. link[d] # "open"
        BY <1>5, <3>1, <3>2 DEF Pollable
      <4>2. QED
        BY <1>5, <2>0, <3>2, <4>1
    <3>3. CASE d # newsockfd
      <4>1. Contains(ready, d) \/ Contains(events, d) \/ link[d] = "answered"
        BY <1>1, <3>1, <3>3 DEF Reported, InService
      <4>2. QED
        BY <1>5, <3>1, <3>3, <4>1
    <3>4. QED
      BY <3>2, <3>3
  <2>2. Len(backlog) = Times(ready, "sockfd") + Times(events, "sockfd") + coalesced
    BY <1>1 DEF Reported
  <2>3. QED
    BY <1>5, <2>1, <2>2 DEF Reported
<1>9. QED
  BY <1>4, <1>6, <1>7, <1>8

(* epoll_wait reports some of the list: what can be read from stays on the *)
(* list or is reported, and so does sockfd, because the backlog holds a    *)
(* connection for it.                                                      *)
LEMMA EpollWaitStep ==
  ASSUME EchoIInv, epoll_wait
  PROVE  EchoIInv'
<1> USE DEF EchoIInv
<1> DEFINE live == Kept(ready, {fd \in Fds : Pollable(fd)})
<1>0. MAX_EVENTS \in Nat \ {0} /\ \A fd \in Clients : fd # "sockfd"
  BY EchoServerAssumption
<1>1. /\ s_pc = "epoll_wait" /\ s_pc' = "event" /\ live # <<>>
      /\ events' = SubSeq(live, 1, Min({Len(live), MAX_EVENTS}))
      /\ ready' = SubSeq(live, MAX_EVENTS + 1, Len(live))
      /\ UNCHANGED <<server, backlog, accepted, newsockfd, n, c_pc, link, inbox,
                     outbox, coalesced>>
  BY DEF epoll_wait, clientVars, connVars
<1>2. server = "epoll" /\ events = <<>> /\ \A x : ~Contains(events, x)
  BY <1>1, EmptyList DEF Programs, Kinds
<1>3. /\ live \in List(Fds)
      /\ \A x : Contains(live, x) <=> Contains(ready, x) /\ x \in {fd \in Fds : Pollable(fd)}
  BY KeptOfList DEF Lists
<1> HIDE DEF live
<1>4. /\ events' \in List(Fds) /\ ready' \in List(Fds)
      /\ events' # <<>> /\ Len(events') <= MAX_EVENTS
      /\ \A x : Contains(live, x) <=> Contains(events', x) \/ Contains(ready', x)
      /\ \A x : ~(Contains(events', x) /\ Contains(ready', x))
  BY <1>0, <1>1, <1>3, PartsOfList
<1>5. \A x \in Fds : Contains(events', x) \/ Contains(ready', x) <=>
                       Contains(ready, x) /\ Pollable(x)
  BY <1>3, <1>4
<1>6. \A d \in Clients : d \in Fds /\ Pollable(d)' = Pollable(d)
  BY <1>0, <1>1 DEF Pollable, Fds
<1>7. Kinds' /\ (coalesced \in 0 .. Backlog)'
  BY <1>1, <1>4 DEF Kinds
<1>8. Lists'
  BY <1>1, <1>4 DEF Lists
<1>9. OneLineAtATime'
  BY <1>1 DEF OneLineAtATime, InService
<1>10. Programs' /\ Connections' /\ ExitsOnlyOnDeparture'
  BY <1>1, <1>2 DEF Programs, Connections, ExitsOnlyOnDeparture
<1>11. Served'
  <2>1. \A fd \in Clients : Contains(events', fd) => fd \in accepted' /\ Pollable(fd)'
    BY <1>1, <1>5, <1>6 DEF Served
  <2>2. \A fd \in Clients : Contains(ready', fd) => fd \in accepted'
    BY <1>1, <1>5, <1>6 DEF Served
  <2>3. QED
    BY <1>1, <2>1, <2>2 DEF Served
<1>12. Reported'
  <2>1. ASSUME NEW d \in accepted', Pollable(d)'
        PROVE  (Contains(ready, d) \/ Contains(events, d) \/ InService(d) \/ link[d] = "answered")'
    <3>1. d \in accepted /\ d \in Clients /\ d \in Fds /\ Pollable(d)
      BY <1>1, <1>6, <2>1 DEF Lists
    <3>2. Contains(ready, d) \/ link[d] = "answered"
      BY <1>1, <1>2, <3>1 DEF Reported, InService
    <3>3. QED
      BY <1>1, <1>5, <3>1, <3>2
  <2>2. Len(backlog) = Times(ready, "sockfd") + coalesced
    <3>1. Len(backlog) = Times(ready, "sockfd") + Times(events, "sockfd") + coalesced
      BY <1>1, <1>2 DEF Reported
    <3>2. Times(ready, "sockfd") \in Nat /\ Times(events, "sockfd") = 0
      BY <1>2 DEF Times
    <3>3. QED
      BY <3>1, <3>2
  <2>3. Times(ready', "sockfd") + Times(events', "sockfd") = Times(ready, "sockfd")
    <3>1. "sockfd" \in Fds
      BY DEF Fds
    <3>2. Contains(ready, "sockfd") => Pollable("sockfd")
      <4>1. SUFFICES ASSUME Contains(ready, "sockfd")
                     PROVE  backlog # <<>>
        BY DEF Pollable
      <4>2. Len(backlog) # 0
        BY <2>2, <4>1 DEF Times
      <4>3. QED
        BY <4>2, EmptySeq
    <3>3. Contains(events', "sockfd") \/ Contains(ready', "sockfd") <=> Contains(ready, "sockfd")
      BY <1>5, <3>1, <3>2
    <3>4. QED
      BY <1>4, <3>3 DEF Times
  <2>4. Len(backlog') = Times(ready', "sockfd") + Times(events', "sockfd") + coalesced'
    BY <1>1, <2>2, <2>3
  <2>5. QED
    BY <2>1, <2>4 DEF Reported
<1>13. QED
  BY <1>7, <1>8, <1>9, <1>10, <1>11, <1>12

-----------------------------------------------------------------------------
(* The theorems.                                                           *)

(* Every step preserves the inductive invariant.                           *)
LEMMA EchoStep == EchoIInv /\ [Next]_vars => EchoIInv'
<1> SUFFICES ASSUME EchoIInv, [Next]_vars
             PROVE  EchoIInv'
  OBVIOUS
<1>1. CASE AcceptOne \/ ReadLine \/ AcceptEvent \/ ReadEvent \/ epoll_wait
  BY <1>1, AcceptOneStep, ReadLineStep, AcceptEventStep, ReadEventStep, EpollWaitStep
<1>2. CASE WriteAnswer \/ WriteEvent
  <2>1. events' = events
    BY <1>2 DEF WriteAnswer, WriteEvent, Write, epollVars
  <2>2. QED
    BY <1>2, <2>1, WriteAnswerStep, WriteEventStep
<1>3. ASSUME NEW c \in Clients,
             \/ connect(c) \/ SendLine(c) \/ SendNothing(c)
             \/ ReadAnswer(c) \/ Kill(c) \/ ResetArrives(c)
      PROVE  EchoIInv'
  BY <1>3, ConnectStep, SendLineStep, SendNothingStep, ReadAnswerStep, KillStep,
     ResetArrivesStep
<1>4. CASE UNCHANGED vars
  <2>1. UNCHANGED <<server, s_pc, backlog, accepted, ready, events, newsockfd, n,
                    c_pc, link, inbox, outbox, coalesced>>
    BY <1>4 DEF vars, epollVars, clientVars, connVars
  <2>2. Kinds' /\ Lists' /\ (coalesced \in 0 .. Backlog)'
    BY <2>1 DEF EchoIInv, Kinds, Lists
  <2>3. OneLineAtATime' /\ Programs' /\ Connections' /\ ExitsOnlyOnDeparture'
    BY <2>1 DEF EchoIInv, OneLineAtATime, InService, Programs, Connections,
                ExitsOnlyOnDeparture
  <2>4. Served' /\ Reported'
    BY <2>1 DEF EchoIInv, Served, Reported, InService, Pollable
  <2>5. QED
    BY <2>2, <2>3, <2>4 DEF EchoIInv
<1>5. QED
  BY <1>1, <1>2, <1>3, <1>4 DEF Next, Serving

(* Lines and answers are kept apart although nothing counts them, whatever *)
(* the clients do and whenever they are killed: at any time a client that  *)
(* waits for an answer has one line or one answer on its way, and no other *)
(* has any (the reads of simple-server.c, epoll-server.c and               *)
(* simple-client.c each return one).                                       *)
THEOREM EchoAlways == Spec => []EchoInv
<1>1. EchoIInv => EchoInv
  BY EchoIInvImplies
<1>2. QED
  BY EchoInit, EchoStep, <1>1, PTL DEF Spec

(* No edge is lost: a connection of epoll-server.c that can be read from   *)
(* is on the kernel's list, among the events of the batch, in service, or  *)
(* about to be reset; and the backlog holds as many connections as events  *)
(* on sockfd are still to come, and those that came too early for one.     *)
THEOREM EdgesAlwaysKept == Spec => []EdgesKept
<1>1. EchoIInv => EdgesKept
  BY EchoIInvImplies
<1>2. QED
  BY EchoInit, EchoStep, <1>1, PTL DEF Spec

(* Neither server exits before a connection that it accepted has ended: no *)
(* accept finds the backlog empty, no read of a batch finds its connection *)
(* emptied by an earlier event, and no write fails, for any other reason.  *)
THEOREM OnlyDepartureEndsServer == Spec => []ExitsOnlyOnDeparture
<1>1. EchoIInv => ExitsOnlyOnDeparture
  BY EchoIInvImplies
<1>2. QED
  BY EchoInit, EchoStep, <1>1, PTL DEF Spec

(* epoll_wait has nothing to report: the server sleeps.                    *)
Asleep ==
  s_pc = "epoll_wait" /\ Kept(ready, {fd \in Fds : Pollable(fd)}) = <<>>

(* The debts of a server that sleeps: a connection that was accepted and   *)
(* still stands has been read, and the answer to its line has been         *)
(* written; one that has ended waits for the RST that is on its way; and   *)
(* those in the backlog came under another one's event.                    *)
NothingOwed ==
  /\ \A c \in accepted :
       /\ link[c] = "open" => inbox[c] = 0 /\ (c_pc[c] = "reply" => outbox[c] = 1)
       /\ link[c] # "open" => link[c] = "answered"
  /\ Len(backlog) = coalesced

(* epoll-server.c never falls asleep on what it has still to do: what it   *)
(* has once been told of, and nothing will tell it of again, it has done,  *)
(* but for the connections that share an event on sockfd.                  *)
THEOREM SleepsOnlyWhenIdle == Spec => [](Asleep => NothingOwed)
<1>1. EchoIInv /\ Asleep => NothingOwed
  <2> SUFFICES ASSUME EchoIInv, Asleep
               PROVE  NothingOwed
    OBVIOUS
  <2> DEFINE Live == {fd \in Fds : Pollable(fd)}
  <2>1. server = "epoll" /\ s_pc = "epoll_wait" /\ events = <<>>
    BY DEF EchoIInv, Kinds, Programs, Asleep
  <2>2. \A fd \in Fds : Contains(ready, fd) => ~Pollable(fd)
    <3>1. ready \in List(Fds)
      BY DEF EchoIInv, Lists
    <3>2. \A fd : Contains(Kept(ready, Live), fd) <=> Contains(ready, fd) /\ fd \in Live
      BY <3>1, KeptOfList
    <3>3. Kept(ready, Live) = <<>>
      BY DEF Asleep
    <3>4. QED
      BY <3>2, <3>3, EmptyList
  <2>3. \A fd : ~Contains(events, fd)
    BY <2>1, EmptyList
  <2>4. ASSUME NEW c \in accepted
        PROVE  Pollable(c) => link[c] = "answered"
    <3>1. c \in Fds
      BY DEF EchoIInv, Lists, Fds
    <3>2. ~InService(c)
      BY <2>1 DEF InService
    <3>3. QED
      BY <2>1, <2>2, <2>3, <3>1, <3>2 DEF EchoIInv, Reported
  <2>5. ASSUME NEW c \in accepted
        PROVE  /\ link[c] = "open" => inbox[c] = 0 /\ (c_pc[c] = "reply" => outbox[c] = 1)
               /\ link[c] # "open" => link[c] = "answered"
    <3>1. c \in Clients /\ c # "sockfd"
      BY EchoServerAssumption DEF EchoIInv, Lists
    <3>2. inbox[c] \in {0, 1} /\ outbox[c] \in {0, 1}
      BY <3>1 DEF EchoIInv, Kinds
    <3>3. Pollable(c) <=> inbox[c] > 0 \/ link[c] # "open"
      BY <3>1 DEF Pollable
    <3>4. link[c] = "open" => inbox[c] = 0
      BY <2>4, <3>2, <3>3
    <3>5. link[c] = "open" /\ c_pc[c] = "reply" => outbox[c] = 1
      <4>1. link[c] = "open" => inbox[c] + outbox[c] + 0 = (IF c_pc[c] = "reply" THEN 1 ELSE 0)
        BY <2>1, <3>1 DEF EchoIInv, OneLineAtATime, InService
      <4>2. QED
        BY <3>2, <3>4, <4>1
    <3>6. QED
      BY <2>4, <3>3, <3>4, <3>5
  <2>6. Len(backlog) = coalesced
    <3>1. Len(backlog) = Times(ready, "sockfd") + 0 + coalesced
      BY <2>1, <2>3 DEF EchoIInv, Reported, Times
    <3>2. coalesced \in Nat
      BY EchoServerAssumption DEF EchoIInv
    <3>3. Contains(ready, "sockfd") => Len(backlog) = 0
      BY <2>2 DEF Fds, Pollable
    <3>4. QED
      BY <3>1, <3>2, <3>3 DEF Times
  <2>7. QED
    BY <2>5, <2>6 DEF NothingOwed
<1>2. QED
  BY EchoInit, EchoStep, <1>1, PTL DEF Spec

=============================================================================
