------------------------- MODULE SharedSlotsProofs -------------------------
(***************************************************************************)
(* Theorems about SharedSlots, for every number of slots, of messages and  *)
(* of runs of the two programs: what becomes of the slots, and that the    *)
(* two programs implement the channel.                                     *)
(***************************************************************************)
EXTENDS SharedSlots, FiniteSetTheorems, SequenceTheorems,
        WellFoundedInduction, TLAPS

-----------------------------------------------------------------------------
(* The inductive invariant.                                                *)

(* Who holds which FIFO: the producer the one it made or found, the        *)
(* consumer that one or none; a FIFO with content is held by somebody.     *)
FifosHeld ==
  /\ p_fd > 0 <=> p_pc \in {"reset", "loop", "send"}
  /\ p_fd > 0 => path = p_fd /\ c_fd \in {-1, 0, p_fd}
  /\ p_pc = "open" => path > 0
  /\ c_pc = "off" <=> c_fd = 0
  /\ c_pc \in {"print", "free"} => c_fd > 0 /\ c_offset \in Offsets
  /\ \A f \in 1 .. Len(fifos) : fifos[f] # <<>> => f = p_fd \/ f = c_fd
  /\ p_pc # "off" => p_runs >= 1
  /\ c_pc # "off" => c_runs >= 1

(* Nothing is on its way before a producer has set the slots to FREE, and  *)
(* nobody writes a message to a slot that it has just set.                 *)
SlotsSetUp ==
  /\ \/ p_pc \in {"loop", "send"} \/ c_pc \in {"print", "free"}
     \/ \E f \in 1 .. Len(fifos) : fifos[f] # <<>>
     => \A s \in Offsets : slots[s] # ZERO
  /\ p_pc = "reset" => /\ resets < TOTAL_SLOTS
                       /\ \A s \in Offsets : s < resets => slots[s] = FREE

(* The messages sent are those of earlier runs, and of this run the ones   *)
(* that its counter has passed.                                            *)
SentSoFar ==
  /\ p_pc = "send" => itr < Iterations
  /\ \A m \in sent :
       \/ m[1] < p_runs
       \/ /\ m[1] = p_runs /\ p_pc \notin {"mkfifo", "open", "reset"}
          /\ p_pc = "loop" => m[2] >= itr
          /\ p_pc = "send" => m[2] > itr

Elements(transit) == {transit[i] : i \in 1 .. Len(transit)}

(* The slots that are neither free nor accounted for.                      *)
LostSlots ==
  (Offsets \ FreeSlots)
    \ (Elements(InTransit) \cup (IF c_pc = "free" THEN {c_offset} ELSE {})
                           \cup (IF p_pc = "send" THEN {offset} ELSE {}))
Ended == IF c_pc = "off" THEN c_runs ELSE c_runs - 1
FewLost == p_pc \in {"loop", "send"} => Cardinality(LostSlots) <= Ended

(* Every offset on its way is that of a message that has been sent and of  *)
(* no other; the two that are being worked on are not on their way.        *)
Injective(transit) ==
  \A i, k \in 1 .. Len(transit) : transit[i] = transit[k] => i = k
Orderly ==
  /\ Injective(InTransit)
  /\ \A s \in Elements(InTransit) : slots[s] \in sent
  /\ c_pc = "free" => c_offset \notin Elements(InTransit) /\ slots[c_offset] # FREE
  /\ p_pc = "send" => /\ offset \notin Elements(InTransit)
                      /\ slots[offset] = <<p_runs, itr>>
                      /\ c_pc = "free" => c_offset # offset

ChannelInv ==
  /\ TypeOK /\ FifosHeld /\ SlotsSetUp /\ SentSoFar /\ FewLost
  /\ ~confused => Orderly

(* The parts of the invariant that say nothing of the order of offsets.    *)
Flags == segment \in BOOLEAN /\ confused \in BOOLEAN
Types ==
  /\ slots \in [Offsets -> Messages \cup {ZERO, FREE}]
  /\ fifos \in Seq(Seq(Offsets)) /\ path \in 0 .. Len(fifos)
  /\ p_pc \in {"off", "mkfifo", "open", "reset", "loop", "send"} /\ p_runs \in 0 .. Producers
  /\ resets \in 0 .. TOTAL_SLOTS
  /\ p_fd \in 0 .. Len(fifos) /\ itr \in 0 .. Iterations
  /\ offset \in Offsets \cup {-1} /\ (p_pc = "send" => offset # -1)
  /\ c_pc \in {"off", "read", "print", "free"} /\ c_runs \in 0 .. Consumers
  /\ c_fd \in -1 .. Len(fifos) /\ c_offset \in Offsets \cup {-1}
  /\ sent \subseteq Messages /\ received \in Seq(Messages \cup {FREE})
ControlInv == Types /\ FifosHeld /\ SlotsSetUp /\ SentSoFar

LEMMA TypeOKParts == TypeOK <=> Flags /\ Types
BY DEF TypeOK, Flags, Types

-----------------------------------------------------------------------------
(* FIFOs and slots.                                                        *)

LEMMA OffsetFacts ==
  /\ TOTAL_SLOTS \in Nat \ {0} /\ Offsets \subseteq Nat /\ -1 \notin Offsets
  /\ IsFiniteSet(Offsets) /\ Cardinality(Offsets) = TOTAL_SLOTS
<1>1. TOTAL_SLOTS \in Nat \ {0} /\ Offsets = 0 .. TOTAL_SLOTS - 1
  BY SharedSlotsAssumption DEF Offsets
<1>2. IsFiniteSet(Offsets) /\ Cardinality(Offsets) = TOTAL_SLOTS
  BY <1>1, FS_Interval
<1>3. QED
  BY <1>1, <1>2

(* What a message is not.                                                  *)
LEMMA MessageFacts ==
  /\ FREE \notin Messages /\ FREE # ZERO /\ ZERO \notin Messages
  /\ \A run \in 1 .. Producers, n \in 0 .. Iterations - 1 :
       /\ <<run, n>> \in Messages
       /\ <<run, n>>[1] = run /\ <<run, n>>[2] = n
BY DEF FREE, ZERO, Messages

LEMMA MessageParts ==
  ASSUME NEW m \in Messages
  PROVE  /\ m[1] \in 1 .. Producers /\ m[2] \in 0 .. Iterations - 1
         /\ m = <<m[1], m[2]>>
BY DEF Messages

LEMMA FirstFree ==
  \/ FreeSlots = {} /\ ~Found(FindSlot)
  \/ FindSlot \in Offsets /\ slots[FindSlot] = FREE /\ Found(FindSlot)
<1>1. CASE FreeSlots = {}
  BY <1>1 DEF FindSlot, Found
<1>2. CASE FreeSlots # {}
  <2>1. FreeSlots \subseteq Offsets /\ Offsets \subseteq Nat
    BY OffsetFacts DEF FreeSlots
  <2>2. \E s \in FreeSlots : \A t \in FreeSlots : s <= t
    <3> DEFINE Below == {0 .. s : s \in FreeSlots}
               Smaller == StrictSubsetOrdering(Nat)
    <3>1. Below \subseteq FiniteSubsetsOf(Nat) /\ Below # {}
      <4>1. \A s \in FreeSlots : 0 .. s \in SUBSET Nat /\ IsFiniteSet(0 .. s)
        <5>1. TAKE s \in FreeSlots
        <5>2. s \in Int /\ 0 \in Int
          BY <2>1
        <5>3. QED
          BY <5>2, FS_Interval
      <4>2. QED
        BY <1>2, <4>1 DEF FiniteSubsetsOf
    <3>2. PICK least \in Below : \A other \in Below : <<other, least>> \notin Smaller
      BY <3>1, FS_StrictSubsetOrderingWellFounded, WFMin
    <3>3. PICK s \in FreeSlots : least = 0 .. s
      BY <3>2
    <3>4. ASSUME NEW t \in FreeSlots, t < s
          PROVE  FALSE
      <4>1. 0 .. t \in Below /\ 0 .. t \subseteq 0 .. s /\ 0 .. t # 0 .. s
        BY <2>1, <3>4
      <4>2. <<0 .. t, 0 .. s>> \in Smaller
        BY <2>1, <4>1 DEF StrictSubsetOrdering
      <4>3. QED
        BY <3>2, <3>3, <4>1, <4>2
    <3>5. QED
      BY <2>1, <3>4
  <2>3. FindSlot \in FreeSlots
    BY <1>2, <2>2 DEF FindSlot
  <2>4. QED
    BY <2>1, <2>3, OffsetFacts DEF FreeSlots, Found
<1>3. QED
  BY <1>1, <1>2

LEMMA ClosedFifo ==
  ASSUME fifos \in Seq(Seq(Offsets)), NEW fd \in -1 .. Len(fifos), NEW other,
         NEW closed, closed = ClosedBy(fd, other)
  PROVE  /\ closed \in Seq(Seq(Offsets)) /\ Len(closed) = Len(fifos)
         /\ \A f \in 1 .. Len(fifos) :
              closed[f] = IF f = fd /\ other # fd THEN <<>> ELSE fifos[f]
<1>1. CASE fd < 1 \/ other = fd
  BY <1>1 DEF ClosedBy
<1>2. CASE ~(fd < 1 \/ other = fd)
  <2>1. closed = [fifos EXCEPT ![fd] = <<>>] /\ fd \in 1 .. Len(fifos)
    BY <1>2 DEF ClosedBy
  <2>2. <<>> \in Seq(Offsets)
    OBVIOUS
  <2>3. QED
    BY <1>2, <2>1, <2>2, ExceptSeq
<1>3. QED
  BY <1>1, <1>2

-----------------------------------------------------------------------------
(* Sequences of offsets.                                                   *)

LEMMA EmptyTransit == Elements(<<>>) = {} /\ Injective(<<>>)
BY DEF Elements, Injective

LEMMA AppendedTransit ==
  ASSUME NEW t \in Seq(Offsets), NEW o \in Offsets
  PROVE  /\ Append(t, o) \in Seq(Offsets)
         /\ Elements(Append(t, o)) = Elements(t) \cup {o}
         /\ Injective(t) /\ o \notin Elements(t) => Injective(Append(t, o))
<1>1. /\ Append(t, o) \in Seq(Offsets) /\ Len(t) \in Nat /\ Len(Append(t, o)) = Len(t) + 1
      /\ \A i \in 1 .. Len(t) : Append(t, o)[i] = t[i]
      /\ Append(t, o)[Len(t) + 1] = o
  OBVIOUS
<1>2. Elements(Append(t, o)) = Elements(t) \cup {o}
  <2>1. Elements(Append(t, o)) \subseteq Elements(t) \cup {o}
    BY <1>1 DEF Elements
  <2>2. o \in Elements(Append(t, o))
    BY <1>1 DEF Elements
  <2>3. Elements(t) \subseteq Elements(Append(t, o))
    BY <1>1 DEF Elements
  <2>4. QED
    BY <2>1, <2>2, <2>3
<1>3. ASSUME Injective(t), o \notin Elements(t)
      PROVE  Injective(Append(t, o))
  BY <1>1, <1>3 DEF Injective, Elements
<1>4. QED
  BY <1>1, <1>2, <1>3

LEMMA TailOfTransit ==
  ASSUME NEW t \in Seq(Offsets), t # <<>>
  PROVE  /\ Head(t) \in Offsets /\ Tail(t) \in Seq(Offsets)
         /\ Elements(t) = Elements(Tail(t)) \cup {Head(t)}
         /\ Injective(t) => Injective(Tail(t)) /\ Head(t) \notin Elements(Tail(t))
<1>1. /\ Head(t) \in Offsets /\ Tail(t) \in Seq(Offsets)
      /\ Len(t) \in Nat \ {0} /\ Len(Tail(t)) = Len(t) - 1 /\ Head(t) = t[1]
      /\ \A i \in 1 .. Len(Tail(t)) : Tail(t)[i] = t[i + 1]
  BY HeadTailProperties
<1>2. Elements(t) = Elements(Tail(t)) \cup {Head(t)}
  <2>1. ASSUME NEW i \in 1 .. Len(t)
        PROVE  t[i] \in Elements(Tail(t)) \cup {Head(t)}
    <3>1. CASE i = 1
      BY <1>1, <3>1
    <3>2. CASE i # 1
      <4>1. i - 1 \in 1 .. Len(Tail(t)) /\ (i - 1) + 1 = i
        BY <1>1, <3>2
      <4>2. QED
        BY <1>1, <4>1 DEF Elements
    <3>3. QED
      BY <3>1, <3>2
  <2>2. Elements(Tail(t)) \cup {Head(t)} \subseteq Elements(t)
    BY <1>1 DEF Elements
  <2>3. QED
    BY <2>1, <2>2 DEF Elements
<1>3. ASSUME Injective(t)
      PROVE  Injective(Tail(t)) /\ Head(t) \notin Elements(Tail(t))
  <2>1. Injective(Tail(t))
    BY <1>1, <1>3 DEF Injective
  <2>2. Head(t) \notin Elements(Tail(t))
    BY <1>1, <1>3 DEF Injective, Elements
  <2>3. QED
    BY <2>1, <2>2
<1>4. QED
  BY <1>1, <1>2, <1>3

LEMMA SameHeadAndTail ==
  ASSUME NEW t \in Seq(Offsets), NEW u \in Seq(Offsets), t # <<>>, u # <<>>,
         Head(t) = Head(u), Tail(t) = Tail(u)
  PROVE  t = u
<1>1. /\ Len(t) \in Nat \ {0} /\ Len(u) \in Nat \ {0} /\ Len(t) = Len(u)
      /\ t[1] = u[1]
      /\ \A i \in 1 .. Len(t) - 1 : t[i + 1] = u[i + 1]
  <2>1. /\ Len(t) \in Nat \ {0} /\ Head(t) = t[1] /\ Len(Tail(t)) = Len(t) - 1
        /\ \A i \in 1 .. Len(t) - 1 : Tail(t)[i] = t[i + 1]
    BY HeadTailProperties
  <2>2. /\ Len(u) \in Nat \ {0} /\ Head(u) = u[1] /\ Len(Tail(u)) = Len(u) - 1
        /\ \A i \in 1 .. Len(u) - 1 : Tail(u)[i] = u[i + 1]
    BY HeadTailProperties
  <2>3. Len(t) = Len(u)
    <3>1. Len(Tail(t)) = Len(Tail(u))
      OBVIOUS
    <3>2. Len(t) - 1 = Len(u) - 1
      BY <2>1, <2>2, <3>1
    <3>3. Len(t) \in Nat /\ Len(u) \in Nat
      BY <2>1, <2>2
    <3>4. \A a, b \in Nat : a - 1 = b - 1 => a = b
      OBVIOUS
    <3>5. QED
      BY <3>2, <3>3, <3>4, Zenon
  <2>4. QED
    BY <2>1, <2>2, <2>3
<1>2. \A i \in 1 .. Len(t) : i = 1 \/ (i - 1 \in 1 .. Len(t) - 1 /\ (i - 1) + 1 = i)
  BY <1>1
<1>3. \A i \in 1 .. Len(t) : t[i] = u[i]
  BY <1>1, <1>2
<1>4. QED
  BY <1>1, <1>3, SeqEqual

(* What is on its way, whoever holds the FIFO.                             *)
Shape ==
  /\ Open \in Seq(Offsets) /\ InTransit \in Seq(Offsets)
  /\ p_fd > 0 => Open = fifos[p_fd]
  /\ c_fd > 0 => Open = fifos[c_fd]
  /\ p_fd <= 0 /\ c_fd <= 0 => Open = <<>>
  /\ c_pc # "print" => InTransit = Open
  /\ c_pc = "print" => /\ InTransit # <<>> /\ Head(InTransit) = c_offset
                       /\ Tail(InTransit) = Open

LEMMA TransitShape == Types /\ FifosHeld => Shape
<1> SUFFICES ASSUME Types, FifosHeld
             PROVE  Shape
  OBVIOUS
<1>1. /\ p_fd \in 0 .. Len(fifos) /\ c_fd \in -1 .. Len(fifos)
      /\ fifos \in Seq(Seq(Offsets)) /\ <<>> \in Seq(Offsets)
      /\ (c_pc = "print" => c_offset \in Offsets)
  BY DEF Types, FifosHeld
<1>2. Open \in Seq(Offsets)
  <2>1. CASE p_fd > 0
    BY <1>1, <2>1, ElementOfSeq DEF Open
  <2>2. CASE ~(p_fd > 0) /\ c_fd > 0
    BY <1>1, <2>2, ElementOfSeq DEF Open
  <2>3. CASE ~(p_fd > 0) /\ ~(c_fd > 0)
    BY <1>1, <2>3 DEF Open
  <2>4. QED
    BY <2>1, <2>2, <2>3
<1>3. p_fd > 0 => Open = fifos[p_fd]
  BY DEF Open
<1>4. c_fd > 0 => Open = fifos[c_fd]
  BY <1>1 DEF Open, FifosHeld
<1>5. p_fd <= 0 /\ c_fd <= 0 => Open = <<>>
  BY <1>1 DEF Open
<1>6. CASE c_pc = "print"
  <2>1. InTransit = <<c_offset>> \o Open /\ c_offset \in Offsets /\ <<c_offset>> \in Seq(Offsets)
    BY <1>1, <1>6 DEF InTransit
  <2>2. /\ InTransit \in Seq(Offsets) /\ Len(InTransit) = 1 + Len(Open)
        /\ InTransit[1] = c_offset
        /\ \A i \in 1 .. Len(Open) : InTransit[i + 1] = Open[i]
    BY <1>2, <2>1, ConcatProperties
  <2>3. InTransit # <<>> /\ Head(InTransit) = c_offset
    BY <1>2, <2>2
  <2>4. Tail(InTransit) = Open
    <3>1. /\ Tail(InTransit) \in Seq(Offsets) /\ Len(Tail(InTransit)) = Len(Open)
          /\ \A i \in 1 .. Len(Open) : Tail(InTransit)[i] = Open[i]
      BY <1>2, <2>2, <2>3, HeadTailProperties
    <3>2. QED
      BY <1>2, <3>1, SeqEqual
  <2>5. QED
    BY <1>2, <1>3, <1>4, <1>5, <1>6, <2>2, <2>3, <2>4 DEF Shape
<1>7. CASE c_pc # "print"
  <2>1. InTransit = Open
    BY <1>2, <1>7, ConcatEmptySeq DEF InTransit
  <2>2. QED
    BY <1>2, <1>3, <1>4, <1>5, <1>7, <2>1 DEF Shape
<1>8. QED
  BY <1>6, <1>7

(* The same of the next state.                                             *)
LEMMA NextShape == Types' /\ FifosHeld' => Shape'
BY TransitShape, PTL

-----------------------------------------------------------------------------
(* Every action preserves what does not depend on the order.               *)

LEMMA StartProducerControls ==
  ASSUME ControlInv, StartProducer
  PROVE  ControlInv'
<1> USE DEF StartProducer, ControlInv, consumerVars
<1>1. Types'
  BY SharedSlotsAssumption DEF Types
<1>2. FifosHeld'
  BY DEF FifosHeld, Types
<1>3. SlotsSetUp'
  BY DEF SlotsSetUp, FifosHeld, Types
<1>4. SentSoFar'
  <2>1. ASSUME NEW m \in sent
        PROVE  m[1] < p_runs'
    <3>1. m[1] \in Int /\ p_runs \in Int /\ p_runs' = p_runs + 1
      BY MessageParts DEF Types
    <3>2. m[1] <= p_runs
      BY <3>1 DEF SentSoFar
    <3>3. QED
      BY <3>1, <3>2
  <2>2. QED
    BY <2>1 DEF SentSoFar
<1>5. QED
  BY <1>1, <1>2, <1>3, <1>4

LEMMA MakeFifoControls ==
  ASSUME ControlInv, MakeFifo
  PROVE  ControlInv'
<1> USE DEF MakeFifo, ControlInv, consumerVars
<1>1. CASE path # 0
  <2>1. Types'
    BY <1>1 DEF Types
  <2>2. FifosHeld'
    BY <1>1 DEF FifosHeld, Types
  <2>3. SlotsSetUp' /\ SentSoFar'
    BY <1>1 DEF SlotsSetUp, SentSoFar, FifosHeld, Types
  <2>4. QED
    BY <2>1, <2>2, <2>3
<1>2. CASE path = 0
  <2>1. /\ fifos \in Seq(Seq(Offsets)) /\ fifos' = Append(fifos, <<>>)
        /\ <<>> \in Seq(Offsets) /\ path' = Len(fifos') /\ Len(fifos) \in Nat
    BY <1>2 DEF Types
  <2>2. /\ fifos' \in Seq(Seq(Offsets)) /\ Len(fifos') = Len(fifos) + 1
        /\ \A f \in 1 .. Len(fifos) : fifos'[f] = fifos[f]
        /\ fifos'[Len(fifos')] = <<>>
    BY <2>1
  <2>3. \A f \in 1 .. Len(fifos') : fifos'[f] # <<>> => f \in 1 .. Len(fifos) /\ fifos[f] # <<>>
    BY <2>1, <2>2
  <2>4. Types'
    <3>1. path' \in 0 .. Len(fifos') /\ p_fd' \in 0 .. Len(fifos') /\ c_fd' \in -1 .. Len(fifos')
      BY <2>1, <2>2 DEF Types
    <3>2. QED
      BY <2>2, <3>1 DEF Types
  <2>5. FifosHeld'
    BY <2>1, <2>2, <2>3 DEF FifosHeld, Types
  <2>6. SlotsSetUp'
    BY <2>3 DEF SlotsSetUp
  <2>7. SentSoFar'
    BY DEF SentSoFar
  <2>8. QED
    BY <2>4, <2>5, <2>6, <2>7
<1>3. QED
  BY <1>1, <1>2

LEMMA OpenFifoControls ==
  ASSUME ControlInv, OpenFifo
  PROVE  ControlInv'
<1> USE DEF OpenFifo, ControlInv, sharedVars, consumerVars
<1>1. Types'
  BY SharedSlotsAssumption DEF Types
<1>2. FifosHeld'
  BY DEF FifosHeld, Types
<1>3. SlotsSetUp'
  BY OffsetFacts DEF SlotsSetUp, Offsets
<1>4. SentSoFar'
  BY DEF SentSoFar
<1>5. QED
  BY <1>1, <1>2, <1>3, <1>4

(* One more slot is FREE; after the last one all are.                      *)
LEMMA ResetSlotEffect ==
  ASSUME ControlInv, ResetSlot
  PROVE  /\ resets \in Offsets /\ resets' = resets + 1 /\ resets' # resets
         /\ slots' \in [Offsets -> Messages \cup {ZERO, FREE}]
         /\ \A s \in Offsets : slots'[s] = IF s = resets THEN FREE ELSE slots[s]
         /\ \A s \in Offsets : s < resets' => slots'[s] = FREE
         /\ \/ /\ resets' < TOTAL_SLOTS /\ p_pc' = "reset" /\ itr' = itr
            \/ /\ p_pc' = "loop" /\ itr' = Iterations
               /\ \A s \in Offsets : slots'[s] = FREE
<1>1. /\ p_pc = "reset" /\ resets \in 0 .. TOTAL_SLOTS /\ resets < TOTAL_SLOTS
      /\ slots \in [Offsets -> Messages \cup {ZERO, FREE}]
      /\ \A s \in Offsets : s < resets => slots[s] = FREE
      /\ slots' = [slots EXCEPT ![resets] = FREE] /\ resets' = resets + 1
  BY DEF ResetSlot, ControlInv, Types, SlotsSetUp
<1>2. resets \in Offsets /\ resets \in Int /\ TOTAL_SLOTS \in Int
  BY <1>1, OffsetFacts DEF Offsets
<1>3. /\ slots' \in [Offsets -> Messages \cup {ZERO, FREE}]
      /\ \A s \in Offsets : slots'[s] = IF s = resets THEN FREE ELSE slots[s]
  BY <1>1, <1>2
<1>4. \A s \in Offsets : s < resets' => slots'[s] = FREE
  BY <1>1, <1>2, <1>3 DEF Offsets
<1>5. CASE resets' = TOTAL_SLOTS
  <2>1. \A s \in Offsets : s < resets'
    BY <1>2, <1>5 DEF Offsets
  <2>2. p_pc' = "loop" /\ itr' = Iterations
    BY <1>5 DEF ResetSlot
  <2>3. QED
    BY <1>1, <1>2, <1>3, <1>4, <2>1, <2>2
<1>6. CASE resets' # TOTAL_SLOTS
  <2>1. resets' < TOTAL_SLOTS
    BY <1>1, <1>2, <1>6
  <2>2. p_pc' = "reset" /\ itr' = itr
    BY <1>1, <1>6 DEF ResetSlot
  <2>3. QED
    BY <1>1, <1>2, <1>3, <1>4, <2>1, <2>2
<1>7. QED
  BY <1>5, <1>6

LEMMA ResetSlotControls ==
  ASSUME ControlInv, ResetSlot
  PROVE  ControlInv'
<1> USE DEF ControlInv, consumerVars
<1>1. /\ p_pc = "reset" /\ p_pc' \in {"reset", "loop"}
      /\ UNCHANGED <<segment, fifos, path, p_runs, p_fd, offset, consumerVars, sent, received>>
  BY ResetSlotEffect DEF ResetSlot
<1>2. resets' \in 0 .. TOTAL_SLOTS /\ itr' \in 0 .. Iterations
  <2>1. resets' \in 0 .. TOTAL_SLOTS
    BY ResetSlotEffect, OffsetFacts DEF Offsets
  <2>2. itr' \in {itr, Iterations}
    BY ResetSlotEffect
  <2>3. QED
    BY <2>1, <2>2, SharedSlotsAssumption DEF Types
<1>3. Types'
  BY <1>1, <1>2, ResetSlotEffect DEF Types
<1>4. FifosHeld'
  BY <1>1 DEF FifosHeld
<1>5. SlotsSetUp'
  <2>1. ASSUME NEW s \in Offsets, slots[s] # ZERO \/ p_pc' = "loop"
        PROVE  slots'[s] # ZERO
    BY <2>1, ResetSlotEffect, MessageFacts
  <2>2. QED
    BY <1>1, <2>1, ResetSlotEffect DEF SlotsSetUp
<1>6. SentSoFar'
  BY <1>1 DEF SentSoFar
<1>7. QED
  BY <1>3, <1>4, <1>5, <1>6

(* The producer finds a slot, or skips the message.                        *)
LEMMA WriteMessageEffect ==
  ASSUME Types, FifosHeld, WriteMessage
  PROVE  /\ itr' = itr - 1 /\ itr' \in 0 .. Iterations - 1
         /\ <<p_runs, itr'>> \in Messages
         /\ \/ p_pc' = "loop" /\ UNCHANGED <<slots, offset>>
            \/ /\ p_pc' = "send" /\ offset' \in Offsets /\ slots[offset'] = FREE
               /\ slots' = [slots EXCEPT ![offset'] = <<p_runs, itr'>>]
<1>1. /\ itr \in 0 .. Iterations /\ itr > 0 /\ itr' = itr - 1 /\ p_pc = "loop"
      /\ p_runs \in 0 .. Producers /\ p_runs >= 1
  BY DEF Types, FifosHeld, WriteMessage
<1>2. itr' \in 0 .. Iterations - 1 /\ p_runs \in 1 .. Producers
  BY <1>1, SharedSlotsAssumption
<1>3. CASE Found(FindSlot)
  BY <1>1, <1>2, <1>3, FirstFree, MessageFacts DEF WriteMessage
<1>4. CASE ~Found(FindSlot)
  BY <1>1, <1>2, <1>4, MessageFacts DEF WriteMessage
<1>5. QED
  BY <1>3, <1>4

LEMMA WriteMessageControls ==
  ASSUME ControlInv, WriteMessage
  PROVE  ControlInv'
<1> USE DEF ControlInv, consumerVars
<1> DEFINE message == <<p_runs, itr'>>
<1>1. /\ p_pc = "loop" /\ itr > 0
      /\ UNCHANGED <<segment, fifos, path, p_runs, p_fd, resets, c_pc, c_runs, c_fd, c_offset, sent, received>>
  BY DEF WriteMessage
<1>2. /\ itr' = itr - 1 /\ itr' \in 0 .. Iterations - 1 /\ message \in Messages
      /\ itr \in Int /\ itr' \in 0 .. Iterations
  BY WriteMessageEffect, SharedSlotsAssumption DEF Types
<1>sent. p_runs \in Int /\ \A m \in sent : m[1] \in Int /\ m[2] \in Int
  BY MessageParts DEF Types
<1>3. FifosHeld'
  BY <1>1, <1>2, WriteMessageEffect DEF FifosHeld
<1>4. CASE p_pc' = "loop" /\ UNCHANGED <<slots, offset>>
  <2>1. Types'
    BY <1>1, <1>2, <1>4 DEF Types
  <2>2. SlotsSetUp'
    BY <1>1, <1>4 DEF SlotsSetUp
  <2>3. SentSoFar'
    <3>1. ASSUME NEW m \in sent, m[1] = p_runs
          PROVE  m[2] >= itr'
      BY <1>1, <1>2, <3>1, <1>sent DEF SentSoFar
    <3>2. QED
      BY <1>1, <1>4, <3>1 DEF SentSoFar
  <2>4. QED
    BY <1>3, <2>1, <2>2, <2>3
<1>5. CASE /\ p_pc' = "send" /\ offset' \in Offsets /\ slots[offset'] = FREE
           /\ slots' = [slots EXCEPT ![offset'] = message]
  <2>1. Types'
    <3>1. slots' \in [Offsets -> Messages \cup {ZERO, FREE}]
      BY <1>2, <1>5 DEF Types
    <3>2. QED
      BY <1>1, <1>2, <1>5, <3>1, OffsetFacts DEF Types
  <2>2. SlotsSetUp'
    <3>1. \A s \in Offsets : slots[s] # ZERO
      BY <1>1 DEF SlotsSetUp
    <3>2. \A s \in Offsets : slots'[s] # ZERO
      BY <1>2, <1>5, <3>1, MessageFacts DEF Types
    <3>3. QED
      BY <1>5, <3>2 DEF SlotsSetUp
  <2>3. SentSoFar'
    <3>1. ASSUME NEW m \in sent, m[1] = p_runs
          PROVE  m[2] > itr'
      BY <1>1, <1>2, <3>1, <1>sent DEF SentSoFar
    <3>2. QED
      BY <1>1, <1>2, <1>5, <3>1, SharedSlotsAssumption DEF SentSoFar
  <2>4. QED
    BY <1>3, <2>1, <2>2, <2>3
<1>6. QED
  BY <1>4, <1>5, WriteMessageEffect

(* The FIFO of the producer gets the offset.                               *)
LEMMA SendOffsetEffect ==
  ASSUME Types, FifosHeld, SendOffset
  PROVE  /\ p_fd \in 1 .. Len(fifos) /\ offset \in Offsets
         /\ fifos' \in Seq(Seq(Offsets)) /\ Len(fifos') = Len(fifos)
         /\ \A f \in 1 .. Len(fifos) :
              fifos'[f] = IF f = p_fd THEN Append(fifos[p_fd], offset) ELSE fifos[f]
<1>1. /\ p_pc = "send" /\ p_fd > 0 /\ p_fd \in 0 .. Len(fifos) /\ fifos \in Seq(Seq(Offsets))
      /\ offset \in Offsets
  BY DEF SendOffset, Types, FifosHeld
<1>2. p_fd \in 1 .. Len(fifos)
  BY <1>1
<1>3. Append(fifos[p_fd], offset) \in Seq(Offsets)
  BY <1>1, <1>2, ElementOfSeq, AppendProperties
<1>4. fifos' = [fifos EXCEPT ![p_fd] = Append(fifos[p_fd], offset)]
  BY DEF SendOffset
<1>5. QED
  BY <1>1, <1>2, <1>3, <1>4, ExceptSeq

LEMMA SendOffsetControls ==
  ASSUME ControlInv, SendOffset
  PROVE  ControlInv'
<1> USE DEF ControlInv, consumerVars
<1>1. /\ p_pc = "send" /\ p_pc' = "loop" /\ c_fd = p_fd /\ sent' = sent \cup {<<p_runs, itr>>}
      /\ UNCHANGED <<segment, slots, path, p_runs, p_fd, itr, offset, resets, received>>
      /\ UNCHANGED <<c_pc, c_runs, c_fd, c_offset>>
  BY DEF SendOffset
<1>2. <<p_runs, itr>> \in Messages /\ itr \in Int /\ itr < Iterations
  <2>1. p_runs \in 1 .. Producers /\ itr \in 0 .. Iterations - 1 /\ itr \in Int
    BY <1>1, SharedSlotsAssumption DEF Types, FifosHeld, SentSoFar
  <2>2. QED
    BY <1>1, <2>1, MessageFacts DEF SentSoFar
<1>3. Types'
  BY <1>1, <1>2, SendOffsetEffect DEF Types
<1>4. FifosHeld'
  BY <1>1, SendOffsetEffect DEF FifosHeld
<1>5. SlotsSetUp'
  BY <1>1 DEF SlotsSetUp
<1>6. SentSoFar'
  <2>1. ASSUME NEW m \in sent'
        PROVE  m[1] < p_runs \/ (m[1] = p_runs /\ m[2] >= itr)
    <3>1. CASE m \in sent
      BY <1>1, <1>2, <3>1, MessageParts DEF SentSoFar, Types
    <3>2. CASE m = <<p_runs, itr>>
      BY <1>2, <3>2
    <3>3. QED
      BY <1>1, <3>1, <3>2
  <2>2. QED
    BY <1>1, <2>1 DEF SentSoFar
<1>7. QED
  BY <1>3, <1>4, <1>5, <1>6

(* The producer is gone, or the consumer: their FIFO is closed.            *)
LeaveProducer ==
  /\ fifos' = ClosedBy(p_fd, c_fd)
  /\ p_fd' = 0 /\ p_pc' = "off" /\ path' \in {path, 0}
  /\ UNCHANGED <<segment, slots, p_runs, itr, offset, resets, c_pc, c_runs, c_fd, c_offset>>
  /\ UNCHANGED <<sent, received>>

LEMMA ProducerLeaves == BrokenPipe \/ EndProducer \/ KillProducer => LeaveProducer
BY DEF BrokenPipe, EndProducer, KillProducer, LeaveProducer, consumerVars

LEMMA LeaveProducerControls ==
  ASSUME ControlInv, LeaveProducer
  PROVE  ControlInv'
<1> USE DEF ControlInv, LeaveProducer
<1>1. /\ fifos' \in Seq(Seq(Offsets)) /\ Len(fifos') = Len(fifos)
      /\ \A f \in 1 .. Len(fifos) :
           fifos'[f] = IF f = p_fd /\ c_fd # p_fd THEN <<>> ELSE fifos[f]
  <2>1. fifos \in Seq(Seq(Offsets)) /\ p_fd \in -1 .. Len(fifos)
    BY DEF Types
  <2>2. QED
    BY <2>1, ClosedFifo
<1>2. Types'
  BY <1>1 DEF Types
<1>3. FifosHeld'
  BY <1>1 DEF FifosHeld, Types
<1>4. SlotsSetUp'
  BY <1>1 DEF SlotsSetUp
<1>5. SentSoFar'
  BY DEF SentSoFar
<1>6. QED
  BY <1>2, <1>3, <1>4, <1>5

LEMMA StartConsumerControls ==
  ASSUME ControlInv, StartConsumer
  PROVE  ControlInv'
<1> USE DEF StartConsumer, ControlInv, sharedVars, producerVars
<1>1. Types'
  BY SharedSlotsAssumption DEF Types
<1>2. FifosHeld'
  <2>1. /\ c_fd = 0 /\ c_fd' # 0 /\ path \in Nat /\ p_fd \in Nat /\ Len(fifos) \in Nat
        /\ c_fd' \in {path, -1} /\ c_pc' = "read" /\ c_runs \in Nat /\ c_runs' = c_runs + 1
        /\ (path # 0 => c_fd' = path)
        /\ UNCHANGED <<fifos, path, p_pc, p_runs, p_fd>>
    BY DEF FifosHeld, Types
  <2>2. \A f \in 1 .. Len(fifos) : fifos[f] # <<>> => f = p_fd
    BY <2>1 DEF FifosHeld
  <2>3. p_fd > 0 => path = p_fd /\ c_fd' \in {-1, 0, p_fd}
    BY <2>1 DEF FifosHeld
  <2>4. QED
    BY <2>1, <2>2, <2>3 DEF FifosHeld
<1>3. SlotsSetUp'
  BY DEF SlotsSetUp
<1>4. SentSoFar'
  BY DEF SentSoFar
<1>5. QED
  BY <1>1, <1>2, <1>3, <1>4

LEMMA ReadOffsetEffect ==
  ASSUME Types, FifosHeld, ReadOffset
  PROVE  /\ c_fd \in 1 .. Len(fifos) /\ fifos[c_fd] \in Seq(Offsets) /\ fifos[c_fd] # <<>>
         /\ c_offset' = Head(fifos[c_fd]) /\ c_offset' \in Offsets
         /\ fifos' \in Seq(Seq(Offsets)) /\ Len(fifos') = Len(fifos)
         /\ \A f \in 1 .. Len(fifos) :
              fifos'[f] = IF f = c_fd THEN Tail(fifos[c_fd]) ELSE fifos[f]
<1>1. fifos \in Seq(Seq(Offsets)) /\ c_fd \in 1 .. Len(fifos)
  BY DEF ReadOffset, Types
<1>2. fifos[c_fd] \in Seq(Offsets) /\ fifos[c_fd] # <<>>
  BY <1>1, ElementOfSeq DEF ReadOffset, HasData
<1>3. Head(fifos[c_fd]) \in Offsets /\ Tail(fifos[c_fd]) \in Seq(Offsets)
  BY <1>2, HeadTailProperties
<1>4. fifos' = [fifos EXCEPT ![c_fd] = Tail(fifos[c_fd])] /\ c_offset' = Head(fifos[c_fd])
  BY DEF ReadOffset
<1>5. QED
  BY <1>1, <1>2, <1>3, <1>4, ExceptSeq

LEMMA ReadOffsetControls ==
  ASSUME ControlInv, ReadOffset
  PROVE  ControlInv'
<1> USE DEF ControlInv, producerVars
<1>1. /\ c_pc = "read" /\ c_pc' = "print" /\ c_fd > 0
      /\ UNCHANGED <<segment, slots, path, p_pc, p_runs, p_fd, itr, offset, resets>>
      /\ UNCHANGED <<c_runs, c_fd, sent, received>>
  BY DEF ReadOffset
<1>2. Types'
  BY <1>1, ReadOffsetEffect DEF Types
<1>3. FifosHeld'
  BY <1>1, ReadOffsetEffect DEF FifosHeld
<1>4. SlotsSetUp'
  <2>1. \A s \in Offsets : slots[s] # ZERO
    BY ReadOffsetEffect DEF SlotsSetUp
  <2>2. QED
    BY <1>1, <2>1 DEF SlotsSetUp
<1>5. SentSoFar'
  BY <1>1 DEF SentSoFar
<1>6. QED
  BY <1>2, <1>3, <1>4, <1>5

LEMMA PrintMessageControls ==
  ASSUME ControlInv, PrintMessage
  PROVE  ControlInv'
<1> USE DEF PrintMessage, ControlInv, sharedVars, producerVars
<1>1. slots[c_offset] \in Messages \cup {FREE}
  BY DEF Types, FifosHeld, SlotsSetUp
<1>2. received' \in Seq(Messages \cup {FREE})
  BY <1>1 DEF Types
<1>3. Types'
  BY <1>2 DEF Types
<1>4. FifosHeld'
  BY DEF FifosHeld
<1>5. SlotsSetUp' /\ SentSoFar'
  BY DEF SlotsSetUp, SentSoFar
<1>6. QED
  BY <1>3, <1>4, <1>5

LEMMA FreeSlotEffect ==
  ASSUME Types, FifosHeld, FreeSlot
  PROVE  /\ slots' \in [Offsets -> Messages \cup {ZERO, FREE}]
         /\ c_offset \in Offsets
         /\ \A s \in Offsets : slots'[s] = IF s = c_offset THEN FREE ELSE slots[s]
BY DEF FreeSlot, Types, FifosHeld, Freed

LEMMA FreeSlotControls ==
  ASSUME ControlInv, FreeSlot
  PROVE  ControlInv'
<1> USE DEF ControlInv
<1>1. /\ c_pc = "free" /\ c_pc' = "read"
      /\ UNCHANGED <<segment, fifos, path, p_pc, p_runs, p_fd, itr, offset, resets>>
      /\ UNCHANGED <<c_runs, c_fd, c_offset, sent, received>>
  BY DEF FreeSlot, producerVars
<1>2. Types'
  BY <1>1, FreeSlotEffect DEF Types
<1>3. FifosHeld'
  BY <1>1 DEF FifosHeld
<1>4. SlotsSetUp'
  <2>1. \A s \in Offsets : slots'[s] # ZERO
    BY <1>1, FreeSlotEffect, MessageFacts DEF SlotsSetUp
  <2>2. QED
    BY <1>1, <2>1, FreeSlotEffect DEF SlotsSetUp
<1>5. SentSoFar'
  BY <1>1 DEF SentSoFar
<1>6. QED
  BY <1>2, <1>3, <1>4, <1>5

LEMMA KillConsumerControls ==
  ASSUME ControlInv, KillConsumer
  PROVE  ControlInv'
<1> USE DEF ControlInv
<1>1. /\ c_pc' = "off" /\ c_fd' = 0 /\ fifos' = ClosedBy(c_fd, p_fd)
      /\ UNCHANGED <<segment, slots, path, p_pc, p_runs, p_fd, itr, offset, resets>>
      /\ UNCHANGED <<c_runs, c_offset, sent, received>>
  BY DEF KillConsumer, producerVars
<1>2. /\ fifos' \in Seq(Seq(Offsets)) /\ Len(fifos') = Len(fifos)
      /\ \A f \in 1 .. Len(fifos) :
           fifos'[f] = IF f = c_fd /\ p_fd # c_fd THEN <<>> ELSE fifos[f]
  <2>1. fifos \in Seq(Seq(Offsets)) /\ c_fd \in -1 .. Len(fifos)
    BY DEF Types
  <2>2. QED
    BY <1>1, <2>1, ClosedFifo
<1>3. Types'
  BY <1>1, <1>2 DEF Types
<1>4. FifosHeld'
  BY <1>1, <1>2 DEF FifosHeld, Types
<1>5. SlotsSetUp'
  BY <1>1, <1>2 DEF SlotsSetUp
<1>6. SentSoFar'
  BY <1>1 DEF SentSoFar
<1>7. QED
  BY <1>3, <1>4, <1>5, <1>6

-----------------------------------------------------------------------------
(* What every action does to what is on its way.                           *)

LEMMA BothShapes ==
  ASSUME ControlInv, ControlInv'
  PROVE  Shape /\ Shape'
<1>1. Types /\ FifosHeld /\ Types' /\ FifosHeld'
  BY DEF ControlInv
<1>2. QED
  BY <1>1, TransitShape, NextShape

LEMMA SameTransit ==
  ASSUME Open' = Open, c_offset' = c_offset, c_pc' = "print" <=> c_pc = "print"
  PROVE  InTransit' = InTransit
BY DEF InTransit

LEMMA StartProducerTransit ==
  ASSUME ControlInv, StartProducer
  PROVE  InTransit' = InTransit
<1>1. Open' = Open
  BY DEF Open, StartProducer, consumerVars
<1>2. QED
  BY <1>1, SameTransit DEF StartProducer, consumerVars

LEMMA MakeFifoTransit ==
  ASSUME ControlInv, MakeFifo
  PROVE  InTransit' = InTransit
<1>1. /\ p_fd \in 0 .. Len(fifos) /\ c_fd \in -1 .. Len(fifos)
      /\ fifos \in Seq(Seq(Offsets)) /\ UNCHANGED <<p_fd, c_fd, c_pc, c_offset>>
  BY DEF ControlInv, Types, MakeFifo, consumerVars
<1>2. \A f \in 1 .. Len(fifos) : fifos'[f] = fifos[f]
  <2>1. CASE path = 0
    <3>1. fifos' = Append(fifos, <<>>) /\ <<>> \in Seq(Offsets)
      BY <2>1 DEF MakeFifo
    <3>2. QED
      BY <1>1, <3>1
  <2>2. CASE path # 0
    BY <2>2 DEF MakeFifo
  <2>3. QED
    BY <2>1, <2>2
<1>3. Open' = Open
  BY <1>1, <1>2 DEF Open
<1>4. QED
  BY <1>1, <1>3, SameTransit

LEMMA OpenFifoTransit ==
  ASSUME ControlInv, OpenFifo
  PROVE  InTransit' = InTransit
<1>1. p_fd = 0 /\ c_fd > 0 /\ p_fd' = c_fd /\ UNCHANGED <<fifos, c_fd, c_pc, c_offset>>
  BY DEF ControlInv, Types, FifosHeld, OpenFifo, sharedVars, consumerVars
<1>2. Open' = Open
  BY <1>1 DEF Open
<1>3. QED
  BY <1>1, <1>2, SameTransit

LEMMA ResetSlotTransit ==
  ASSUME ControlInv, ResetSlot
  PROVE  InTransit' = InTransit
<1>1. Open' = Open
  BY DEF Open, ResetSlot, consumerVars
<1>2. QED
  BY <1>1, SameTransit DEF ResetSlot, consumerVars

LEMMA WriteMessageTransit ==
  ASSUME ControlInv, WriteMessage
  PROVE  InTransit' = InTransit
<1>1. Open' = Open
  BY DEF Open, WriteMessage, consumerVars
<1>2. QED
  BY <1>1, SameTransit DEF WriteMessage, consumerVars

LEMMA SendOffsetTransit ==
  ASSUME ControlInv, SendOffset
  PROVE  offset \in Offsets /\ InTransit' = Append(InTransit, offset)
<1>1. Shape /\ Shape'
  BY SendOffsetControls, BothShapes
<1>2. /\ p_fd > 0 /\ UNCHANGED <<p_fd, c_fd, c_pc, c_offset>>
      /\ p_fd \in 1 .. Len(fifos) /\ offset \in Offsets
  BY SendOffsetEffect DEF ControlInv, Types, FifosHeld, SendOffset, consumerVars
<1>3. fifos'[p_fd] = Append(fifos[p_fd], offset)
  BY <1>2, SendOffsetEffect DEF ControlInv
<1>4. Open \in Seq(Offsets) /\ Open' = Append(Open, offset)
  BY <1>1, <1>2, <1>3 DEF Shape
<1>5. CASE c_pc # "print"
  BY <1>1, <1>2, <1>4, <1>5 DEF Shape
<1>6. CASE c_pc = "print"
  <2>1. c_offset \in Offsets /\ <<c_offset>> \in Seq(Offsets) /\ <<offset>> \in Seq(Offsets)
    BY <1>2, <1>6 DEF ControlInv, FifosHeld
  <2>2. InTransit = <<c_offset>> \o Open /\ InTransit' = <<c_offset>> \o Append(Open, offset)
    BY <1>2, <1>4, <1>6 DEF InTransit
  <2>3. InTransit' = (<<c_offset>> \o Open) \o <<offset>>
    BY <1>4, <2>1, <2>2, AppendIsConcat, ConcatAssociative
  <2>4. Append(InTransit, offset) = InTransit \o <<offset>>
    BY <1>1, <1>2, AppendIsConcat DEF Shape
  <2>5. QED
    BY <1>2, <2>2, <2>3, <2>4
<1>7. QED
  BY <1>5, <1>6

LEMMA LeaveProducerTransit ==
  ASSUME ControlInv, LeaveProducer
  PROVE  InTransit' = InTransit \/ InTransit' = <<>>
<1>1. Shape /\ Shape'
  BY LeaveProducerControls, BothShapes
<1>2. /\ p_fd \in 0 .. Len(fifos) /\ c_fd \in -1 .. Len(fifos) /\ Len(fifos) \in Nat
      /\ p_fd' = 0 /\ UNCHANGED <<c_fd, c_pc, c_offset>>
  BY DEF ControlInv, Types, LeaveProducer
<1>3. CASE p_fd = 0 \/ c_fd = p_fd
  <2>1. fifos' = fifos
    BY <1>2, <1>3 DEF LeaveProducer, ClosedBy
  <2>2. Open' = Open
    BY <1>2, <1>3, <2>1 DEF Open
  <2>3. QED
    BY <1>2, <2>2, SameTransit
<1>4. CASE p_fd > 0 /\ c_fd # p_fd
  <2>1. c_fd \in {-1, 0} /\ c_pc # "print"
    BY <1>2, <1>4 DEF ControlInv, FifosHeld
  <2>2. QED
    BY <1>1, <1>2, <2>1 DEF Shape
<1>5. QED
  BY <1>2, <1>3, <1>4

LEMMA StartConsumerTransit ==
  ASSUME ControlInv, StartConsumer
  PROVE  InTransit' = InTransit
<1>1. /\ p_fd \in 0 .. Len(fifos) /\ path \in 0 .. Len(fifos) /\ Len(fifos) \in Nat
      /\ c_fd = 0 /\ c_pc # "print" /\ c_pc' # "print"
      /\ c_fd' = (IF path # 0 THEN path ELSE -1) /\ UNCHANGED <<fifos, p_fd, c_offset>>
  BY DEF ControlInv, Types, FifosHeld, StartConsumer, sharedVars, producerVars
<1>2. Open' = Open
  <2>1. CASE p_fd > 0
    BY <1>1, <2>1 DEF Open
  <2>2. CASE p_fd = 0 /\ path # 0
    <3>1. path \in 1 .. Len(fifos) /\ fifos[path] = <<>>
      BY <1>1, <2>2 DEF ControlInv, FifosHeld
    <3>2. QED
      BY <1>1, <2>2, <3>1 DEF Open
  <2>3. CASE p_fd = 0 /\ path = 0
    BY <1>1, <2>3 DEF Open
  <2>4. QED
    BY <1>1, <2>1, <2>2, <2>3
<1>3. QED
  BY <1>1, <1>2, SameTransit

LEMMA ReadOffsetTransit ==
  ASSUME ControlInv, ReadOffset
  PROVE  InTransit' = InTransit
<1>1. Shape /\ Shape'
  BY ReadOffsetControls, BothShapes
<1>2. c_fd > 0 /\ c_fd' = c_fd /\ c_pc = "read" /\ c_pc' = "print"
  BY DEF ReadOffset
<1>3. /\ c_fd \in 1 .. Len(fifos) /\ fifos[c_fd] # <<>> /\ fifos[c_fd] \in Seq(Offsets)
      /\ c_offset' = Head(fifos[c_fd]) /\ fifos'[c_fd] = Tail(fifos[c_fd])
  BY ReadOffsetEffect DEF ControlInv
<1>4. InTransit = fifos[c_fd] /\ InTransit' \in Seq(Offsets) /\ InTransit' # <<>>
  BY <1>1, <1>2 DEF Shape
<1>5. Head(InTransit') = Head(InTransit) /\ Tail(InTransit') = Tail(InTransit)
  BY <1>1, <1>2, <1>3, <1>4 DEF Shape
<1>6. QED
  BY <1>3, <1>4, <1>5, SameHeadAndTail

LEMMA PrintMessageTransit ==
  ASSUME ControlInv, PrintMessage
  PROVE  /\ InTransit # <<>> /\ c_offset = Head(InTransit)
         /\ InTransit' = Tail(InTransit)
<1>1. Shape /\ Shape'
  BY PrintMessageControls, BothShapes
<1>2. Open' = Open
  BY DEF Open, PrintMessage, sharedVars, producerVars
<1>3. QED
  BY <1>1, <1>2 DEF Shape, PrintMessage

LEMMA FreeSlotTransit ==
  ASSUME ControlInv, FreeSlot
  PROVE  InTransit' = InTransit
<1>1. Open' = Open
  BY DEF Open, FreeSlot, producerVars
<1>2. QED
  BY <1>1, SameTransit DEF FreeSlot

(* A consumer that is killed may take the offset that it was printing with *)
(* it, and, if nobody else holds the FIFO, all the others.                 *)
LEMMA KillConsumerTransit ==
  ASSUME ControlInv, KillConsumer
  PROVE  /\ c_pc = "print" => InTransit # <<>> /\ Head(InTransit) = c_offset
         /\ p_fd > 0 => InTransit' = IF c_pc = "print" THEN Tail(InTransit) ELSE InTransit
         /\ p_fd <= 0 => InTransit' = <<>>
<1>1. Shape /\ Shape'
  BY KillConsumerControls, BothShapes
<1>2. /\ p_fd \in 0 .. Len(fifos) /\ c_fd \in -1 .. Len(fifos)
      /\ p_fd' = p_fd /\ c_fd' = 0 /\ c_pc' # "print" /\ fifos' = ClosedBy(c_fd, p_fd)
      /\ (c_pc = "print" => c_fd > 0)
  BY DEF ControlInv, Types, FifosHeld, KillConsumer, producerVars
<1>3. CASE p_fd > 0
  <2>1. c_fd \in {-1, 0, p_fd}
    BY <1>3 DEF ControlInv, FifosHeld
  <2>2. fifos' = fifos
    BY <1>2, <2>1 DEF ClosedBy
  <2>3. Open' = Open
    BY <1>2, <1>3, <2>2 DEF Open
  <2>4. QED
    BY <1>1, <1>2, <1>3, <2>3 DEF Shape
<1>4. CASE p_fd <= 0
  BY <1>1, <1>2, <1>4 DEF Shape
<1>5. QED
  BY <1>2, <1>3, <1>4

-----------------------------------------------------------------------------
(* The slots that are lost.                                                *)

LEMMA EndedFacts == ControlInv => Ended \in Nat
BY DEF ControlInv, Types, FifosHeld, Ended

LEMMA LostFacts == LostSlots \subseteq Offsets /\ Cardinality(LostSlots) \in Nat
<1>1. LostSlots \subseteq Offsets
  BY DEF LostSlots
<1>2. QED
  BY <1>1, OffsetFacts, FS_Subset, FS_CardinalityType

LEMMA NoMoreLost ==
  ASSUME ControlInv, FewLost, p_pc \in {"loop", "send"}, Ended' = Ended, LostSlots' \subseteq LostSlots
  PROVE  FewLost'
<1>1. IsFiniteSet(LostSlots) /\ LostSlots' \in SUBSET LostSlots
  BY LostFacts, OffsetFacts, FS_Subset
<1>2. Cardinality(LostSlots') <= Cardinality(LostSlots) /\ Cardinality(LostSlots') \in Nat
  BY <1>1, FS_Subset, FS_CardinalityType
<1>3. Cardinality(LostSlots) <= Ended /\ Cardinality(LostSlots) \in Nat
  BY LostFacts DEF FewLost
<1>4. QED
  BY <1>2, <1>3, EndedFacts DEF FewLost

(* When the producer has set all slots to FREE, none is lost.              *)
LEMMA ResetSlotLost ==
  ASSUME ControlInv, ControlInv', ResetSlot
  PROVE  FewLost'
<1>1. CASE p_pc' = "reset"
  BY <1>1 DEF FewLost
<1>2. CASE \A s \in Offsets : slots'[s] = FREE
  <2>1. FreeSlots' = Offsets
    BY <1>2 DEF FreeSlots
  <2>2. LostSlots' = {}
    BY <2>1 DEF LostSlots
  <2>3. (ControlInv => Ended \in Nat)'
    BY EndedFacts, PTL
  <2>4. QED
    BY <2>2, <2>3, FS_EmptySet DEF FewLost
<1>3. QED
  BY <1>1, <1>2, ResetSlotEffect

LEMMA WriteMessageLost ==
  ASSUME ControlInv, FewLost, WriteMessage
  PROVE  FewLost'
<1>1. /\ p_pc = "loop" /\ InTransit' = InTransit
      /\ UNCHANGED <<c_pc, c_runs, c_offset>>
  BY WriteMessageTransit DEF WriteMessage, consumerVars
<1>2. Ended' = Ended
  BY <1>1 DEF Ended
<1>3. LostSlots' \subseteq LostSlots
  <2>1. CASE p_pc' = "loop" /\ UNCHANGED <<slots, offset>>
    BY <1>1, <2>1 DEF LostSlots, FreeSlots
  <2>2. CASE /\ p_pc' = "send" /\ offset' \in Offsets /\ slots[offset'] = FREE
             /\ slots' = [slots EXCEPT ![offset'] = <<p_runs, itr'>>]
    <3>1. \A s \in Offsets : s # offset' => slots'[s] = slots[s]
      BY <2>2 DEF ControlInv, Types
    <3>2. QED
      BY <1>1, <2>2, <3>1 DEF LostSlots, FreeSlots
  <2>3. QED
    BY <2>1, <2>2, WriteMessageEffect DEF ControlInv
<1>4. QED
  BY <1>1, <1>2, <1>3, NoMoreLost

LEMMA SendOffsetLost ==
  ASSUME ControlInv, FewLost, SendOffset
  PROVE  FewLost'
<1>1. /\ p_pc = "send" /\ p_pc' = "loop" /\ UNCHANGED <<slots, c_pc, c_runs, c_offset>>
      /\ offset \in Offsets /\ InTransit' = Append(InTransit, offset)
  BY SendOffsetTransit DEF SendOffset, consumerVars
<1>2. InTransit \in Seq(Offsets)
  BY SendOffsetControls, BothShapes DEF Shape
<1>3. Elements(InTransit') = Elements(InTransit) \cup {offset}
  BY <1>1, <1>2, AppendedTransit
<1>4. Ended' = Ended
  BY <1>1 DEF Ended
<1>5. LostSlots' \subseteq LostSlots
  BY <1>1, <1>3 DEF LostSlots, FreeSlots
<1>6. QED
  BY <1>1, <1>4, <1>5, NoMoreLost

LEMMA StartConsumerLost ==
  ASSUME ControlInv, FewLost, StartConsumer
  PROVE  FewLost'
<1>1. /\ InTransit' = InTransit /\ c_pc = "off" /\ c_pc' = "read" /\ c_runs' = c_runs + 1
      /\ UNCHANGED <<slots, p_pc, offset>> /\ c_runs \in Nat
  BY StartConsumerTransit DEF StartConsumer, sharedVars, producerVars, ControlInv, Types
<1>2. CASE p_pc \notin {"loop", "send"}
  BY <1>1, <1>2 DEF FewLost
<1>3. CASE p_pc \in {"loop", "send"}
  <2>1. Ended' = Ended
    BY <1>1 DEF Ended
  <2>2. LostSlots' \subseteq LostSlots
    BY <1>1 DEF LostSlots, FreeSlots
  <2>3. QED
    BY <1>3, <2>1, <2>2, NoMoreLost
<1>4. QED
  BY <1>2, <1>3

LEMMA ReadOffsetLost ==
  ASSUME ControlInv, FewLost, ReadOffset
  PROVE  FewLost'
<1>1. /\ InTransit' = InTransit /\ c_pc = "read" /\ c_pc' = "print"
      /\ UNCHANGED <<slots, p_pc, offset, c_runs>>
  BY ReadOffsetTransit DEF ReadOffset, producerVars
<1>2. CASE p_pc \notin {"loop", "send"}
  BY <1>1, <1>2 DEF FewLost
<1>3. CASE p_pc \in {"loop", "send"}
  <2>1. Ended' = Ended
    BY <1>1 DEF Ended
  <2>2. LostSlots' \subseteq LostSlots
    BY <1>1 DEF LostSlots, FreeSlots
  <2>3. QED
    BY <1>3, <2>1, <2>2, NoMoreLost
<1>4. QED
  BY <1>2, <1>3

LEMMA PrintMessageLost ==
  ASSUME ControlInv, FewLost, PrintMessage
  PROVE  FewLost'
<1>1. /\ InTransit # <<>> /\ c_offset = Head(InTransit) /\ InTransit' = Tail(InTransit)
      /\ c_pc = "print" /\ c_pc' = "free"
      /\ UNCHANGED <<slots, p_pc, offset, c_runs, c_offset>>
  BY PrintMessageTransit DEF PrintMessage, sharedVars, producerVars
<1>2. CASE p_pc \notin {"loop", "send"}
  BY <1>1, <1>2 DEF FewLost
<1>3. CASE p_pc \in {"loop", "send"}
  <2>1. InTransit \in Seq(Offsets)
    BY PrintMessageControls, BothShapes DEF Shape
  <2>2. Elements(InTransit) = Elements(InTransit') \cup {c_offset}
    BY <1>1, <2>1, TailOfTransit
  <2>3. Ended' = Ended
    BY <1>1 DEF Ended
  <2>4. LostSlots' \subseteq LostSlots
    BY <1>1, <2>2 DEF LostSlots, FreeSlots
  <2>5. QED
    BY <1>3, <2>3, <2>4, NoMoreLost
<1>4. QED
  BY <1>2, <1>3

LEMMA FreeSlotLost ==
  ASSUME ControlInv, FewLost, FreeSlot
  PROVE  FewLost'
<1>1. /\ InTransit' = InTransit /\ c_pc = "free" /\ c_pc' = "read"
      /\ UNCHANGED <<p_pc, offset, c_runs, c_offset>>
  BY FreeSlotTransit DEF FreeSlot, producerVars
<1>2. CASE p_pc \notin {"loop", "send"}
  BY <1>1, <1>2 DEF FewLost
<1>3. CASE p_pc \in {"loop", "send"}
  <2>1. Ended' = Ended
    BY <1>1 DEF Ended
  <2>2. LostSlots' \subseteq LostSlots
    BY <1>1, FreeSlotEffect DEF LostSlots, FreeSlots, ControlInv
  <2>3. QED
    BY <1>3, <2>1, <2>2, NoMoreLost
<1>4. QED
  BY <1>2, <1>3

(* The slot that the consumer was working on is lost with it.              *)
LEMMA KillConsumerLost ==
  ASSUME ControlInv, FewLost, KillConsumer
  PROVE  FewLost'
<1>1. /\ c_pc # "off" /\ c_pc' = "off" /\ UNCHANGED <<slots, p_pc, offset, c_runs, c_offset>>
      /\ c_runs \in Nat \ {0}
  BY DEF KillConsumer, producerVars, ControlInv, Types, FifosHeld
<1>2. CASE p_pc \notin {"loop", "send"}
  BY <1>1, <1>2 DEF FewLost
<1>3. CASE p_pc \in {"loop", "send"}
  <2>1. InTransit \in Seq(Offsets) /\ p_fd > 0
    BY <1>3, KillConsumerControls, BothShapes DEF Shape, ControlInv, FifosHeld
  <2>2. Elements(InTransit) \subseteq Elements(InTransit') \cup {c_offset}
    <3>1. CASE c_pc = "print"
      BY <2>1, <3>1, KillConsumerTransit, TailOfTransit
    <3>2. CASE c_pc # "print"
      BY <2>1, <3>2, KillConsumerTransit
    <3>3. QED
      BY <3>1, <3>2
  <2>3. LostSlots' \subseteq LostSlots \cup {c_offset}
    BY <1>1, <2>2 DEF LostSlots, FreeSlots
  <2>4. Cardinality(LostSlots') <= Cardinality(LostSlots) + 1
    <3>1. IsFiniteSet(LostSlots) /\ Cardinality(LostSlots) \in Nat
      BY LostFacts, OffsetFacts, FS_Subset
    <3>2. /\ IsFiniteSet(LostSlots \cup {c_offset})
          /\ Cardinality(LostSlots \cup {c_offset}) <= Cardinality(LostSlots) + 1
          /\ Cardinality(LostSlots \cup {c_offset}) \in Nat
      BY <3>1, FS_AddElement
    <3>3. /\ Cardinality(LostSlots') <= Cardinality(LostSlots \cup {c_offset})
          /\ IsFiniteSet(LostSlots')
      BY <2>3, <3>2, FS_Subset
    <3>4. Cardinality(LostSlots') \in Nat
      BY <3>3, FS_CardinalityType
    <3>5. QED
      BY <3>1, <3>2, <3>3, <3>4
  <2>5. Cardinality(LostSlots) <= Ended /\ Ended' = Ended + 1 /\ Ended \in Nat
    BY <1>1, <1>3, EndedFacts DEF FewLost, Ended
  <2>6. Cardinality(LostSlots) \in Nat /\ Cardinality(LostSlots') \in Nat
    <3>1. (LostSlots \subseteq Offsets /\ Cardinality(LostSlots) \in Nat)'
      BY LostFacts, PTL
    <3>2. QED
      BY <3>1, LostFacts
  <2>7. QED
    BY <2>4, <2>5, <2>6 DEF FewLost
<1>4. QED
  BY <1>2, <1>3

-----------------------------------------------------------------------------
(* The order of the offsets, while the two producers are not confused.     *)

LEMMA SettledOrderly ==
  ASSUME InTransit' = <<>>, c_pc' # "free", p_pc' # "send"
  PROVE  Orderly'
<1>1. Elements(InTransit') = {} /\ Injective(InTransit')
  BY EmptyTransit
<1>2. QED
  BY <1>1 DEF Orderly

(* The slots of what is on its way hold messages.                          *)
LEMMA OrderlyFacts ==
  ASSUME ControlInv, Orderly
  PROVE  /\ InTransit \in Seq(Offsets) /\ Elements(InTransit) \subseteq Offsets
         /\ \A s \in Elements(InTransit) : slots[s] \in Messages /\ slots[s] # FREE
<1>1. InTransit \in Seq(Offsets)
  BY TransitShape DEF Shape, ControlInv
<1>2. Elements(InTransit) \subseteq Offsets
  BY <1>1, ElementOfSeq DEF Elements
<1>3. QED
  BY <1>1, <1>2, MessageFacts DEF Orderly, ControlInv, Types

LEMMA StartProducerOrderly ==
  ASSUME ControlInv, Orderly, StartProducer
  PROVE  Orderly'
<1>1. InTransit' = InTransit /\ p_pc' # "send" /\ UNCHANGED <<slots, sent, c_pc, c_offset>>
  BY StartProducerTransit DEF StartProducer, consumerVars
<1>2. QED
  BY <1>1 DEF Orderly

LEMMA MakeFifoOrderly ==
  ASSUME ControlInv, Orderly, MakeFifo
  PROVE  Orderly'
<1>1. InTransit' = InTransit /\ p_pc' # "send" /\ UNCHANGED <<slots, sent, c_pc, c_offset>>
  BY MakeFifoTransit DEF MakeFifo, consumerVars
<1>2. QED
  BY <1>1 DEF Orderly

LEMMA OpenFifoOrderly ==
  ASSUME ControlInv, Orderly, OpenFifo
  PROVE  Orderly'
<1>1. InTransit' = InTransit /\ p_pc' # "send" /\ UNCHANGED <<slots, sent, c_pc, c_offset>>
  BY OpenFifoTransit DEF OpenFifo, sharedVars, consumerVars
<1>2. QED
  BY <1>1 DEF Orderly

LEMMA WriteMessageOrderly ==
  ASSUME ControlInv, Orderly, WriteMessage
  PROVE  Orderly'
<1>1. InTransit' = InTransit /\ UNCHANGED <<p_runs, sent, c_pc, c_offset>>
  BY WriteMessageTransit DEF WriteMessage, consumerVars
<1>2. CASE p_pc' = "loop" /\ UNCHANGED <<slots, offset>>
  BY <1>1, <1>2 DEF Orderly
<1>3. CASE /\ p_pc' = "send" /\ offset' \in Offsets /\ slots[offset'] = FREE
           /\ slots' = [slots EXCEPT ![offset'] = <<p_runs, itr'>>]
  <2>1. offset' \notin Elements(InTransit)
    BY <1>3, OrderlyFacts
  <2>2. /\ \A s \in Offsets : s # offset' => slots'[s] = slots[s]
        /\ slots'[offset'] = <<p_runs, itr'>>
    BY <1>3 DEF ControlInv, Types
  <2>3. \A s \in Elements(InTransit) : slots'[s] \in sent
    BY <2>1, <2>2, OrderlyFacts DEF Orderly
  <2>4. c_pc = "free" => c_offset # offset' /\ slots'[c_offset] # FREE
    BY <1>3, <2>2 DEF Orderly, ControlInv, FifosHeld
  <2>5. QED
    BY <1>1, <1>3, <2>1, <2>2, <2>3, <2>4 DEF Orderly
<1>4. QED
  BY <1>2, <1>3, WriteMessageEffect DEF ControlInv

LEMMA SendOffsetOrderly ==
  ASSUME ControlInv, Orderly, SendOffset
  PROVE  Orderly'
<1>1. /\ offset \in Offsets /\ InTransit' = Append(InTransit, offset)
      /\ p_pc = "send" /\ p_pc' # "send" /\ sent' = sent \cup {<<p_runs, itr>>}
      /\ UNCHANGED <<slots, c_pc, c_offset>>
  BY SendOffsetTransit DEF SendOffset, consumerVars
<1>2. /\ offset \notin Elements(InTransit) /\ slots[offset] = <<p_runs, itr>>
      /\ (c_pc = "free" => c_offset # offset)
  BY <1>1 DEF Orderly
<1>3. Elements(InTransit') = Elements(InTransit) \cup {offset} /\ Injective(InTransit')
  BY <1>1, <1>2, OrderlyFacts, AppendedTransit DEF Orderly
<1>4. QED
  BY <1>1, <1>2, <1>3 DEF Orderly

(* What is left of a sequence of offsets is in order too.                  *)
LEMMA LessInTransit ==
  ASSUME Orderly, InTransit \in Seq(Offsets),
         \/ InTransit' \in {InTransit, <<>>}
         \/ InTransit # <<>> /\ InTransit' = Tail(InTransit)
  PROVE  Injective(InTransit') /\ Elements(InTransit') \subseteq Elements(InTransit)
<1>1. CASE InTransit' = InTransit
  BY <1>1 DEF Orderly
<1>2. CASE InTransit' = <<>>
  BY <1>2, EmptyTransit
<1>3. CASE InTransit # <<>> /\ InTransit' = Tail(InTransit)
  BY <1>3, TailOfTransit DEF Orderly
<1>4. QED
  BY <1>1, <1>2, <1>3

LEMMA LeaveProducerOrderly ==
  ASSUME ControlInv, Orderly, LeaveProducer
  PROVE  Orderly'
<1>1. Injective(InTransit') /\ Elements(InTransit') \subseteq Elements(InTransit)
  BY LeaveProducerTransit, OrderlyFacts, LessInTransit
<1>2. p_pc' # "send" /\ UNCHANGED <<slots, sent, c_pc, c_offset>>
  BY DEF LeaveProducer
<1>3. QED
  BY <1>1, <1>2 DEF Orderly

LEMMA StartConsumerOrderly ==
  ASSUME ControlInv, Orderly, StartConsumer
  PROVE  Orderly'
<1>1. /\ InTransit' = InTransit /\ c_pc' # "free"
      /\ UNCHANGED <<slots, sent, p_pc, p_runs, itr, offset>>
  BY StartConsumerTransit DEF StartConsumer, sharedVars, producerVars
<1>2. QED
  BY <1>1 DEF Orderly

LEMMA ReadOffsetOrderly ==
  ASSUME ControlInv, Orderly, ReadOffset
  PROVE  Orderly'
<1>1. /\ InTransit' = InTransit /\ c_pc' # "free"
      /\ UNCHANGED <<slots, sent, p_pc, p_runs, itr, offset>>
  BY ReadOffsetTransit DEF ReadOffset, producerVars
<1>2. QED
  BY <1>1 DEF Orderly

LEMMA PrintMessageOrderly ==
  ASSUME ControlInv, Orderly, PrintMessage
  PROVE  Orderly'
<1>1. /\ InTransit # <<>> /\ c_offset = Head(InTransit) /\ InTransit' = Tail(InTransit)
      /\ UNCHANGED <<slots, sent, p_pc, p_runs, itr, offset, c_offset>>
  BY PrintMessageTransit DEF PrintMessage, sharedVars, producerVars
<1>2. /\ Elements(InTransit) = Elements(InTransit') \cup {c_offset}
      /\ Injective(InTransit') /\ c_offset \notin Elements(InTransit')
  BY <1>1, OrderlyFacts, TailOfTransit DEF Orderly
<1>3. slots[c_offset] # FREE /\ (p_pc = "send" => offset # c_offset)
  BY <1>2, OrderlyFacts DEF Orderly
<1>4. QED
  BY <1>1, <1>2, <1>3 DEF Orderly

LEMMA FreeSlotOrderly ==
  ASSUME ControlInv, Orderly, FreeSlot
  PROVE  Orderly'
<1>1. /\ InTransit' = InTransit /\ c_pc = "free" /\ c_pc' # "free"
      /\ UNCHANGED <<sent, p_pc, p_runs, itr, offset, c_offset>>
  BY FreeSlotTransit DEF FreeSlot, producerVars
<1>2. \A s \in Offsets : s # c_offset => slots'[s] = slots[s]
  BY FreeSlotEffect DEF ControlInv
<1>3. \A s \in Elements(InTransit) : slots'[s] \in sent
  BY <1>1, <1>2, OrderlyFacts DEF Orderly
<1>4. p_pc = "send" => slots'[offset] = <<p_runs, itr>>
  BY <1>1, <1>2 DEF Orderly, ControlInv, Types
<1>5. QED
  BY <1>1, <1>3, <1>4 DEF Orderly

LEMMA KillConsumerOrderly ==
  ASSUME ControlInv, Orderly, KillConsumer
  PROVE  Orderly'
<1>1. \/ InTransit' \in {InTransit, <<>>}
      \/ InTransit # <<>> /\ InTransit' = Tail(InTransit)
  BY KillConsumerTransit DEF ControlInv, Types
<1>2. Injective(InTransit') /\ Elements(InTransit') \subseteq Elements(InTransit)
  BY <1>1, OrderlyFacts, LessInTransit
<1>3. c_pc' # "free" /\ UNCHANGED <<slots, sent, p_pc, p_runs, itr, offset>>
  BY DEF KillConsumer, producerVars
<1>4. QED
  BY <1>2, <1>3 DEF Orderly

-----------------------------------------------------------------------------
(* The invariant.                                                          *)

Steps ==
  \/ StartProducer \/ MakeFifo \/ OpenFifo \/ ResetSlot
  \/ WriteMessage \/ SendOffset \/ LeaveProducer
  \/ StartConsumer \/ ReadOffset \/ PrintMessage \/ FreeSlot \/ KillConsumer

LEMMA NextSteps == Next => Steps /\ confused' = StillConfused
BY ProducerLeaves DEF Next, Producing, Consuming, Steps

LEMMA ControlNext ==
  ASSUME ControlInv, Steps
  PROVE  ControlInv'
BY StartProducerControls, MakeFifoControls, OpenFifoControls, ResetSlotControls,
   WriteMessageControls, SendOffsetControls, LeaveProducerControls, StartConsumerControls,
   ReadOffsetControls, PrintMessageControls, FreeSlotControls, KillConsumerControls
   DEF Steps

LEMMA LostNext ==
  ASSUME ControlInv, FewLost, Steps
  PROVE  FewLost'
<1>1. CASE StartProducer \/ MakeFifo \/ OpenFifo \/ LeaveProducer
  BY <1>1 DEF StartProducer, MakeFifo, OpenFifo, LeaveProducer, FewLost
<1>2. CASE ResetSlot
  BY <1>2, ResetSlotControls, ResetSlotLost
<1>3. QED
  BY <1>1, <1>2, WriteMessageLost, SendOffsetLost, StartConsumerLost, ReadOffsetLost,
     PrintMessageLost, FreeSlotLost, KillConsumerLost DEF Steps

(* Confusion begins with a producer that sets a slot to FREE, and ends     *)
(* when nothing is on its way.                                             *)
LEMMA ConfusionEnds ==
  ASSUME ControlInv, confused' = StillConfused, ~confused', confused \/ ResetSlot
  PROVE  InTransit' = <<>> /\ c_pc' \notin {"print", "free"} /\ p_pc' # "send"
<1>1. confused \/ (p_pc = "reset" /\ resets' # resets)
  BY ResetSlotEffect DEF ResetSlot
<1>2. QED
  BY <1>1 DEF StillConfused

LEMMA OrderNext ==
  ASSUME ControlInv, ~confused => Orderly, Steps, confused' = StillConfused, ~confused'
  PROVE  Orderly'
<1>1. CASE confused \/ ResetSlot
  BY <1>1, ConfusionEnds, SettledOrderly
<1>2. CASE ~confused /\ ~ResetSlot
  BY <1>2, StartProducerOrderly, MakeFifoOrderly, OpenFifoOrderly, WriteMessageOrderly,
     SendOffsetOrderly, LeaveProducerOrderly, StartConsumerOrderly, ReadOffsetOrderly, PrintMessageOrderly,
     FreeSlotOrderly, KillConsumerOrderly DEF Steps
<1>3. QED
  BY <1>1, <1>2

LEMMA FlagsNext ==
  ASSUME Flags, Next
  PROVE  Flags'
<1>1. segment' \in BOOLEAN
  <2>1. segment' = segment \/ segment' = TRUE
    BY NextSteps DEF Steps, StartProducer, MakeFifo, OpenFifo, ResetSlot, WriteMessage, SendOffset,
       LeaveProducer, StartConsumer, ReadOffset, PrintMessage, FreeSlot, KillConsumer,
       sharedVars
  <2>2. QED
    BY <2>1 DEF Flags
<1>2. confused' \in BOOLEAN
  BY DEF Next, StillConfused
<1>3. QED
  BY <1>1, <1>2 DEF Flags

LEMMA ChannelInvParts ==
  ChannelInv <=> Flags /\ ControlInv /\ FewLost /\ (~confused => Orderly)
BY TypeOKParts DEF ChannelInv, ControlInv

LEMMA NextChannelInvParts ==
  ChannelInv' <=> Flags' /\ ControlInv' /\ FewLost' /\ (~confused' => Orderly')
<1>1. (ChannelInv <=> Flags /\ ControlInv /\ FewLost /\ (~confused => Orderly))'
  BY ChannelInvParts, PTL
<1>2. QED
  BY <1>1

LEMMA ChannelInit == Init => ChannelInv
<1> SUFFICES ASSUME Init
             PROVE  ChannelInv
  OBVIOUS
<1> USE DEF Init
<1>1. Flags
  BY DEF Flags
<1>2. Types
  BY SharedSlotsAssumption, OffsetFacts DEF Types
<1>3. FifosHeld /\ SlotsSetUp /\ SentSoFar /\ FewLost
  BY DEF FifosHeld, SlotsSetUp, SentSoFar, FewLost
<1>4. Orderly
  <2>1. InTransit = <<>>
    BY <1>2, <1>3, TransitShape DEF Shape
  <2>2. QED
    BY <2>1, EmptyTransit DEF Orderly
<1>5. QED
  BY <1>1, <1>2, <1>3, <1>4, ChannelInvParts DEF ControlInv

LEMMA ChannelNext ==
  ASSUME ChannelInv, [Next]_vars
  PROVE  ChannelInv'
<1>1. CASE Next
  BY <1>1, NextSteps, ControlNext, LostNext, OrderNext, FlagsNext,
     ChannelInvParts, NextChannelInvParts
<1>2. CASE UNCHANGED vars
  <2> USE <1>2 DEF vars, sharedVars, producerVars, consumerVars, ChannelInv
  <2>1. InTransit' = InTransit
    BY DEF InTransit, Open
  <2>2. TypeOK' /\ FifosHeld'
    BY DEF TypeOK, FifosHeld
  <2>3. SlotsSetUp' /\ SentSoFar'
    BY DEF SlotsSetUp, SentSoFar
  <2>4. FewLost'
    BY <2>1 DEF FewLost, LostSlots, FreeSlots, Ended
  <2>5. ~confused' => Orderly'
    BY <2>1 DEF Orderly
  <2>6. QED
    BY <2>2, <2>3, <2>4, <2>5
<1>3. QED
  BY <1>1, <1>2

(* The account of slots, offsets and messages holds for every number of    *)
(* slots, of messages and of runs of producer and consumer, whoever is     *)
(* killed at any point.                                                    *)
THEOREM ChannelInvariant == Spec => []ChannelInv
<1>1. Init => ChannelInv
  BY ChannelInit
<1>2. ChannelInv /\ [Next]_vars => ChannelInv'
  BY ChannelNext
<1>3. QED
  BY <1>1, <1>2, PTL DEF Spec

LEMMA FewAreLost == ChannelInv => SlotsInv
<1> SUFFICES ASSUME ChannelInv
             PROVE  SlotsInv
  OBVIOUS
<1>1. ASSUME p_pc = "loop"
      PROVE  SlotsLostToKillsOnly
  <2> DEFINE inUse == {InTransit[i] : i \in DOMAIN InTransit}
                        \cup (IF c_pc = "free" THEN {c_offset} ELSE {})
  <2>1. InTransit \in Seq(Offsets)
    BY ChannelInvParts, TransitShape DEF ControlInv, Shape
  <2>2. {InTransit[i] : i \in DOMAIN InTransit} = Elements(InTransit)
    BY <2>1 DEF Elements
  <2>3. (Offsets \ FreeSlots) \ inUse = LostSlots
    BY <1>1, <2>2 DEF LostSlots
  <2>4. Cardinality((Offsets \ FreeSlots) \ inUse) <= Ended
    BY <1>1, <2>3 DEF ChannelInv, FewLost
  <2>5. QED
    BY <2>4 DEF SlotsLostToKillsOnly, Ended
<1>2. SlotsLostToKillsOnly
  BY <1>1 DEF SlotsLostToKillsOnly
<1>3. QED
  BY <1>2 DEF SlotsInv, ChannelInv

(* The producer loses a slot only when a consumer is killed between        *)
(* reading the offset of the slot and freeing it, and types and bounds     *)
(* hold.                                                                   *)
THEOREM SlotsAreAccountedFor == Spec => []SlotsInv
BY ChannelInvariant, FewAreLost, PTL

-----------------------------------------------------------------------------
(* The channel that the two programs implement.                            *)

Mapped(t, content) == [i \in DOMAIN t |-> content[t[i]]]
Queue == Mapped(InTransit, slots)
Content == Messages \cup {ZERO, FREE}

LEMMA MappedShape ==
  ASSUME NEW t \in Seq(Offsets), NEW content \in [Offsets -> Content]
  PROVE  /\ Mapped(t, content) \in Seq(Content)
         /\ Len(Mapped(t, content)) = Len(t)
         /\ \A i \in 1 .. Len(t) : Mapped(t, content)[i] = content[t[i]]
<1>1. Len(t) \in Nat /\ DOMAIN t = 1 .. Len(t) /\ \A i \in 1 .. Len(t) : t[i] \in Offsets
  BY ElementOfSeq
<1>2. Mapped(t, content) \in [1 .. Len(t) -> Content]
  BY <1>1 DEF Mapped
<1>3. Mapped(t, content) \in Seq(Content)
  BY <1>1, <1>2
<1>4. Len(Mapped(t, content)) = Len(t)
  BY <1>1, <1>2, <1>3, LenProperties
<1>5. QED
  BY <1>1, <1>3, <1>4 DEF Mapped

LEMMA MappedEmpty ==
  ASSUME NEW content
  PROVE  Mapped(<<>>, content) = <<>>
BY DEF Mapped

LEMMA MappedSame ==
  ASSUME NEW t \in Seq(Offsets), NEW content, NEW later,
         \A s \in Elements(t) : later[s] = content[s]
  PROVE  Mapped(t, later) = Mapped(t, content)
BY DEF Mapped, Elements

LEMMA MappedAppend ==
  ASSUME NEW t \in Seq(Offsets), NEW o \in Offsets, NEW content \in [Offsets -> Content]
  PROVE  Mapped(Append(t, o), content) = Append(Mapped(t, content), content[o])
<1>1. /\ Append(t, o) \in Seq(Offsets) /\ Len(Append(t, o)) = Len(t) + 1 /\ Len(t) \in Nat
      /\ \A i \in 1 .. Len(t) : Append(t, o)[i] = t[i]
      /\ Append(t, o)[Len(t) + 1] = o
  BY AppendProperties
<1>2. /\ Mapped(t, content) \in Seq(Content) /\ Len(Mapped(t, content)) = Len(t)
      /\ \A i \in 1 .. Len(t) : Mapped(t, content)[i] = content[t[i]]
  BY MappedShape
<1>3. /\ Mapped(Append(t, o), content) \in Seq(Content)
      /\ Len(Mapped(Append(t, o), content)) = Len(t) + 1
      /\ \A i \in 1 .. Len(t) + 1 : Mapped(Append(t, o), content)[i] = content[Append(t, o)[i]]
  BY <1>1, MappedShape
<1>4. content[o] \in Content
  OBVIOUS
<1>5. /\ Append(Mapped(t, content), content[o]) \in Seq(Content)
      /\ Len(Append(Mapped(t, content), content[o])) = Len(t) + 1
      /\ \A i \in 1 .. Len(t) : Append(Mapped(t, content), content[o])[i] = content[t[i]]
      /\ Append(Mapped(t, content), content[o])[Len(t) + 1] = content[o]
  BY <1>2, <1>4, AppendProperties
<1>6. \A i \in 1 .. Len(t) + 1 :
        Mapped(Append(t, o), content)[i] = Append(Mapped(t, content), content[o])[i]
  <2>1. TAKE i \in 1 .. Len(t) + 1
  <2>2. CASE i = Len(t) + 1
    BY <1>1, <1>3, <1>5, <2>2
  <2>3. CASE i # Len(t) + 1
    <3>1. i \in 1 .. Len(t)
      BY <1>1, <2>3
    <3>2. QED
      BY <1>1, <1>3, <1>5, <3>1
  <2>4. QED
    BY <2>2, <2>3
<1>7. QED
  BY <1>3, <1>5, <1>6, SeqEqual

LEMMA MappedTail ==
  ASSUME NEW t \in Seq(Offsets), t # <<>>, NEW content \in [Offsets -> Content]
  PROVE  /\ Mapped(t, content) # <<>> /\ Head(Mapped(t, content)) = content[Head(t)]
         /\ Mapped(Tail(t), content) = Tail(Mapped(t, content))
<1> DEFINE m == Mapped(t, content)
           r == Mapped(Tail(t), content)
<1>1. /\ Tail(t) \in Seq(Offsets) /\ Len(t) \in Nat \ {0} /\ Len(Tail(t)) = Len(t) - 1
      /\ Head(t) = t[1] /\ \A i \in 1 .. Len(t) - 1 : Tail(t)[i] = t[i + 1]
  BY HeadTailProperties
<1>2. m \in Seq(Content) /\ Len(m) = Len(t) /\ \A i \in 1 .. Len(t) : m[i] = content[t[i]]
  BY MappedShape
<1>3. /\ r \in Seq(Content) /\ Len(r) = Len(t) - 1
      /\ \A i \in 1 .. Len(t) - 1 : r[i] = content[Tail(t)[i]]
  BY <1>1, MappedShape
<1> HIDE DEF m, r
<1>4. m # <<>>
  BY <1>1, <1>2
<1>5. /\ Head(m) = m[1] /\ Tail(m) \in Seq(Content) /\ Len(Tail(m)) = Len(t) - 1
      /\ \A i \in 1 .. Len(t) - 1 : Tail(m)[i] = m[i + 1]
  BY <1>1, <1>2, <1>4, HeadTailProperties
<1>6. Head(m) = content[Head(t)]
  BY <1>1, <1>2, <1>5
<1>7. \A i \in 1 .. Len(t) - 1 : r[i] = Tail(m)[i]
  BY <1>1, <1>2, <1>3, <1>5
<1>8. r = Tail(m)
  BY <1>3, <1>5, <1>7, SeqEqual
<1>9. QED
  BY <1>4, <1>6, <1>8 DEF m, r

(* A channel that is full has no slot left to write a message to.          *)
LEMMA RoomInChannel ==
  ASSUME ControlInv, Orderly, p_pc = "send"
  PROVE  Len(Queue) < TOTAL_SLOTS
<1> DEFINE others == Offsets \ {offset}
<1>1. /\ InTransit \in Seq(Offsets) /\ Elements(InTransit) \subseteq others
      /\ offset \in Offsets /\ Len(InTransit) \in Nat /\ slots \in [Offsets -> Content]
  BY OrderlyFacts DEF Orderly, ControlInv, Types, Content
<1>2. IsFiniteSet(others) /\ Cardinality(others) = TOTAL_SLOTS - 1
  BY <1>1, OffsetFacts, FS_RemoveElement
<1>3. IsFiniteSet(1 .. Len(InTransit)) /\ Cardinality(1 .. Len(InTransit)) = Len(InTransit)
  BY <1>1, FS_Interval
<1>4. InTransit \in [1 .. Len(InTransit) -> others]
  BY <1>1 DEF Elements
<1>5. ~ Cardinality(others) < Cardinality(1 .. Len(InTransit))
  <2>1. \A i, k \in 1 .. Len(InTransit) : InTransit[i] = InTransit[k] => i = k
    BY DEF Orderly, Injective
  <2>2. QED
    BY <1>2, <1>3, <1>4, <2>1, FS_PigeonHole
<1>6. Len(Queue) = Len(InTransit)
  BY <1>1, MappedShape DEF Queue
<1>7. QED
  BY <1>1, <1>2, <1>3, <1>5, <1>6, OffsetFacts

(* A step that is not confused, with the state that the channel sees.      *)
Clear == /\ ControlInv /\ ControlInv' /\ Flags /\ Flags'
         /\ Orderly /\ ~confused /\ ~confused'
ChannelStep == [Channel!Next]_(Channel!vars)

LEMMA ClearFacts ==
  ASSUME Clear
  PROVE  /\ InTransit \in Seq(Offsets) /\ slots \in [Offsets -> Content]
         /\ confused = FALSE /\ confused' = FALSE
BY OrderlyFacts DEF Clear, ControlInv, Types, Content, Flags

LEMMA NothingSeen ==
  ASSUME Clear, InTransit' = InTransit, UNCHANGED <<sent, received>>,
         \A s \in Elements(InTransit) : slots'[s] = slots[s]
  PROVE  ChannelStep
<1>1. Queue' = Queue
  BY ClearFacts, MappedSame DEF Queue
<1>2. UNCHANGED Channel!vars
  BY <1>1, ClearFacts DEF Channel!vars, Queue, Mapped
<1>3. QED
  BY <1>2 DEF ChannelStep

LEMMA SeenLoss ==
  ASSUME Clear, UNCHANGED <<slots, sent, received>>,
         InTransit # <<>> , InTransit' \in {Tail(InTransit), <<>>}
  PROVE  ChannelStep
<1>1. /\ Queue # <<>>
      /\ Mapped(Tail(InTransit), slots) = Tail(Queue)
      /\ Mapped(<<>>, slots) = <<>>
  BY ClearFacts, MappedTail, MappedEmpty DEF Queue
<1>2. Queue' \in {Tail(Queue), <<>>}
  BY <1>1 DEF Queue
<1>3. Channel!Lose
  BY <1>1, <1>2 DEF Channel!Lose, Queue, Mapped
<1>4. Channel!Next
  BY <1>3 DEF Channel!Next, Clear
<1>5. QED
  BY <1>4 DEF ChannelStep

LEMMA StartProducerSeen ==
  ASSUME Clear, StartProducer
  PROVE  ChannelStep
BY StartProducerTransit, NothingSeen DEF StartProducer, Clear

LEMMA MakeFifoSeen ==
  ASSUME Clear, MakeFifo
  PROVE  ChannelStep
BY MakeFifoTransit, NothingSeen DEF MakeFifo, Clear

LEMMA OpenFifoSeen ==
  ASSUME Clear, OpenFifo
  PROVE  ChannelStep
BY OpenFifoTransit, NothingSeen DEF OpenFifo, sharedVars, Clear

(* A producer that sets a slot to FREE and leaves nothing confused had     *)
(* nothing on its way.                                                     *)
LEMMA ResetSlotSeen ==
  ASSUME Clear, ResetSlot, confused' = StillConfused
  PROVE  ChannelStep
<1>1. InTransit' = InTransit /\ InTransit' = <<>> /\ UNCHANGED <<sent, received>>
  BY ResetSlotTransit, ConfusionEnds DEF Clear, ResetSlot
<1>2. Elements(InTransit) = {}
  BY <1>1, EmptyTransit
<1>3. QED
  BY <1>1, <1>2, NothingSeen

LEMMA WriteMessageSeen ==
  ASSUME Clear, WriteMessage
  PROVE  ChannelStep
<1>1. InTransit' = InTransit /\ UNCHANGED <<sent, received>>
  BY WriteMessageTransit DEF Clear, WriteMessage
<1>2. \A s \in Elements(InTransit) : slots'[s] = slots[s]
  <2>1. CASE UNCHANGED slots
    BY <2>1
  <2>2. CASE /\ offset' \in Offsets /\ slots[offset'] = FREE
             /\ slots' = [slots EXCEPT ![offset'] = <<p_runs, itr'>>]
    <3>1. \A s \in Elements(InTransit) : s \in Offsets /\ s # offset'
      BY <2>2, OrderlyFacts DEF Clear
    <3>2. QED
      BY <2>2, <3>1, ClearFacts
  <2>3. QED
    BY <2>1, <2>2, WriteMessageEffect DEF Clear, ControlInv
<1>3. QED
  BY <1>1, <1>2, NothingSeen

LEMMA SendOffsetSeen ==
  ASSUME Clear, SendOffset
  PROVE  ChannelStep
<1> DEFINE message == <<p_runs, itr>>
<1>1. /\ p_pc = "send" /\ UNCHANGED <<slots, received>> /\ sent' = sent \cup {message}
      /\ offset \in Offsets /\ InTransit' = Append(InTransit, offset)
  BY SendOffsetTransit DEF Clear, SendOffset
<1>2. slots[offset] = message /\ message \in Messages
  <2>1. /\ slots[offset] = message /\ sent' \subseteq Messages
    BY <1>1 DEF Clear, Orderly, ControlInv, Types
  <2>2. QED
    BY <1>1, <2>1
<1>3. message \notin sent
  <2>1. p_runs \in Int /\ itr \in Int /\ message[1] = p_runs /\ message[2] = itr
    BY DEF Clear, ControlInv, Types
  <2>2. \A m \in sent : m[1] < p_runs \/ (m[1] = p_runs /\ m[2] > itr)
    BY <1>1 DEF Clear, ControlInv, SentSoFar
  <2>3. QED
    BY <2>1, <2>2
<1>4. Len(Queue) < TOTAL_SLOTS
  BY <1>1, RoomInChannel DEF Clear
<1>5. Queue' = Append(Queue, message)
  BY <1>1, <1>2, ClearFacts, MappedAppend DEF Queue
<1>6. PICK m \in Messages : m = message
  BY <1>2
<1>7. Channel!Send(m)
  BY <1>1, <1>3, <1>4, <1>5, <1>6 DEF Channel!Send, Queue, Mapped
<1>8. Channel!Next
  BY <1>7 DEF Channel!Next, Clear
<1>9. QED
  BY <1>8 DEF ChannelStep

LEMMA LeaveProducerSeen ==
  ASSUME Clear, LeaveProducer
  PROVE  ChannelStep
<1>1. UNCHANGED <<slots, sent, received>>
  BY DEF LeaveProducer
<1>2. CASE InTransit' = InTransit
  BY <1>1, <1>2, NothingSeen
<1>3. CASE InTransit' = <<>> /\ InTransit # <<>>
  BY <1>1, <1>3, SeenLoss
<1>4. QED
  BY <1>2, <1>3, LeaveProducerTransit DEF Clear

LEMMA StartConsumerSeen ==
  ASSUME Clear, StartConsumer
  PROVE  ChannelStep
BY StartConsumerTransit, NothingSeen DEF StartConsumer, sharedVars, Clear

LEMMA ReadOffsetSeen ==
  ASSUME Clear, ReadOffset
  PROVE  ChannelStep
BY ReadOffsetTransit, NothingSeen DEF ReadOffset, Clear

LEMMA PrintMessageSeen ==
  ASSUME Clear, PrintMessage
  PROVE  ChannelStep
<1>1. /\ InTransit # <<>> /\ c_offset = Head(InTransit) /\ InTransit' = Tail(InTransit)
      /\ UNCHANGED <<slots, sent>> /\ received' = Append(received, slots[c_offset])
  BY PrintMessageTransit DEF Clear, PrintMessage, sharedVars
<1>2. /\ Queue # <<>> /\ Head(Queue) = slots[c_offset]
      /\ Queue' = Tail(Queue)
  BY <1>1, ClearFacts, MappedTail DEF Queue
<1>3. Channel!Receive
  BY <1>1, <1>2 DEF Channel!Receive, Queue, Mapped
<1>4. Channel!Next
  BY <1>3 DEF Channel!Next, Clear
<1>5. QED
  BY <1>4 DEF ChannelStep

LEMMA FreeSlotSeen ==
  ASSUME Clear, FreeSlot
  PROVE  ChannelStep
<1>1. InTransit' = InTransit /\ UNCHANGED <<sent, received>> /\ c_pc = "free"
  BY FreeSlotTransit DEF Clear, FreeSlot
<1>2. \A s \in Elements(InTransit) : s \in Offsets /\ s # c_offset
  BY <1>1, OrderlyFacts DEF Clear, Orderly
<1>3. \A s \in Elements(InTransit) : slots'[s] = slots[s]
  BY <1>2, FreeSlotEffect DEF Clear, ControlInv
<1>4. QED
  BY <1>1, <1>3, NothingSeen

LEMMA KillConsumerSeen ==
  ASSUME Clear, KillConsumer
  PROVE  ChannelStep
<1>1. UNCHANGED <<slots, sent, received>>
  BY DEF KillConsumer
<1>2. CASE InTransit' = InTransit
  BY <1>1, <1>2, NothingSeen
<1>3. CASE InTransit # <<>> /\ InTransit' \in {Tail(InTransit), <<>>}
  BY <1>1, <1>3, SeenLoss
<1>4. p_fd > 0 \/ p_fd <= 0
  BY DEF Clear, ControlInv, Types
<1>5. QED
  BY <1>2, <1>3, <1>4, KillConsumerTransit DEF Clear

LEMMA ConfusedSeen ==
  ASSUME confused \/ confused'
  PROVE  ChannelStep
BY DEF ChannelStep, Channel!Next

LEMMA EveryStepSeen ==
  ASSUME ChannelInv, ChannelInv', [Next]_vars
  PROVE  ChannelStep
<1>1. CASE Next /\ (confused \/ confused')
  BY <1>1, ConfusedSeen
<1>2. CASE Next /\ ~confused /\ ~confused'
  <2>1. Clear /\ Steps /\ confused' = StillConfused
    BY <1>2, NextSteps, ChannelInvParts, NextChannelInvParts DEF Clear
  <2>2. QED
    BY <2>1, StartProducerSeen, MakeFifoSeen, OpenFifoSeen, ResetSlotSeen, WriteMessageSeen,
       SendOffsetSeen, LeaveProducerSeen, StartConsumerSeen, ReadOffsetSeen,
       PrintMessageSeen, FreeSlotSeen, KillConsumerSeen DEF Steps
<1>3. CASE UNCHANGED vars
  <2>1. UNCHANGED <<slots, sent, received, confused, InTransit>>
    BY <1>3 DEF vars, sharedVars, producerVars, consumerVars, InTransit, Open
  <2>2. UNCHANGED Channel!vars
    BY <2>1 DEF Channel!vars
  <2>3. QED
    BY <2>2 DEF ChannelStep
<1>4. QED
  BY <1>1, <1>2, <1>3

(* Producer and consumer implement the bounded channel: over any number of *)
(* runs of either, and whoever is killed at any point, messages arrive     *)
(* unchanged and in the order they were sent in, once, as long as no       *)
(* producer finds offsets of a killed one on their way.                    *)
THEOREM ProgramsImplementChannel == Spec => RefinesBoundedChannel
<1>1. Init => Channel!Init
  <2> SUFFICES ASSUME Init
               PROVE  Channel!Init
    OBVIOUS
  <2>1. InTransit = <<>>
    <3>1. Shape
      BY ChannelInit, ChannelInvParts, TransitShape DEF ControlInv
    <3>2. QED
      BY <3>1 DEF Init, Shape
  <2>2. Queue = <<>>
    BY <2>1, MappedEmpty DEF Queue
  <2>3. QED
    BY <2>2 DEF Channel!Init, Init, Queue, Mapped
<1>2. ChannelInv /\ ChannelInv' /\ [Next]_vars => [Channel!Next]_(Channel!vars)
  BY EveryStepSeen DEF ChannelStep
<1>3. QED
  BY <1>1, <1>2, ChannelInvariant, PTL DEF Spec, RefinesBoundedChannel, Channel!Spec
=============================================================================
