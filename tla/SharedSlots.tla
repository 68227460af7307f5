---------------------------- MODULE SharedSlots ----------------------------
(***************************************************************************)
(* ipc-code/shm-posix-producer.c and shm-posix-consumer.c: messages in the *)
(* slots of a shared-memory segment, their offsets through a FIFO.  A slot *)
(* that holds the word FREE may be written.                                *)
(*                                                                         *)
(* Both programs are run several times, one instance of each at a time,    *)
(* and killed anywhere.  The consumer never returns; the producer also     *)
(* ends by itself or by the SIGPIPE of a write that nobody is left to      *)
(* read.  A FIFO that nobody holds open loses its content.                 *)
(***************************************************************************)
EXTENDS Integers, Sequences, FiniteSets

CONSTANTS
  TOTAL_SLOTS,
  Iterations,   \* itr at the start of the producer's loop
  Producers,    \* bounds the runs of the producer
  Consumers     \* bounds the runs of the consumer

ASSUME SharedSlotsAssumption ==
  /\ TOTAL_SLOTS \in Nat \ {0} /\ Iterations \in Nat
  /\ Producers \in Nat /\ Consumers \in Nat

VARIABLES
  segment,     \* TRUE: the shared-memory segment exists
  slots,       \* its content
  fifos,       \* every FIFO ever made: the offsets in it
  path,        \* the FIFO that fifo_prod_to_cons names, or 0
  p_pc, p_runs, p_fd, itr, offset,   \* the producer
  resets,      \* how many slots its first loop has set to FREE
  c_pc, c_runs, c_fd, c_offset,      \* the consumer
  sent, received,                    \* history of the messages
  confused     \* TRUE from when a producer sets slots to FREE with offsets of
               \* a killed one on their way, until nothing is on its way

sharedVars == <<segment, slots, fifos, path>>
producerVars == <<p_pc, p_runs, p_fd, itr, offset, resets>>
consumerVars == <<c_pc, c_runs, c_fd, c_offset>>
vars == <<sharedVars, producerVars, consumerVars, sent, received, confused>>

Offsets == 0 .. TOTAL_SLOTS - 1
Messages == (1 .. Producers) \X (0 .. Iterations - 1)  \* run of the producer, itr
FREE == <<>>
ZERO == <<0>>

Init ==
  /\ segment = FALSE /\ slots = [s \in Offsets |-> ZERO]
  /\ fifos = <<>> /\ path = 0
  /\ p_pc = "off" /\ p_runs = 0 /\ p_fd = 0 /\ itr = 0 /\ offset = -1 /\ resets = 0
  /\ c_pc = "off" /\ c_runs = 0 /\ c_fd = 0 /\ c_offset = -1
  /\ sent = {} /\ received = <<>> /\ confused = FALSE

-----------------------------------------------------------------------------
(* The producer.                                                           *)

StartProducer ==
  /\ p_pc = "off" /\ p_runs < Producers
  /\ p_runs' = p_runs + 1
  /\ segment' = TRUE
  /\ p_pc' = "mkfifo"
  /\ UNCHANGED <<slots, fifos, path, p_fd, itr, offset, resets, consumerVars, sent, received>>

(* It fails, unnoticed, when an earlier run has left the FIFO behind.      *)
MakeFifo ==
  /\ p_pc = "mkfifo"
  /\ IF path = 0
     THEN fifos' = Append(fifos, <<>>) /\ path' = Len(fifos')
     ELSE UNCHANGED <<fifos, path>>
  /\ p_pc' = "open"
  /\ UNCHANGED <<segment, slots, p_runs, p_fd, itr, offset, resets, consumerVars, sent, received>>

(* open returns when a reader has opened the FIFO.                         *)
OpenFifo ==
  /\ p_pc = "open" /\ c_fd = path
  /\ p_fd' = path
  /\ resets' = 0
  /\ p_pc' = "reset"
  /\ UNCHANGED <<sharedVars, p_runs, itr, offset, consumerVars, sent, received>>

(* One after the other the slots are set to FREE, whatever is in them.     *)
ResetSlot ==
  /\ p_pc = "reset"
  /\ slots' = [slots EXCEPT ![resets] = FREE]
  /\ resets' = resets + 1
  /\ IF resets' = TOTAL_SLOTS
     THEN itr' = Iterations /\ p_pc' = "loop"
     ELSE UNCHANGED <<itr, p_pc>>
  /\ UNCHANGED <<segment, fifos, path, p_runs, p_fd, offset, consumerVars, sent, received>>

FreeSlots == {s \in Offsets : slots[s] = FREE}

FindSlot_LastKept ==  \* faulty
  CHOOSE s \in Offsets : IF FreeSlots = {} THEN s = TOTAL_SLOTS - 1
                         ELSE s \in FreeSlots /\ \A t \in FreeSlots : s <= t
(* The first slot that is FREE, or -1.                                     *)
FindSlot ==
  IF FreeSlots = {} THEN -1
  ELSE CHOOSE s \in FreeSlots : \A t \in FreeSlots : s <= t

Found(s) == s # -1

(* Without a free slot the producer sleeps, and the message is skipped.    *)
WriteMessage ==
  /\ p_pc = "loop" /\ itr > 0
  /\ itr' = itr - 1
  /\ IF Found(FindSlot)
     THEN /\ offset' = FindSlot
          /\ slots' = [slots EXCEPT ![offset'] = <<p_runs, itr'>>]
          /\ p_pc' = "send"
     ELSE UNCHANGED <<slots, offset, p_pc>>
  /\ UNCHANGED <<segment, fifos, path, p_runs, p_fd, resets, consumerVars, sent, received>>

SendOffset ==
  /\ p_pc = "send" /\ c_fd = p_fd
  /\ fifos' = [fifos EXCEPT ![p_fd] = Append(@, offset)]
  /\ sent' = sent \cup {<<p_runs, itr>>}
  /\ p_pc' = "loop"
  /\ UNCHANGED <<segment, slots, path, p_runs, p_fd, itr, offset, resets, consumerVars, received>>

ClosedBy(fd, other) == IF fd < 1 \/ other = fd THEN fifos ELSE [fifos EXCEPT ![fd] = <<>>]

(* SIGPIPE.                                                                *)
BrokenPipe ==
  /\ p_pc = "send" /\ c_fd # p_fd
  /\ fifos' = ClosedBy(p_fd, c_fd)
  /\ p_fd' = 0
  /\ p_pc' = "off"
  /\ UNCHANGED <<segment, slots, path, p_runs, itr, offset, resets, consumerVars, sent, received>>

EndProducer ==
  /\ p_pc = "loop" /\ itr = 0
  /\ fifos' = ClosedBy(p_fd, c_fd)
  /\ p_fd' = 0
  /\ path' = 0
  /\ p_pc' = "off"
  /\ UNCHANGED <<segment, slots, p_runs, itr, offset, resets, consumerVars, sent, received>>

(* The FIFO keeps its name, and its content if a consumer has it open.     *)
KillProducer ==
  /\ p_pc # "off"
  /\ fifos' = ClosedBy(p_fd, c_fd)
  /\ p_fd' = 0
  /\ p_pc' = "off"
  /\ UNCHANGED <<segment, slots, path, p_runs, itr, offset, resets, consumerVars, sent, received>>

-----------------------------------------------------------------------------
(* The consumer.                                                           *)

(* Without a FIFO, open returns -1 and the consumer reads from that.       *)
StartConsumer ==
  /\ c_pc = "off" /\ c_runs < Consumers /\ segment
  /\ c_runs' = c_runs + 1
  /\ c_fd' = IF path # 0 THEN path ELSE -1
  /\ c_pc' = "read"
  /\ UNCHANGED <<sharedVars, producerVars, c_offset, sent, received>>

HasData_Short(fifo) == Len(fifo) > 1  \* faulty
HasData(fifo) == Len(fifo) > 0

ReadOffset ==
  /\ c_pc = "read" /\ c_fd > 0 /\ HasData(fifos[c_fd])
  /\ c_offset' = Head(fifos[c_fd])
  /\ fifos' = [fifos EXCEPT ![c_fd] = Tail(@)]
  /\ c_pc' = "print"
  /\ UNCHANGED <<segment, slots, path, producerVars, c_runs, c_fd, sent, received>>

PrintMessage ==
  /\ c_pc = "print"
  /\ received' = Append(received, slots[c_offset])
  /\ c_pc' = "free"
  /\ UNCHANGED <<sharedVars, producerVars, c_runs, c_fd, c_offset, sent>>

Freed_Cleared == ZERO  \* faulty
Freed == FREE

FreeSlot ==
  /\ c_pc = "free"
  /\ slots' = [slots EXCEPT ![c_offset] = Freed]
  /\ c_pc' = "read"
  /\ UNCHANGED <<segment, fifos, path, producerVars, c_runs, c_fd, c_offset, sent, received>>

KillConsumer ==
  /\ c_pc # "off"
  /\ fifos' = ClosedBy(c_fd, p_fd)
  /\ c_fd' = 0
  /\ c_pc' = "off"
  /\ UNCHANGED <<segment, slots, path, producerVars, c_runs, c_offset, sent, received>>

-----------------------------------------------------------------------------
(* The offsets in the FIFO that is in use, after the one being printed.    *)
Open == IF p_fd > 0 THEN fifos[p_fd] ELSE IF c_fd > 0 THEN fifos[c_fd] ELSE <<>>
InTransit == (IF c_pc = "print" THEN <<c_offset>> ELSE <<>>) \o Open

(* The history variable confused after a step.                             *)
StillConfused ==
  /\ confused \/ (p_pc = "reset" /\ resets' # resets)
  /\ InTransit' # <<>> \/ c_pc' \in {"print", "free"} \/ p_pc' = "send"

Producing ==
  \/ MakeFifo \/ OpenFifo \/ ResetSlot
  \/ WriteMessage \/ SendOffset \/ BrokenPipe \/ EndProducer
Consuming == ReadOffset \/ PrintMessage \/ FreeSlot

Next ==
  /\ \/ StartProducer \/ Producing \/ KillProducer
     \/ StartConsumer \/ Consuming \/ KillConsumer
  /\ confused' = StillConfused

Spec == Init /\ [][Next]_vars

(* A program that has been started runs on, unless it is killed.           *)
FairSpec ==
  /\ Spec
  /\ WF_vars(Producing /\ confused' = StillConfused)
  /\ WF_vars(Consuming /\ confused' = StillConfused)

-----------------------------------------------------------------------------
TypeOK ==
  /\ segment \in BOOLEAN /\ slots \in [Offsets -> Messages \cup {ZERO, FREE}]
  /\ fifos \in Seq(Seq(Offsets)) /\ path \in 0 .. Len(fifos)
  /\ p_pc \in {"off", "mkfifo", "open", "reset", "loop", "send"} /\ p_runs \in 0 .. Producers
  /\ resets \in 0 .. TOTAL_SLOTS
  /\ p_fd \in 0 .. Len(fifos) /\ itr \in 0 .. Iterations
  /\ offset \in Offsets \cup {-1} /\ (p_pc = "send" => offset # -1)
  /\ c_pc \in {"off", "read", "print", "free"} /\ c_runs \in 0 .. Consumers
  /\ c_fd \in -1 .. Len(fifos) /\ c_offset \in Offsets \cup {-1}
  /\ sent \subseteq Messages /\ received \in Seq(Messages \cup {FREE})
  /\ confused \in BOOLEAN

(* Messages arrive unchanged, in the order they were sent in, once: a slot *)
(* is not written again before its message has been printed, over any      *)
(* number of runs of the two programs, whoever is killed.  A producer that *)
(* sets slots to FREE whose offsets are still on their way, those of one   *)
(* that was killed, breaks this promise until all of them have been read;  *)
(* then it holds again.                                                    *)
Channel == INSTANCE BoundedChannel WITH
             Capacity <- TOTAL_SLOTS,
             queue <- [i \in DOMAIN InTransit |-> slots[InTransit[i]]],
             intact <- ~confused
RefinesBoundedChannel == Channel!Spec

(* A slot is lost to the producer only when a consumer is killed between   *)
(* reading its offset and freeing it: one slot for each run of the         *)
(* consumer that has ended.                                                *)
SlotsLostToKillsOnly ==
  p_pc = "loop" =>
    LET inUse == {InTransit[i] : i \in DOMAIN InTransit}
                   \cup (IF c_pc = "free" THEN {c_offset} ELSE {})
        ended == IF c_pc = "off" THEN c_runs ELSE c_runs - 1
    IN  Cardinality((Offsets \ FreeSlots) \ inUse) <= ended

(* The invariant of the slots: types and bounds, and an account of every   *)
(* slot that is not free.                                                  *)
SlotsInv == TypeOK /\ SlotsLostToKillsOnly

(* Nothing stays in transit for ever: what was sent is printed, or lost    *)
(* with a consumer.                                                        *)
EverythingArrives == InTransit # <<>> ~> InTransit = <<>>
=============================================================================
