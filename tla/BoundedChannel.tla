--------------------------- MODULE BoundedChannel ---------------------------
(***************************************************************************)
(* What shm-posix-producer.c and shm-posix-consumer.c promise together: a  *)
(* channel of bounded capacity that delivers messages in the order in      *)
(* which they were sent, each at most once, and loses some only when an    *)
(* end of it is gone; while it is not intact, it promises nothing.         *)
(***************************************************************************)
EXTENDS Integers, Sequences

CONSTANTS Capacity, Messages

VARIABLES
  queue,     \* the messages in transit
  sent,      \* every message ever sent
  received,  \* the sequence of messages received
  intact     \* FALSE while a new sender and what an old one left are mixed

vars == <<queue, sent, received, intact>>

Init == queue = <<>> /\ sent = {} /\ received = <<>> /\ intact = TRUE

Send(m) ==
  /\ m \notin sent /\ Len(queue) < Capacity
  /\ queue' = Append(queue, m)
  /\ sent' = sent \cup {m}
  /\ UNCHANGED received

Receive ==
  /\ queue # <<>>
  /\ received' = Append(received, Head(queue))
  /\ queue' = Tail(queue)
  /\ UNCHANGED sent

(* The receiver is killed over the first message, or nobody is left who    *)
(* holds the channel open.                                                 *)
Lose ==
  /\ queue # <<>>
  /\ queue' \in {Tail(queue), <<>>}
  /\ UNCHANGED <<sent, received>>

Next ==
  \/ intact /\ intact' /\ ((\E m \in Messages : Send(m)) \/ Receive \/ Lose)
  \/ ~intact \/ ~intact'

Spec == Init /\ [][Next]_vars
=============================================================================
