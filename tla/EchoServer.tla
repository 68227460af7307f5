----------------------------- MODULE EchoServer -----------------------------
(***************************************************************************)
(* kv-server/simple-server.c, epoll-server.c and any number of             *)
(* simple-client.c: a client sends a line and reads "I got your message".  *)
(* simple-server.c serves one connection and returns; epoll-server.c       *)
(* serves them all from one loop, in which every descriptor is edge-       *)
(* triggered: it is reported once for what has happened to it, not for as  *)
(* long as there is something to read.                                     *)
(*                                                                         *)
(* A connection is named by its client; each client runs once.  A line     *)
(* arrives whole.  A process that ends, or is killed, closes its end: the  *)
(* other end hears of it by a FIN, or by a RST if something was left       *)
(* unread, and what is then written to it comes back as a RST.             *)
(***************************************************************************)
EXTENDS Integers, Sequences, FiniteSets, SequencesExt

CONSTANTS
  Clients,      \* the runs of simple-client.c
  Backlog,      \* the connections that may wait for accept: listen(sockfd, 5)
  MAX_EVENTS

ASSUME EchoServerAssumption ==
  /\ IsFiniteSet(Clients) /\ Clients # {} /\ "sockfd" \notin Clients
  /\ Backlog \in Nat \ {0} /\ MAX_EVENTS \in Nat \ {0}

VARIABLES
  server,       \* "simple" or "epoll": the program that runs
  s_pc,         \* where it is
  backlog,      \* the connections that wait for accept, in order
  accepted,     \* the connections accept has returned
  ready,        \* the kernel's list of descriptors to report, in order
  events,       \* events[i] to events[nfds - 1]
  newsockfd,    \* the connection that is being served
  n,            \* the lines that read has returned: 0 at end of file
  c_pc,         \* where each client is
  link,         \* what the server's end of each connection has heard
  inbox,        \* the lines in it that the server has not read
  outbox,       \* the answers that the client has not read
  coalesced     \* history: connections that came while an earlier one's
                \* event was still to be reported

connVars == <<link, inbox, outbox>>
epollVars == <<ready, events>>
clientVars == <<c_pc, connVars>>
vars == <<server, s_pc, backlog, accepted, epollVars, newsockfd, n, clientVars,
          coalesced>>

Fds == Clients \cup {"sockfd"}

Init ==
  /\ server \in {"simple", "epoll"}
  /\ s_pc = IF server = "simple" THEN "accept" ELSE "epoll_wait"
  /\ backlog = <<>> /\ accepted = {}
  /\ ready = <<>> /\ events = <<>>
  /\ newsockfd = (CHOOSE c \in Clients : TRUE) /\ n = 0  \* not read before accept
  /\ c_pc = [c \in Clients |-> "off"]
  /\ link = [c \in Clients |-> "open"]
  /\ inbox = [c \in Clients |-> 0] /\ outbox = [c \in Clients |-> 0]
  /\ coalesced = 0

-----------------------------------------------------------------------------
(* The kernel.                                                             *)

(* What EPOLLIN says of a descriptor.                                      *)
Pollable(fd) ==
  IF fd = "sockfd" THEN backlog # <<>> ELSE inbox[fd] > 0 \/ link[fd] # "open"

(* Something happens to fd: it goes on the list, unless it is on it.       *)
Edge(fd) == IF Contains(ready, fd) THEN ready ELSE Append(ready, fd)

Registered(c) == server = "epoll" /\ c \in accepted
EdgeOn(c) == IF Registered(c) THEN Edge(c) ELSE ready

-----------------------------------------------------------------------------
(* simple-client.c                                                         *)

connect(c) ==
  /\ c_pc[c] = "off"
  /\ IF s_pc = "down"
     THEN /\ c_pc' = [c_pc EXCEPT ![c] = "gone"]
          /\ UNCHANGED <<backlog, ready, coalesced>>
     ELSE /\ Len(backlog) < Backlog
          /\ c_pc' = [c_pc EXCEPT ![c] = "input"]
          /\ backlog' = Append(backlog, c)
          /\ ready' = IF server = "epoll" THEN Edge("sockfd") ELSE ready
          /\ coalesced' = IF Contains(ready, "sockfd") THEN coalesced + 1 ELSE coalesced
  /\ UNCHANGED <<server, s_pc, accepted, events, newsockfd, n, connVars>>

AfterSend_Unread == "input"  \* faulty
AfterSend == "reply"

(* To a server that is gone the line is lost, or SIGPIPE ends the client.  *)
SendLine(c) ==
  /\ c_pc[c] = "input"
  /\ IF s_pc = "down"
     THEN /\ \E place \in {AfterSend, "gone"} : c_pc' = [c_pc EXCEPT ![c] = place]
          /\ UNCHANGED <<inbox, ready>>
     ELSE /\ c_pc' = [c_pc EXCEPT ![c] = AfterSend]
          /\ inbox' = [inbox EXCEPT ![c] = @ + 1]
          /\ ready' = EdgeOn(c)
  /\ UNCHANGED <<server, s_pc, backlog, accepted, events, newsockfd, n, link,
                 outbox, coalesced>>

(* At the end of its input fgets leaves the buffer empty: nothing is sent, *)
(* and the client waits for the answer all the same.                       *)
SendNothing(c) ==
  /\ c_pc[c] = "input"
  /\ c_pc' = [c_pc EXCEPT ![c] = "nothing"]
  /\ UNCHANGED <<server, s_pc, backlog, accepted, epollVars, newsockfd, n,
                 connVars, coalesced>>

(* The answer; or, when the server is gone, an empty line or an error.     *)
ReadAnswer(c) ==
  /\ c_pc[c] \in {"reply", "nothing"}
  /\ \/ /\ outbox[c] > 0
        /\ outbox' = [outbox EXCEPT ![c] = 0]
        /\ c_pc' = [c_pc EXCEPT ![c] = "input"]
     \/ /\ outbox[c] = 0 /\ s_pc = "down"
        /\ \E place \in {"input", "gone"} : c_pc' = [c_pc EXCEPT ![c] = place]
        /\ UNCHANGED outbox
  /\ UNCHANGED <<server, s_pc, backlog, accepted, epollVars, newsockfd, n, link,
                 inbox, coalesced>>

(* The user ends the client: it never returns.                             *)
Kill(c) ==
  /\ c_pc[c] \in {"input", "reply", "nothing"}
  /\ c_pc' = [c_pc EXCEPT ![c] = "gone"]
  /\ link' = [link EXCEPT ![c] = IF outbox[c] > 0 THEN "aborted" ELSE "closed"]
  /\ ready' = EdgeOn(c)
  /\ UNCHANGED <<server, s_pc, backlog, accepted, events, newsockfd, n, inbox,
                 outbox, coalesced>>

(* The RST that answers what was written to a client that had gone.        *)
ResetArrives(c) ==
  /\ link[c] = "answered"
  /\ link' = [link EXCEPT ![c] = "dead"]
  /\ ready' = EdgeOn(c)
  /\ UNCHANGED <<server, s_pc, backlog, accepted, events, newsockfd, n, c_pc,
                 inbox, outbox, coalesced>>

-----------------------------------------------------------------------------
(* Both servers.                                                           *)

(* accept; the epoll server adds the connection to its set, and it is      *)
(* reported at once if something has happened to it before.                *)
Accept(after) ==
  /\ IF backlog = <<>>
     THEN /\ s_pc' = "down"
          /\ UNCHANGED <<backlog, accepted, newsockfd, ready>>
     ELSE /\ newsockfd' = Head(backlog)
          /\ backlog' = Tail(backlog)
          /\ accepted' = accepted \cup {newsockfd'}
          /\ ready' = IF server = "epoll" /\ Pollable(newsockfd')
                      THEN Edge(newsockfd') ELSE ready
          /\ s_pc' = after
  /\ UNCHANGED <<server, n, clientVars, coalesced>>

(* read has nothing to return: EAGAIN, or ECONNRESET.                      *)
ReadFails(c) == inbox[c] = 0 /\ link[c] \in {"open", "aborted"}

Read(c) ==
  /\ IF ReadFails(c)
     THEN s_pc' = "down" /\ UNCHANGED <<newsockfd, n, inbox>>
     ELSE /\ newsockfd' = c
          /\ n' = inbox[c]
          /\ inbox' = [inbox EXCEPT ![c] = 0]
          /\ s_pc' = "write"
  /\ UNCHANGED <<server, backlog, accepted, ready, c_pc, link, outbox, coalesced>>

WriteFails_Ignored(c) == FALSE  \* faulty
(* ECONNRESET or SIGPIPE.                                                  *)
WriteFails(c) == link[c] \in {"aborted", "dead"}

Write(after) ==
  /\ s_pc = "write"
  /\ IF WriteFails(newsockfd)
     THEN s_pc' = "down" /\ UNCHANGED <<link, outbox>>
     ELSE /\ s_pc' = after
          /\ IF link[newsockfd] = "open"
             THEN outbox' = [outbox EXCEPT ![newsockfd] = @ + 1] /\ UNCHANGED link
             ELSE link' = [link EXCEPT ![newsockfd] = "answered"] /\ UNCHANGED outbox
  /\ UNCHANGED <<server, backlog, accepted, epollVars, newsockfd, n, c_pc, inbox,
                 coalesced>>

-----------------------------------------------------------------------------
(* simple-server.c                                                         *)

AcceptOne ==
  /\ server = "simple" /\ s_pc = "accept" /\ backlog # <<>>
  /\ Accept("read")
  /\ UNCHANGED events

ReadLine ==
  /\ server = "simple" /\ s_pc = "read" /\ Pollable(newsockfd)
  /\ Read(newsockfd)
  /\ UNCHANGED events

GoesOn_Once == FALSE  \* faulty
(* "while (n1 > 0 && n2 > 0)"                                              *)
GoesOn == n > 0

WriteAnswer ==
  /\ server = "simple"
  /\ Write(IF GoesOn THEN "read" ELSE "down")

-----------------------------------------------------------------------------
(* epoll-server.c                                                          *)

(* The elements of s that are in S, in their order: SelectSeq, which the   *)
(* provers do not know, by the places of those elements in s.              *)
Kept(s, S) ==
  LET places == {i \in DOMAIN s : s[i] \in S}
      nth(k) == CHOOSE i \in places : Cardinality({j \in places : j <= i}) = k
  IN  [k \in 1 .. Cardinality(places) |-> s[nth(k)]]

(* What is on the list is reported if there still is something to read,    *)
(* and leaves the list.                                                    *)
epoll_wait ==
  /\ s_pc = "epoll_wait"
  /\ LET live == Kept(ready, {fd \in Fds : Pollable(fd)})
     IN  /\ live # <<>>
         /\ events' = SubSeq(live, 1, Min({Len(live), MAX_EVENTS}))
         /\ ready' = SubSeq(live, MAX_EVENTS + 1, Len(live))
  /\ s_pc' = "event"
  /\ UNCHANGED <<server, backlog, accepted, newsockfd, n, clientVars, coalesced>>

LaterEvents_Dropped == <<>>  \* faulty
LaterEvents == Tail(events)

NextEvent(later) == IF later = <<>> THEN "epoll_wait" ELSE "event"

(* One connection is accepted for an event on sockfd, however many there   *)
(* are.                                                                    *)
AcceptEvent ==
  /\ s_pc = "event" /\ Head(events) = "sockfd"
  /\ Accept(NextEvent(LaterEvents))
  /\ events' = LaterEvents

ReadEvent ==
  /\ s_pc = "event" /\ Head(events) # "sockfd"
  /\ Read(Head(events))
  /\ events' = LaterEvents

WriteEvent ==
  /\ server = "epoll"
  /\ Write(NextEvent(events))

-----------------------------------------------------------------------------
Serving ==
  \/ AcceptOne \/ ReadLine \/ WriteAnswer
  \/ epoll_wait \/ AcceptEvent \/ ReadEvent \/ WriteEvent

Next ==
  \/ Serving
  \/ \E c \in Clients : \/ connect(c) \/ SendLine(c) \/ SendNothing(c)
                         \/ ReadAnswer(c) \/ Kill(c) \/ ResetArrives(c)

Spec == Init /\ [][Next]_vars

(* The server runs, and a RST that is on its way arrives.  Users need not  *)
(* type, and clients need not end.                                         *)
FairSpec ==
  /\ Spec
  /\ WF_vars(Serving)
  /\ \A c \in Clients : WF_vars(ReadAnswer(c)) /\ WF_vars(ResetArrives(c))

-----------------------------------------------------------------------------
Places == {"off", "input", "reply", "nothing", "gone"}
InService(c) == s_pc = "write" /\ newsockfd = c

TypeOK ==
  /\ server \in {"simple", "epoll"}
  /\ s_pc \in {"accept", "read", "write", "epoll_wait", "event", "down"}
  /\ backlog \in Seq(Clients) /\ Len(backlog) <= Backlog
  /\ accepted \subseteq Clients \ ToSet(backlog)
  /\ ready \in Seq(Fds) /\ events \in Seq(Fds) /\ Len(events) <= MAX_EVENTS
  /\ s_pc = "event" => events # <<>>
  /\ newsockfd \in Clients /\ n \in {0, 1}
  /\ c_pc \in [Clients -> Places]
  /\ link \in [Clients -> {"open", "closed", "aborted", "answered", "dead"}]
  /\ inbox \in [Clients -> {0, 1}] /\ outbox \in [Clients -> {0, 1}]
  /\ coalesced \in 0 .. Backlog

(* What one read returns is one line, and what a client reads answers its  *)
(* own last line, although TCP keeps no boundaries and no line is counted: *)
(* a client that waits for an answer has exactly one line or answer on its *)
(* way, and no other client has any.                                       *)
OneLineAtATime ==
  \A c \in Clients :
    s_pc # "down" /\ link[c] = "open" =>
      inbox[c] + outbox[c] + (IF InService(c) THEN 1 ELSE 0)
        = (IF c_pc[c] = "reply" THEN 1 ELSE 0)

(* The invariant of the service.                                           *)
EchoInv == TypeOK /\ OneLineAtATime

Pending(fd) == Cardinality({i \in DOMAIN ready : ready[i] = fd})
                 + Cardinality({i \in DOMAIN events : events[i] = fd})

(* No edge is lost in epoll's loop.  A connection with something to read   *)
(* is still to be reported, is being handled, or waits for a RST that is   *)
(* on its way.  The backlog holds one connection for each event on sockfd  *)
(* that is still to be handled, so that accept never fails, and besides as *)
(* many as have come while another one's event was pending: so many wait   *)
(* until somebody else connects.                                           *)
EdgesKept ==
  server = "epoll" /\ s_pc # "down" =>
    /\ \A c \in accepted :
         Pollable(c) => Pending(c) > 0 \/ InService(c) \/ link[c] = "answered"
    /\ Len(backlog) = Pending("sockfd") + coalesced

(* Both servers go on for as long as no connection they have accepted has  *)
(* ended: no error exit is taken for anything else.                        *)
ExitsOnlyOnDeparture ==
  s_pc = "down" => \E c \in accepted : link[c] # "open"

(* A line sent on an accepted connection is answered, and the answer read, *)
(* whatever other clients do, unless the server ends.                      *)
ClientsAnswered ==
  \A c \in Clients :
    c \in accepted /\ c_pc[c] = "reply" ~> c_pc[c] # "reply" \/ s_pc = "down"

(* Any client that leaves after its connection was accepted takes the      *)
(* server with it: simple-server.c returns, and epoll-server.c writes an   *)
(* answer to the end of file, which comes back as a RST.                   *)
DepartureEndsService ==
  \A c \in Clients : c \in accepted /\ link[c] # "open" ~> s_pc = "down"
=============================================================================
