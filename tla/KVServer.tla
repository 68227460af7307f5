------------------------------ MODULE KVServer ------------------------------
(***************************************************************************)
(* kv-server/kv-server.c and any number of kv-client.c, joined by TCP      *)
(* connections: the server serves one connection until it ends; others     *)
(* wait in the backlog of listen, although their clients are told OK.      *)
(*                                                                         *)
(* A connection carries messages both ways, in order; what is written to a *)
(* client that has closed its end is lost.  A client may be killed at any  *)
(* moment and started again.  The bytes of a command arrive together.      *)
(***************************************************************************)
EXTENDS KVStore

CONSTANTS
  Clients,            \* the running kv-client processes
  Commands,           \* what is typed at them
  Connections,        \* bounds the connections that exist at one time
  Backlog,            \* the connections that may wait: listen(sockfd, 5)
  None                \* sockfd = -1; nothing sent; nothing known

(* The commands there are; in one the server finds no key or value.        *)
AllCommands ==
  [op : {"create", "update"}, key : Key, value : Value]
    \cup [op : {"read", "delete"}, key : Key]
    \cup {[op |-> "invalid"]}

ASSUME KVServerAssumption ==
  /\ Commands \subseteq AllCommands
  /\ Backlog \in Nat
  /\ None \notin Connections \cup Commands \cup Value

VARIABLES
  backlog,            \* the connections that wait for accept, in order
  newsockfd,          \* the connection that is served, or None
  requests,           \* on each connection, what the server has not read
  replies,            \* ... and what the client has not read
  sockfd,             \* each client's connection, or None
  sent,               \* the command each client waits for in send_command
  known               \* what each client was last told in its session:
                      \* <<key, value>>, the value None if there is no key

storeVars == <<store, heap>>
serverVars == <<store, heap, backlog, newsockfd>>
clientVars == <<sockfd, sent, known>>
vars == <<store, heap, backlog, newsockfd, requests, replies, sockfd, sent, known>>

Disconnect == [op |-> "disconnect"]

Init ==
  /\ StoreInit
  /\ backlog = <<>>
  /\ newsockfd = None
  /\ requests = [s \in Connections |-> <<>>]
  /\ replies = [s \in Connections |-> <<>>]
  /\ sockfd = [c \in Clients |-> None]
  /\ sent = [c \in Clients |-> None]
  /\ known = [c \in Clients |-> None]

Queued(s) == \E i \in 1 .. Len(backlog) : backlog[i] = s
Open(s) == \E c \in Clients : sockfd[c] = s
Exists(s) == Queued(s) \/ newsockfd = s \/ Open(s)

-----------------------------------------------------------------------------
(* kv-client.c                                                             *)

MayConnect(c) == sockfd[c] = None /\ Len(backlog) < Backlog

(* connect returns when the connection is in the backlog.                  *)
connect_to_server(c) ==
  /\ MayConnect(c)
  /\ \E s \in Connections :
       /\ ~Exists(s)
       /\ backlog' = Append(backlog, s)
       /\ sockfd' = [sockfd EXCEPT ![c] = s]
       /\ requests' = [requests EXCEPT ![s] = <<>>]
       /\ replies' = [replies EXCEPT ![s] = <<>>]
  /\ UNCHANGED <<store, heap, newsockfd, sent, known>>

(* The client closes its end, and will read no more.                       *)
Close(c) ==
  /\ sockfd' = [sockfd EXCEPT ![c] = None]
  /\ sent' = [sent EXCEPT ![c] = None]
  /\ known' = [known EXCEPT ![c] = None]
  /\ replies' = [replies EXCEPT ![sockfd[c]] = <<>>]

(* The client does not wait for the server's OK; likewise for "exit".      *)
disconnect_from_server(c) ==
  /\ sockfd[c] # None /\ sent[c] = None
  /\ requests' = [requests EXCEPT ![sockfd[c]] = Append(@, Disconnect)]
  /\ Close(c)
  /\ UNCHANGED serverVars

MaySend_Unread(c) == sockfd[c] # None  \* faulty
MaySend(c) == sockfd[c] # None /\ sent[c] = None

(* send_command up to its read, and from the read on.                      *)
send_command(c) ==
  /\ MaySend(c)
  /\ \E cmd \in Commands :
       /\ requests' = [requests EXCEPT ![sockfd[c]] = Append(@, cmd)]
       /\ sent' = [sent EXCEPT ![c] = cmd]
  /\ UNCHANGED <<serverVars, replies, sockfd, known>>

(* What a client learns from the answer to cmd.                            *)
Learnt(cmd, response, before) ==
  CASE cmd.op \in {"create", "update"} /\ response = <<"OK">> -> <<cmd.key, cmd.value>>
    [] cmd.op = "delete" /\ response = <<"OK">> -> <<cmd.key, None>>
    [] cmd.op = "read" /\ response[1] = "Value: " -> <<cmd.key, response[2]>>
    [] response = <<"Error: Key not found">> -> <<cmd.key, None>>
    [] OTHER -> before

read_reply(c) ==
  /\ sent[c] # None
  /\ replies[sockfd[c]] # <<>>
  /\ known' = [known EXCEPT ![c] = Learnt(sent[c], Head(replies[sockfd[c]])[2], @)]
  /\ replies' = [replies EXCEPT ![sockfd[c]] = Tail(@)]
  /\ sent' = [sent EXCEPT ![c] = None]
  /\ UNCHANGED <<serverVars, requests, sockfd>>

(* The process is killed; the next one starts unconnected.                 *)
Killed(c) ==
  /\ sockfd[c] # None
  /\ Close(c)
  /\ UNCHANGED <<serverVars, requests>>

-----------------------------------------------------------------------------
(* kv-server.c                                                             *)

MayAccept_Always == backlog # <<>>  \* faulty
MayAccept == backlog # <<>> /\ newsockfd = None

Accept ==
  /\ MayAccept
  /\ newsockfd' = Head(backlog)
  /\ backlog' = Tail(backlog)
  /\ UNCHANGED <<store, heap, requests, replies, clientVars>>

Write_OKOnly(cmd, response) ==  \* faulty
  replies' = IF Open(newsockfd) /\ response = <<"OK">>
             THEN [replies EXCEPT ![newsockfd] = Append(@, <<cmd, response>>)]
             ELSE replies

(* write: lost when the client has closed its end.  A reply is modelled    *)
(* with the command it answers.                                            *)
Write(cmd, response) ==
  replies' = IF Open(newsockfd)
             THEN [replies EXCEPT ![newsockfd] = Append(@, <<cmd, response>>)]
             ELSE replies

Execute(cmd, response) ==
  \/ cmd.op = "create" /\ handle_create(cmd.key, cmd.value, response)
  \/ cmd.op = "read" /\ read_value(cmd.key, response)
  \/ cmd.op = "update" /\ update_value(cmd.key, cmd.value, response)
  \/ cmd.op = "delete" /\ delete_value(cmd.key, response)
  \/ cmd.op = "invalid" /\ response = <<"Error: Invalid command">> /\ UNCHANGED storeVars

Responses ==
  {ValueLine(value) : value \in Value}
    \cup {<<"OK">>, <<"Error: Key already exists">>, <<"Error: Store full">>,
          <<"Error: Key not found">>, <<"Error: Invalid command">>}

HandleCommand ==
  /\ newsockfd # None /\ requests[newsockfd] # <<>>
  /\ LET cmd == Head(requests[newsockfd])
     IN \E response \in Responses : Execute(cmd, response) /\ Write(cmd, response)
  /\ requests' = [requests EXCEPT ![newsockfd] = Tail(@)]
  /\ UNCHANGED <<backlog, newsockfd, clientVars>>

HandleDisconnect ==
  /\ newsockfd # None /\ requests[newsockfd] # <<>>
  /\ Head(requests[newsockfd]) = Disconnect
  /\ Write(Disconnect, <<"OK">>)
  /\ requests' = [requests EXCEPT ![newsockfd] = Tail(@)]
  /\ newsockfd' = None
  /\ UNCHANGED <<store, heap, backlog, clientVars>>

EndOfFile_Missed(s) == FALSE  \* faulty
(* read returns 0 or an error.                                             *)
EndOfFile(s) == requests[s] = <<>> /\ ~Open(s)

Hangup ==
  /\ newsockfd # None /\ EndOfFile(newsockfd)
  /\ newsockfd' = None
  /\ UNCHANGED <<store, heap, backlog, requests, replies, clientVars>>

Server == Accept \/ HandleCommand \/ HandleDisconnect \/ Hangup

-----------------------------------------------------------------------------
Next ==
  \/ Server
  \/ \E c \in Clients :
       \/ connect_to_server(c) \/ disconnect_from_server(c)
       \/ send_command(c) \/ read_reply(c) \/ Killed(c)

Spec == Init /\ [][Next]_vars

(* The server and the clients' calls of read make progress.  Nothing is    *)
(* assumed of the person who types the commands.                           *)
FairSpec == Spec /\ WF_vars(Server) /\ \A c \in Clients : WF_vars(read_reply(c))

-----------------------------------------------------------------------------
TypeOK ==
  /\ StoreTypeOK
  /\ backlog \in Seq(Connections) /\ Len(backlog) <= Backlog
  /\ newsockfd \in Connections \cup {None}
  /\ requests \in [Connections -> Seq(Commands \cup {Disconnect})]
  /\ replies \in [Connections -> Seq(Commands \X Responses)]
  /\ sockfd \in [Clients -> Connections \cup {None}]
  /\ sent \in [Clients -> Commands \cup {None}]

(* The store is sound, and so are the connections.                         *)
StoreInv == TypeOK /\ KeysUnique /\ ValuesOwned

(* The server takes what one read returns for one command.  It is right to *)
(* do so, although TCP keeps no boundaries, because no client writes a     *)
(* command before the last one was read and answered: a connection never   *)
(* holds two, and the answer a client reads is the answer to what it sent. *)
OneCommandAtATime ==
  /\ \A s \in Connections : Len(requests[s]) + Len(replies[s]) <= 1
  /\ \A c \in Clients : \A i \in 1 .. IF sockfd[c] = None THEN 0 ELSE Len(replies[sockfd[c]]) :
       replies[sockfd[c]][i][1] = sent[c]

(* What a client was last told stays true until its session ends, because  *)
(* the server serves no one else meanwhile.                                *)
SessionIsolated ==
  \A c \in Clients :
    known[c] # None /\ sent[c] = None =>
      IF known[c][2] = None
      THEN ~Has(known[c][1])
      ELSE Has(known[c][1]) /\ Contents[known[c][1]] = known[c][2]

(* The service implements a map that executes one command at a time.       *)
Pending == {s \in Connections : replies[s] # <<>>}
Map == INSTANCE KVMap WITH
         Room <- LAMBDA keys : Cardinality(keys) < MAX_PAIRS,
         NoAnswer <- None,
         dict <- Contents,
         answer <- IF Pending = {} THEN None
                   ELSE Head(replies[CHOOSE s \in Pending : TRUE])
RefinesKVMap == Map!Spec

(* A command on the connection that is served is answered, unless its      *)
(* client is killed.                                                       *)
CommandsAnswered ==
  \A c \in Clients :
    sent[c] # None /\ newsockfd = sockfd[c] ~> sent[c] = None

(* A connection in the backlog is served in the end, unless the client     *)
(* that is served never leaves.                                            *)
NobodyForgotten ==
  \A s \in Connections :
    [](Queued(s) => \/ <>(newsockfd = s)
                    \/ <>[](newsockfd # None /\ Open(newsockfd)))
=============================================================================
