--------------------------- MODULE SunspecServer ---------------------------
(***************************************************************************)
(* A SunSpec server of sunspec.c: one thread accepts clients into a fixed  *)
(* number of slots, receives their requests and answers them (SunspecImage *)
(* is about what it answers).                                              *)
(*                                                                         *)
(* Clients connect, send requests, close, or vanish without closing (only  *)
(* TCP keepalive tells).  select() with a timeout and no ready socket      *)
(* changes nothing and is no step.                                         *)
(***************************************************************************)
EXTENDS Integers, Sequences, FiniteSetsExt

CONSTANTS
  ServerConns,          \* TCP connections that clients make
  MaxClients,     \* SUNSPEC_MAX_CLIENTS
  NoFd            \* an unused slot

SlotIds == 1..MaxClients

ASSUME SunspecConstants == MaxClients \in Nat \ {0} /\ NoFd \notin ServerConns

VARIABLES
  \* the network
  peer,         \* connection -> "none", "open", "closed" by the client, "lost", "dead"
  inbox,        \* connections with a request to be received
  backlog,      \* connections to be accepted, oldest first
  \* the server
  client_fds,   \* slot -> connection or NoFd
  read_fd_set,  \* connections select() has reported
  srv,          \* what the thread does
  serving       \* slot of the client served last in this pass

netVars    == <<peer, inbox, backlog>>
serverVars == <<client_fds, read_fd_set, srv, serving>>
sunspecVars == <<netVars, serverVars>>

SunspecInit ==
  /\ peer = [c \in ServerConns |-> "none"]
  /\ inbox = {}
  /\ backlog = <<>>
  /\ client_fds = [i \in SlotIds |-> NoFd]
  /\ read_fd_set = {}
  /\ srv = "select" /\ serving = 0

-----------------------------------------------------------------------------
(***************************************************************************)
(* The clients and the network.                                            *)
(***************************************************************************)
Connect(c) ==
  /\ peer[c] = "none" /\ srv # "closed"
  /\ peer' = [peer EXCEPT ![c] = "open"]
  /\ backlog' = Append(backlog, c)
  /\ UNCHANGED <<inbox, serverVars>>

Request(c) ==
  /\ peer[c] = "open" /\ c \notin inbox
  /\ inbox' = inbox \cup {c}
  /\ UNCHANGED <<peer, backlog, serverVars>>

\* A client closes the connection, or vanishes.
Leave(c, how) ==
  /\ peer[c] = "open"
  /\ peer' = [peer EXCEPT ![c] = how]
  /\ UNCHANGED <<inbox, backlog, serverVars>>

InSlot(c)  == \E i \in SlotIds : client_fds[i] = c
Waiting(c) == \E i \in DOMAIN backlog : backlog[i] = c

\* TCP keepalive, enabled on accepted connections, gives up on a client.
KeepaliveExpires(c) ==
  /\ peer[c] = "lost" /\ InSlot(c)
  /\ peer' = [peer EXCEPT ![c] = "dead"]
  /\ UNCHANGED <<inbox, backlog, serverVars>>

-----------------------------------------------------------------------------
(***************************************************************************)
(* server_thread().                                                        *)
(***************************************************************************)
Readable(c) == c \in inbox \/ peer[c] \in {"closed", "dead"}

\* The server closes its end of connections cs.
Closed(cs) ==
  /\ peer' = [c \in ServerConns |-> IF c \in cs THEN "none" ELSE peer[c]]
  /\ inbox' = inbox \ cs

FreeSlots == {i \in SlotIds : client_fds[i] = NoFd}

\* accept_client(): the client gets the first free slot, or is rejected.
AcceptClient ==
  /\ backlog' = Tail(backlog)
  /\ IF FreeSlots # {}
     THEN /\ client_fds' = [client_fds EXCEPT ![Min(FreeSlots)] = Head(backlog)]
          /\ UNCHANGED <<peer, inbox>>
     ELSE Closed({Head(backlog)}) /\ UNCHANGED client_fds

\* select() reports the used slots that are readable and the listening
\* socket, and one client is accepted (the oldest: nothing that happens
\* between the two calls changes which one).
SelectAccept ==
  /\ srv = "select"
  /\ backlog # <<>>
  /\ read_fd_set' = {c \in ServerConns : InSlot(c) /\ Readable(c)}
  /\ AcceptClient
  /\ srv' = "scan"
  /\ UNCHANGED serving

\* No client waits to be accepted, or accept() fails (the next one may work).
SelectOnly ==
  /\ srv = "select"
  /\ read_fd_set' = {c \in ServerConns : InSlot(c) /\ Readable(c)}
  /\ read_fd_set' # {} \/ backlog # <<>>
  /\ srv' = "scan"
  /\ UNCHANGED <<netVars, client_fds, serving>>

\* Slots still to be handled in this pass.  A client accepted in this pass is
\* not among the sockets reported.
Ready == {i \in SlotIds : i > serving /\ client_fds[i] \in read_fd_set}

ScanEnds ==
  /\ srv = "scan" /\ Ready = {}
  /\ srv' = "select" /\ serving' = 0
  /\ read_fd_set' = {}
  /\ UNCHANGED <<netVars, client_fds>>

CloseClient(i) ==
  /\ Closed({client_fds[i]})
  /\ client_fds' = [client_fds EXCEPT ![i] = NoFd]

\* Mutant: a client that cannot be received from is kept.
ReceiveFailsKeeps(i) ==
  inbox' = inbox \ {client_fds[i]} /\ UNCHANGED <<peer, client_fds>>

\* modbus_receive() fails: the client has closed or is dead, or its frame is
\* broken or not completed in time.
ReceiveFails(i) == CloseClient(i)

\* The request is taken from the socket.
Received(i) ==
  /\ client_fds[i] \in inbox
  /\ inbox' = inbox \ {client_fds[i]}
  /\ UNCHANGED <<peer, client_fds>>

\* handle_client() for the next ready slot: it is closed, or the unit ID is
\* unknown and there is no answer, or an answer is made (data, or an
\* exception for another function or an invalid source).
HandleClient ==
  LET i == Min(Ready) IN
  /\ srv = "scan" /\ Ready # {}
  /\ serving' = i
  /\ \/ ReceiveFails(i) /\ srv' = "scan"
     \/ Received(i) /\ srv' \in {"scan", "reply"}
  /\ UNCHANGED <<backlog, read_fd_set>>

\* modbus_reply() or modbus_reply_exception().  Sending to a client that has
\* left may fail: it is closed.
Reply ==
  /\ srv = "reply"
  /\ \/ UNCHANGED <<peer, inbox, client_fds>>
     \/ peer[client_fds[serving]] # "open" /\ CloseClient(serving)
  /\ srv' = "scan"
  /\ UNCHANGED <<backlog, read_fd_set, serving>>

\* The loop is left: select() fails, or server_shutdown() has cleared
\* thread_running, which is read only here.
LeaveServer ==
  /\ srv = "select"
  /\ srv' = "ended"
  /\ UNCHANGED <<netVars, client_fds, read_fd_set, serving>>

\* server_shutdown() has joined the thread, and closes the clients and the
\* listening socket.
CloseServer ==
  /\ srv = "ended"
  /\ srv' = "closed"
  /\ Closed({c \in ServerConns : InSlot(c) \/ Waiting(c)})
  /\ backlog' = <<>>
  /\ client_fds' = [i \in SlotIds |-> NoFd]
  /\ UNCHANGED <<read_fd_set, serving>>

ServerDone == srv = "closed" /\ UNCHANGED sunspecVars

-----------------------------------------------------------------------------
Clients ==
  \E c \in ServerConns :
    \/ Connect(c)
    \/ Request(c)
    \/ Leave(c, "closed") \/ Leave(c, "lost")

ServerStep ==
  SelectAccept \/ SelectOnly \/ ScanEnds \/ HandleClient \/ Reply

SunspecNext ==
  \/ Clients
  \/ \E c \in ServerConns : KeepaliveExpires(c)
  \/ ServerStep
  \/ LeaveServer \/ CloseServer
  \/ ServerDone

\* The thread is scheduled, accept() does not fail for ever, and keepalive
\* gives up on a client that does not answer.
SunspecFairness ==
  /\ WF_sunspecVars(ServerStep)
  /\ SF_sunspecVars(SelectAccept)
  /\ \A c \in ServerConns : WF_sunspecVars(KeepaliveExpires(c))

SunspecSpec == SunspecInit /\ [][SunspecNext]_sunspecVars /\ SunspecFairness

-----------------------------------------------------------------------------
\* server_thread() and accept_client(): a slot does not stay with a client
\* that closed or vanished, whatever the others do, and a client that waits
\* to be accepted or has sent a request is dealt with.
ClientsAreServed ==
  \A c \in ServerConns :
    /\ (InSlot(c) /\ peer[c] \in {"closed", "lost", "dead"})
         ~> (~InSlot(c) \/ srv \in {"ended", "closed"})
    /\ (Waiting(c) \/ c \in inbox)
         ~> ((~Waiting(c) /\ c \notin inbox) \/ srv \in {"ended", "closed"})
=============================================================================
