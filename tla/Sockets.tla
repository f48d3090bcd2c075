------------------------------- MODULE Sockets -------------------------------
(***************************************************************************)
(* The socket calls of lib/server.c: server_set_fd, which makes the        *)
(* listening socket, connect_to_server at the other end, and sendall, by   *)
(* which the threads of Matchmaking send to a client they share.           *)
(*                                                                         *)
(* Every call of the system may fail, at any time, and send may take a     *)
(* part of what it is given.  Between two processes only the connection    *)
(* is shared; each has descriptors of its own.                             *)
(***************************************************************************)
EXTENDS Integers, Sequences, FiniteSets, FiniteSetsExt

CONSTANTS
  MaxAddresses, \* how many addresses getaddrinfo may find
  MaxFd,        \* descriptors the server may open
  Sender,       \* the threads that send to the client
  Lengths,      \* how long a message can be, in bytes
  SendBuffer    \* the bytes the system buffers for a connection

ASSUME SocketsAssumption ==
  /\ {MaxAddresses, MaxFd, SendBuffer} \subseteq Nat \ {0}
  /\ Lengths \subseteq Nat
  /\ IsFiniteSet(Sender)

VARIABLES
  addresses, \* how many addresses getaddrinfo found for the server
  address,   \* server_ai, the number of one of them; past the last it is NULL
  socket,    \* the server's descriptors
  sockfd,    \* local of server_set_fd
  serverFd,  \* server->fd
  server,    \* where server_set_fd is
  client,    \* where connect_to_server is
  clientFd,  \* what became of the client's descriptor
  wire,      \* all bytes the connection was given
  taken,     \* how many of them the client has read
  peerGone,  \* the client is no longer there
  length, sent, \* n and sent of each sendall
  sender     \* where each sendall is

setUp == <<addresses, address, socket, sockfd, serverFd, server>>
connecting == <<client, clientFd>>
stream == <<wire, taken, peerGone, length, sent, sender>>
vars == <<setUp, connecting, stream>>

NoFd == 0
Fd == 1 .. MaxFd

Init ==
  /\ addresses = 0 /\ address = 1
  /\ socket = [fd \in Fd |-> "closed"]
  /\ sockfd = NoFd /\ serverFd = NoFd
  /\ server = "getaddrinfo"
  /\ client = "getaddrinfo" /\ clientFd = "closed"
  /\ wire = << >> /\ taken = 0
  /\ peerGone = FALSE
  /\ length = [t \in Sender |-> 0] /\ sent = [t \in Sender |-> 0]
  /\ sender = [t \in Sender |-> "idle"]

-----------------------------------------------------------------------------
(***************************************************************************)
(* server_set_fd                                                           *)
(***************************************************************************)

Free == {fd \in Fd : socket[fd] = "closed"}

\* close(sockfd); in the slip it is forgotten.
CloseForgotten == UNCHANGED socket
Close == socket' = [socket EXCEPT ![sockfd] = "closed"]

\* When getaddrinfo fails, freeaddrinfo gets a pointer nobody set: the function
\* returns NULL, or the program dies of it.
GetAddrInfo ==
  /\ server = "getaddrinfo"
  /\ \/ addresses' \in 1 .. MaxAddresses /\ server' = "socket"
     \/ server' \in {"failed", "crashed"} /\ UNCHANGED addresses
  /\ UNCHANGED <<address, socket, sockfd, serverFd, connecting, stream>>

\* The loop's test; in the slip it goes one too far.
OneTooMany == address <= addresses + 1
AddressLeft == address <= addresses

\* The head of the loop: socket() for this address, or on to the next.
Socket ==
  /\ server = "socket" /\ AddressLeft
  /\ \/ /\ Free # {}
        /\ sockfd' = Min(Free)
        /\ socket' = [socket EXCEPT ![Min(Free)] = "open"]
        /\ server' = "bind"
        /\ UNCHANGED address
     \/ address' = address + 1 /\ UNCHANGED <<socket, sockfd, server>>
  /\ UNCHANGED <<addresses, serverFd, connecting, stream>>

Bind ==
  /\ server = "bind"
  /\ \/ /\ socket' = [socket EXCEPT ![sockfd] = "bound"]
        /\ server' = "listen"
        /\ UNCHANGED address
     \/ Close /\ address' = address + 1 /\ server' = "socket"
  /\ UNCHANGED <<addresses, sockfd, serverFd, connecting, stream>>

\* No address was left: NULL, and the list is never freed.
NoneBound ==
  /\ server = "socket" /\ ~AddressLeft
  /\ server' = "failed"
  /\ UNCHANGED <<addresses, address, socket, sockfd, serverFd, connecting, stream>>

\* The rest of the list is freed; then listen.
Listen ==
  /\ server = "listen"
  /\ \/ /\ socket' = [socket EXCEPT ![sockfd] = "listening"]
        /\ serverFd' = sockfd
        /\ server' = "returned"
     \/ Close /\ server' = "failed" /\ UNCHANGED serverFd
  /\ UNCHANGED <<addresses, address, sockfd, connecting, stream>>

(***************************************************************************)
(* connect_to_server                                                       *)
(***************************************************************************)

Resolve ==
  /\ client = "getaddrinfo"
  /\ client' \in {"socket", "failed"}
  /\ UNCHANGED <<setUp, clientFd, stream>>

MakeSocket ==
  /\ client = "socket"
  /\ \/ client' = "connect" /\ clientFd' = "open"
     \/ client' = "failed" /\ UNCHANGED clientFd
  /\ UNCHANGED <<setUp, stream>>

\* connect reads the address from a list that was freed: it may still be there,
\* or the call fails, as it does when nobody listens.  Then the descriptor stays
\* open.
Connect ==
  /\ client = "connect"
  /\ \/ server = "returned" /\ client' = "connected" /\ clientFd' = "connected"
     \/ client' = "failed" /\ UNCHANGED clientFd
  /\ UNCHANGED <<setUp, stream>>

(***************************************************************************)
(* sendall, in threads of the server, once the connection was accepted.    *)
(***************************************************************************)

SendAll(t) ==
  /\ client = "connected" /\ sender[t] = "idle"
  /\ \E n \in Lengths : length' = [length EXCEPT ![t] = n]
  /\ sender' = [sender EXCEPT ![t] = "sending"]
  /\ UNCHANGED <<setUp, connecting, wire, taken, peerGone, sent>>

\* The place in the buffer the loop sends from; in the slip, its start.
FromStart(t) == 0
Progress(t) == sent[t]

\* The bytes of t's buffer from that place on, the first k of them.
Part(t, k) == [i \in 1 .. k |-> <<t, Progress(t) + i>>]

\* send() takes some of the rest, at most what there is room for; it may take it for a
\* client that is gone, as long as nobody told the system so.  It blocks while there is
\* no room.
Send(t) ==
  /\ sender[t] = "sending" /\ sent[t] < length[t]
  /\ \E k \in 1 .. length[t] - sent[t] :
       /\ Len(wire) - taken + k <= SendBuffer
       /\ wire' = wire \o Part(t, k)
       /\ sent' = [sent EXCEPT ![t] = @ + k]
  /\ UNCHANGED <<setUp, connecting, taken, peerGone, length, sender>>

\* The loop on an error of send; in the slip it tries again.
TryAgain == "sending"
GiveUp == "failed"

\* send() fails: the client is gone, or the system is out of memory, or whatever else.
\* sendall returns -1, however much was sent before.
SendFails(t) ==
  /\ sender[t] = "sending" /\ sent[t] < length[t]
  /\ sender' = [sender EXCEPT ![t] = GiveUp]
  /\ UNCHANGED <<setUp, connecting, wire, taken, peerGone, length, sent>>

\* When the loop ends.
AllSent(t) == sent[t] >= length[t]

SendAllReturns(t) ==
  /\ sender[t] = "sending" /\ AllSent(t)
  /\ sender' = [sender EXCEPT ![t] = "sent"]
  /\ UNCHANGED <<setUp, connecting, wire, taken, peerGone, length, sent>>

\* The client reads on, or goes.
Take ==
  /\ ~peerGone /\ taken < Len(wire)
  /\ taken' = taken + 1
  /\ UNCHANGED <<setUp, connecting, wire, peerGone, length, sent, sender>>

Go ==
  /\ client = "connected" /\ ~peerGone
  /\ peerGone' = TRUE
  /\ UNCHANGED <<setUp, connecting, wire, taken, length, sent, sender>>

-----------------------------------------------------------------------------
Sending(t) == Send(t) \/ SendFails(t) \/ SendAllReturns(t)

SetUp == GetAddrInfo \/ Socket \/ Bind \/ NoneBound \/ Listen

Next ==
  \/ SetUp
  \/ Resolve \/ MakeSocket \/ Connect
  \/ \E t \in Sender : SendAll(t) \/ Sending(t)
  \/ Take \/ Go

Spec == Init /\ [][Next]_vars

\* What comes of a send that the system can answer: it has room, or knows that the client
\* is gone.  That it fails for another reason is possible and nothing to wait for.
Answered(t) == Send(t) \/ (peerGone /\ SendFails(t)) \/ SendAllReturns(t)

\* The threads run.  The client need neither connect, nor read, nor go.
FairSpec == Spec /\ WF_vars(SetUp) /\ \A t \in Sender : WF_vars(Answered(t))

-----------------------------------------------------------------------------
TypeOK ==
  /\ addresses \in 0 .. MaxAddresses /\ address \in 1 .. MaxAddresses + 1
  /\ socket \in [Fd -> {"closed", "open", "bound", "listening"}]
  /\ {sockfd, serverFd} \subseteq Fd \cup {NoFd}
  /\ server \in {"getaddrinfo", "socket", "bind", "listen", "returned", "failed", "crashed"}
  /\ client \in {"getaddrinfo", "socket", "connect", "connected", "failed"}
  /\ clientFd \in {"closed", "open", "connected"}
  /\ wire \in Seq(Sender \X Nat)
  /\ taken \in 0 .. Len(wire) /\ peerGone \in BOOLEAN
  /\ length \in [Sender -> Lengths \cup {0}] /\ sent \in [Sender -> Nat]
  /\ sender \in [Sender -> {"idle", "sending", "sent", "failed"}]

\* Whichever call fails, and for however many of the addresses: the server has
\* at most one socket open while it tries, none when it gave up, and when it
\* succeeded the one that server->fd names, bound and listening.
OnlyTheListener ==
  LET open == {fd \in Fd : socket[fd] # "closed"} IN
  /\ Cardinality(open) <= 1
  /\ server \in {"failed", "crashed"} => open = {}
  /\ server = "returned" => open = {serverFd} /\ socket[serverFd] = "listening"

\* The bytes of t's buffer that the wire carries, by their numbers.
BytesOf(t) == {wire[p][2] : p \in {p \in 1 .. Len(wire) : wire[p][1] = t}}

\* Whatever parts send takes and however the parts of several threads mix: each
\* thread's bytes go out once, in order, from the first on and without a gap, also when
\* send failed in between; and all of them went out when its sendall returns n.
SentInOrder ==
  /\ \A p1, p2 \in 1 .. Len(wire) :
       p1 < p2 /\ wire[p1][1] = wire[p2][1] => wire[p1][2] < wire[p2][2]
  /\ \A t \in Sender :
       /\ BytesOf(t) = 1 .. sent[t]
       /\ sender[t] = "sent" => sent[t] = length[t]

\* sendall waits, without a time limit, for nothing but room in the buffer: if the
\* client reads again and again, or goes, every call returns.
SendEnds ==
  []<>(peerGone \/ Len(wire) - taken < SendBuffer) =>
    \A t \in Sender : (sender[t] = "sending") ~> (sender[t] \in {"sent", "failed"})
=============================================================================
