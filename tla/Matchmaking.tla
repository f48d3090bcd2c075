----------------------------- MODULE Matchmaking -----------------------------
(***************************************************************************)
(* The matchmaking server: lib/server.c and lib/matchmaking.c on the queue *)
(* of lib/ts_queue.c.                                                      *)
(*                                                                         *)
(* The acceptor (server_worker) queues each connection and starts a thread *)
(* for it; that thread signals the matcher and runs the on_connection      *)
(* callback.  The matcher (matchmaking_worker) waits for RoomSize clients, *)
(* moves them from the queue to a room and starts a thread that runs the   *)
(* on_match callback.  Both callbacks send; a send that fails makes        *)
(* server_send drop the client from the queue, if it is still there.       *)
(*                                                                         *)
(* A client is one client_t: one accepted connection.  Its descriptor is   *)
(* also its id, and descriptors are used again after a close.  What        *)
(* TsQueue shows lets a section under the queue's mutex be one step here,  *)
(* except where it also does something others see without the mutex.       *)
(***************************************************************************)
EXTENDS Integers, FiniteSets, Sequences, FiniteSetsExt

CONSTANTS
  Client,    \* the connections that can be made, each once
  MaxFd,     \* descriptors the process may have open for clients
  RoomSize,  \* ROOM_SIZE
  MaxFailures, \* bound on the sends that fail (the network knows none)
  Faults,    \* which allocations may fail
  NoClient,
  Nobody     \* the owner of a free mutex

ASSUME MatchmakingAssumption ==
  /\ IsFiniteSet(Client)
  /\ MaxFd \in Nat
  /\ MaxFailures \in Nat
  /\ RoomSize \in Nat \ {0}
  /\ Faults \subseteq {"conn_data", "room", "room_thread"}
  /\ NoClient \notin Client

Fd   == 1 .. MaxFd
NoFd == 0
RoomNumber == 1 .. Cardinality(Client) \div RoomSize

\* The detached threads: one per connection, one per room.
Conn(c) == <<"conn", c>>
Room(r) == <<"room", r>>
Thread == {Conn(c) : c \in Client} \cup {Room(r) : r \in RoomNumber}
Matcher == <<"matcher">>

ASSUME NobodyAssumption == Nobody \notin Thread \cup {Matcher}

VARIABLES
  queue,     \* server->clients
  rooms,     \* mm_server.rooms, which only grows
  fdOf,      \* fd and id of each client_t, NoFd before it is accepted
  owner,     \* the process's descriptor table: whose connection each fd is
  freed,     \* the client_t that were freed
  mutex,     \* who holds server->clients->mutex
  acceptor,  \* where server_worker is, and with which client
  matcher,   \* where matchmaking_worker is
  pc,        \* where each detached thread is
  target,    \* the client whose send failed in that thread
  found,     \* the client_t its search found
  stopped    \* clients for which server_send returned -1 in that thread

vars == <<queue, rooms, fdOf, owner, freed, mutex, acceptor, matcher,
          pc, target, found, stopped>>

Waiting == INSTANCE Fifo WITH Item <- Client, queue <- queue

-----------------------------------------------------------------------------
Init ==
  /\ Waiting!Init
  /\ rooms = << >>
  /\ fdOf = [c \in Client |-> NoFd]
  /\ owner = [fd \in Fd |-> NoClient]
  /\ freed = {}
  /\ mutex = Nobody
  /\ acceptor = [pc |-> "accept", client |-> NoClient]
  /\ matcher = "lock"
  /\ pc = [t \in Thread |-> "none"]
  /\ target = [t \in Thread |-> NoClient]
  /\ found = [t \in Thread |-> NoClient]
  /\ stopped = [t \in Thread |-> {}]

threadVars == <<pc, target, found, stopped>>

\* The mutex of the queue is taken, or a step that needs it made, when it is
\* free.  Slips: a step that does not wait for it, an unlock left out.
NotWaited == TRUE
MutexFree == mutex = Nobody
UnlockForgotten == UNCHANGED mutex
Unlock == mutex' = Nobody

\* Taking x out of the queue; in the slip its node stays.
NotDropped(x) == UNCHANGED queue
Drop(x) == Waiting!DropFirst(x)

(***************************************************************************)
(* The acceptor.                                                           *)
(***************************************************************************)

\* accept returns the lowest free descriptor.  With none left it fails, and
\* server_worker tries again: no change.
Accept(c) ==
  LET free == {fd \in Fd : owner[fd] = NoClient} IN
  /\ acceptor.pc = "accept"
  /\ fdOf[c] = NoFd
  /\ free # {}
  /\ fdOf' = [fdOf EXCEPT ![c] = Min(free)]
  /\ owner' = [owner EXCEPT ![Min(free)] = c]
  /\ acceptor' = [pc |-> "enqueue", client |-> c]
  /\ UNCHANGED <<queue, rooms, freed, mutex, matcher, threadVars>>

EnqueueClient ==
  /\ acceptor.pc = "enqueue"
  /\ MutexFree
  /\ Waiting!Enqueue(acceptor.client)
  /\ acceptor' = [acceptor EXCEPT !.pc = "print"]
  /\ UNCHANGED <<rooms, fdOf, owner, freed, mutex, matcher, threadVars>>

\* __print_queue under the mutex.
PrintQueue ==
  /\ acceptor.pc = "print"
  /\ MutexFree
  /\ acceptor' = [acceptor EXCEPT !.pc = "spawn"]
  /\ UNCHANGED <<queue, rooms, fdOf, owner, freed, mutex, matcher, threadVars>>

\* *client is copied here, after the mutex was released.
SpawnHandler ==
  /\ acceptor.pc = "spawn"
  /\ pc' = [pc EXCEPT ![Conn(acceptor.client)] = "signal"]
  /\ acceptor' = [pc |-> "accept", client |-> NoClient]
  /\ UNCHANGED <<queue, rooms, fdOf, owner, freed, mutex, matcher,
                 target, found, stopped>>

\* malloc of conn_data returns NULL (or pthread_create fails, unchecked): the
\* client stays queued, and no thread signals or calls back for it.
SpawnFails ==
  /\ "conn_data" \in Faults
  /\ acceptor.pc = "spawn"
  /\ acceptor' = [pc |-> "accept", client |-> NoClient]
  /\ UNCHANGED <<queue, rooms, fdOf, owner, freed, mutex, matcher, threadVars>>

(***************************************************************************)
(* The matcher.                                                            *)
(***************************************************************************)

\* At the head of its loop, or inside pthread_cond_wait after a wake-up.
MatcherLock ==
  /\ matcher \in {"lock", "woken"}
  /\ MutexFree
  /\ mutex' = Matcher
  /\ matcher' = "check"
  /\ UNCHANGED <<queue, rooms, fdOf, owner, freed, acceptor, threadVars>>

\* pthread_cond_wait releases the mutex and sleeps in one step.
MatcherWait ==
  /\ matcher = "check"
  /\ Len(queue) < RoomSize
  /\ Unlock
  /\ matcher' = "waiting"
  /\ UNCHANGED <<queue, rooms, fdOf, owner, freed, acceptor, threadVars>>

SpuriousWake ==
  /\ matcher = "waiting"
  /\ matcher' = "woken"
  /\ UNCHANGED <<queue, rooms, fdOf, owner, freed, mutex, acceptor, threadVars>>

\* The clients of a room: the first RoomSize.  Slips: one too few, the last.
SeatedShort == SubSeq(queue, 1, RoomSize - 1)
SeatedLast == SubSeq(queue, Len(queue) - RoomSize + 1, Len(queue))
Seated == SubSeq(queue, 1, RoomSize)

NewRoom == [id |-> fdOf[queue[1]], clients |-> Seated, disbanded |-> FALSE]

\* One turn of the inner loop: the front of the queue becomes a room.
FillRoom ==
  /\ matcher \in {"check", "drain"}
  /\ Len(queue) >= RoomSize
  /\ rooms' = Append(rooms, NewRoom)
  /\ Waiting!Dequeue(RoomSize)
  /\ matcher' = "drain"
  /\ UNCHANGED <<fdOf, owner, freed, mutex, acceptor, target, found, stopped>>

MakeRoom ==
  /\ FillRoom
  /\ pc' = [pc EXCEPT ![Room(Len(rooms) + 1)] = "callback"]

\* pthread_create fails, unchecked: the room is listed and nobody serves it.
RoomThreadFails ==
  /\ "room_thread" \in Faults
  /\ FillRoom
  /\ UNCHANGED pc

\* malloc of the room returns NULL: the matcher returns with the mutex held.
RoomMallocFails ==
  /\ "room" \in Faults
  /\ matcher \in {"check", "drain"}
  /\ Len(queue) >= RoomSize
  /\ matcher' = "dead"
  /\ UNCHANGED <<queue, rooms, fdOf, owner, freed, mutex, acceptor, threadVars>>

MatcherUnlock ==
  /\ matcher = "drain"
  /\ Len(queue) < RoomSize
  /\ Unlock
  /\ matcher' = "lock"
  /\ UNCHANGED <<queue, rooms, fdOf, owner, freed, acceptor, threadVars>>

(***************************************************************************)
(* The detached threads.                                                   *)
(***************************************************************************)

\* pthread_cond_signal wakes a matcher that waits; in the slip, nobody.
NotSignalled == matcher
Signalled == IF matcher = "waiting" THEN "woken" ELSE matcher

\* mm_on_connection, without the mutex: the signal is lost on a matcher that
\* does not wait.
Signal(c) ==
  /\ pc[Conn(c)] = "signal"
  /\ matcher' = Signalled
  /\ pc' = [pc EXCEPT ![Conn(c)] = "callback"]
  /\ UNCHANGED <<queue, rooms, fdOf, owner, freed, mutex, acceptor,
                 target, found, stopped>>

\* The clients a thread's callback was given.
Peers(t) ==
  {c \in Client : t = Conn(c)} \cup
  {c \in Client : \E r \in 1 .. Len(rooms), i \in 1 .. RoomSize :
                    t = Room(r) /\ rooms[r].clients[i] = c}

\* The clients a callback may still send to.  One that was told that a client
\* is gone (server_send returned -1) leaves that client alone.
Sendable(t) == IF pc[t] = "callback" THEN Peers(t) \ stopped[t] ELSE {}

\* The sends that have failed.
Failures == {s \in Thread \X Client : s[2] \in stopped[s[1]] \/ s[2] = target[s[1]]}

\* server_send when sendall fails.  A send that succeeds changes nothing here.
SendFails(t, c) ==
  /\ c \in Sendable(t)
  /\ Cardinality(Failures) < MaxFailures
  /\ pc' = [pc EXCEPT ![t] = "disconnect"]
  /\ target' = [target EXCEPT ![t] = c]
  /\ UNCHANGED <<queue, rooms, fdOf, owner, freed, mutex, acceptor, matcher,
                 found, stopped>>

\* The places in the queue whose id is the id of c; in the slip, all.
AllPlaces(c) == 1 .. Len(queue)
PlacesOf(c) == {i \in 1 .. Len(queue) : fdOf[queue[i]] = fdOf[c]}

\* server_send returns -1 in t, which is then back in its callback.
SendReturns(t) ==
  /\ pc' = [pc EXCEPT ![t] = "callback"]
  /\ stopped' = [stopped EXCEPT ![t] = @ \cup {target[t]}]
  /\ target' = [target EXCEPT ![t] = NoClient]
  /\ found' = [found EXCEPT ![t] = NoClient]

\* server_handle_disconnection, the search: a client that is no longer queued
\* was matched; nothing is done to it.
NotQueued(t) ==
  /\ pc[t] = "disconnect"
  /\ MutexFree
  /\ PlacesOf(target[t]) = {}
  /\ SendReturns(t)
  /\ UNCHANGED <<queue, rooms, fdOf, owner, freed, mutex, acceptor, matcher>>

FindQueued(t) ==
  /\ pc[t] = "disconnect"
  /\ MutexFree
  /\ PlacesOf(target[t]) # {}
  /\ mutex' = t
  /\ found' = [found EXCEPT ![t] = queue[Min(PlacesOf(target[t]))]]
  /\ pc' = [pc EXCEPT ![t] = "close"]
  /\ UNCHANGED <<queue, rooms, fdOf, owner, freed, acceptor, matcher,
                 target, stopped>>

\* close(client.fd).  The acceptor, which needs no mutex for it, may now be
\* given this descriptor, while its last user is still in the queue.
CloseFd(t) ==
  /\ pc[t] = "close"
  /\ owner' = [owner EXCEPT ![fdOf[target[t]]] = NoClient]
  /\ pc' = [pc EXCEPT ![t] = "remove"]
  /\ UNCHANGED <<queue, rooms, fdOf, freed, mutex, acceptor, matcher,
                 target, found, stopped>>

\* Its client_t is freed, its node removed, the mutex released.
RemoveQueued(t) ==
  /\ pc[t] = "remove"
  /\ freed' = freed \cup {found[t]}
  /\ Drop(found[t])
  /\ Unlock
  /\ SendReturns(t)
  /\ UNCHANGED <<rooms, fdOf, owner, acceptor, matcher>>

\* handle_disband, which the on_match callback may call.
Disband(r) ==
  /\ pc[Room(r)] = "callback"
  /\ rooms' = [rooms EXCEPT ![r].disbanded = TRUE]
  /\ UNCHANGED <<queue, fdOf, owner, freed, mutex, acceptor, matcher, threadVars>>

CallbackReturns(t) ==
  /\ pc[t] = "callback"
  /\ pc' = [pc EXCEPT ![t] = "done"]
  /\ UNCHANGED <<queue, rooms, fdOf, owner, freed, mutex, acceptor, matcher,
                 target, found, stopped>>

-----------------------------------------------------------------------------
AcceptorStep == EnqueueClient \/ PrintQueue \/ SpawnHandler \/ SpawnFails

MatcherStep ==
  MatcherLock \/ MatcherWait \/ MakeRoom \/ RoomThreadFails \/ RoomMallocFails
  \/ MatcherUnlock

Disconnecting(t) == NotQueued(t) \/ FindQueued(t) \/ CloseFd(t) \/ RemoveQueued(t)

Next ==
  \/ AcceptorStep \/ MatcherStep \/ SpuriousWake
  \/ \E c \in Client : Accept(c) \/ Signal(c)
  \/ \E r \in RoomNumber : Disband(r)
  \/ \E t \in Thread :
       \/ Disconnecting(t) \/ CallbackReturns(t)
       \/ \E c \in Client : SendFails(t, c)

Spec == Init /\ [][Next]_vars

\* Every thread runs, and one that keeps asking for the mutex gets it (strong
\* fairness, as others may take it in between).  No peer has to connect, no
\* send to fail, no callback to return and no wake-up to be spurious.
Fairness ==
  /\ SF_vars(AcceptorStep)
  /\ SF_vars(MatcherStep)
  /\ \A c \in Client : WF_vars(Signal(c))
  /\ \A t \in Thread : SF_vars(Disconnecting(t))

FairSpec == Spec /\ Fairness

-----------------------------------------------------------------------------
TypeOK ==
  /\ queue \in Seq(Client)
  /\ rooms \in Seq([id : Fd, clients : [1 .. RoomSize -> Client], disbanded : BOOLEAN])
  /\ fdOf \in [Client -> Fd \cup {NoFd}]
  /\ owner \in [Fd -> Client \cup {NoClient}]
  /\ freed \subseteq Client
  /\ mutex \in Thread \cup {Nobody, Matcher}
  /\ acceptor \in [pc : {"accept", "enqueue", "print", "spawn"},
                   client : Client \cup {NoClient}]
  /\ matcher \in {"lock", "check", "waiting", "woken", "drain", "dead"}
  /\ pc \in [Thread -> {"none", "signal", "callback", "disconnect",
                        "close", "remove", "done"}]
  /\ target \in [Thread -> Client \cup {NoClient}]
  /\ found \in [Thread -> Client \cup {NoClient}]
  /\ stopped \in [Thread -> SUBSET Client]

Queued == {queue[i] : i \in 1 .. Len(queue)}
Matched == {c \in Client : \E r \in 1 .. Len(rooms), i \in 1 .. RoomSize :
                            rooms[r].clients[i] = c}
Queuing == {c \in Client : acceptor = [pc |-> "enqueue", client |-> c]}
Accepted == {c \in Client : fdOf[c] # NoFd}

\* Each accepted client is in exactly one place (on its way into the queue, in
\* it once, in one seat of one room) until it is freed, and then in none: no
\* client is matched with itself, matched twice or lost by the hand-over.
OneHome ==
  /\ \A i, j \in 1 .. Len(queue) : queue[i] = queue[j] => i = j
  /\ \A r, s \in 1 .. Len(rooms) : \A i, j \in 1 .. RoomSize :
       rooms[r].clients[i] = rooms[s].clients[j] => r = s /\ i = j
  /\ Queued \cap Matched = {} /\ Queued \cap Queuing = {}
  /\ Matched \cap Queuing = {}
  /\ Accepted \ freed = Queued \cup Matched \cup Queuing
  /\ freed \cap (Queued \cup Matched \cup Queuing) = {}

\* The clients whose descriptor is being given up right now.
Closing == {found[t] : t \in {u \in Thread : pc[u] = "remove"}}

\* Descriptors: a client that has a home has its descriptor, except between
\* close and the removal of its node, and an open descriptor belongs to a client
\* that has a home: none is closed under a client or left open without one.
DescriptorsAccounted ==
  \A c \in Client :
    (c \in (Queued \cup Matched \cup Queuing) \ Closing)
      <=> (\E fd \in Fd : owner[fd] = c /\ fdOf[c] = fd)

\* Descriptors are reused as ids, yet whatever the interleaving of closes and
\* accepts no two waiting clients have one id, so that a disconnection takes the
\* right client out, and no two rooms have one either.
UniqueIds ==
  /\ \A i, j \in 1 .. Len(queue) : fdOf[queue[i]] = fdOf[queue[j]] => i = j
  /\ \A r, s \in 1 .. Len(rooms) : rooms[r].id = rooms[s].id => r = s
  /\ \A t \in Thread : found[t] # NoClient => found[t] = target[t]

\* A thread that still may send to a client, or close its descriptor, uses that
\* client's own connection and not one accepted since under the same number.
SendReachesOwnClient ==
  \A t \in Thread :
    \A c \in Sendable(t) \cup {d \in Client : d = target[t] /\ pc[t] # "remove"} :
      fdOf[c] \in Fd /\ owner[fdOf[c]] = c

\* Nobody can come upon the memory of a freed client_t: not a walk of the queue,
\* not a room, not the acceptor, which reads *client after its last unlock.
NoUseAfterFree ==
  /\ freed \cap (Queued \cup Matched) = {}
  /\ acceptor.client \notin freed

\* Lost wake-up: when the matcher sleeps on a queue it should serve, a signal is
\* still to come, from a handler thread or from one the acceptor will start.
NoLostWakeup ==
  matcher = "waiting" /\ Len(queue) >= RoomSize =>
    \/ \E c \in Client : pc[Conn(c)] = "signal"
    \/ acceptor.pc \in {"print", "spawn"}

L == INSTANCE Lobby WITH
  waiting <- queue,
  rooms   <- [r \in 1 .. Len(rooms) |-> rooms[r].clients],
  came    <- Accepted \ Queuing

\* Rooms are formed in the order of arrival, and only leaving clients skip it.
LobbySpec == L!Spec

\* A queue with enough clients for a room is served.
MatchHappens == Len(queue) >= RoomSize ~> Len(queue) < RoomSize

\* "call `on_connection` in a new thread on connection": every accepted client
\* gets the thread that runs its callback.
OnConnectionCalled ==
  \A c \in Client : (fdOf[c] # NoFd) ~> (pc[Conn(c)] \in {"callback", "done"})

\* A send that failed returns to its callback: dropping the client needs the
\* mutex, and whoever holds that gives it back.
SendFailureReturns ==
  \A t \in Thread : (pc[t] = "disconnect") ~> (pc[t] = "callback")

\* The matcher that could not allocate a room died with the mutex: from then on nobody
\* joins, leaves, is freed or is matched, and the mutex stays taken.  The rooms there
\* are go on, each with its clients, and may be disbanded.
DeadMatcherFreezesLobby ==
  [][matcher = "dead" =>
       /\ UNCHANGED <<queue, freed, mutex, matcher>>
       /\ Len(rooms') = Len(rooms)
       /\ \A r \in 1 .. Len(rooms) : rooms'[r].clients = rooms[r].clients]_vars
=============================================================================
