-------------------------- MODULE MatchmakingProofs --------------------------
(***************************************************************************)
(* Proofs about Matchmaking, for any number of clients, descriptors and    *)
(* failures, any room size and any set of faults.                          *)
(*                                                                         *)
(* No safety property of the server stands alone.  That a disconnection    *)
(* takes the right client out rests on ids being unique in the queue; they *)
(* are descriptors, so that rests on who owns which descriptor; that on    *)
(* the mutex being held from before the close until the node is gone, and  *)
(* on each client being in one place.  IInv is all of it together, and one *)
(* lemma per action shows that the action keeps it.                        *)
(***************************************************************************)
EXTENDS Matchmaking, Lemmas

\* The clients that have a home.
Homes == Queued \cup Matched \cup Queuing

\* The mutex is held exactly over a close and in the matcher's section, which a
\* matcher that died never leaves.
MutexInv ==
  /\ \A t \in Thread : mutex = t <=> pc[t] \in {"close", "remove"}
  /\ mutex = Matcher <=> matcher \in {"check", "drain", "dead"}

\* The acceptor's client was accepted and has no thread yet.
AcceptorInv ==
  /\ acceptor.pc = "accept" <=> acceptor.client = NoClient
  /\ acceptor.client # NoClient =>
       fdOf[acceptor.client] # NoFd /\ pc[Conn(acceptor.client)] = "none"

\* A thread starts after its client was accepted or its room made, and a client is
\* freed by its own thread, which was told that it is gone.
ThreadInv ==
  /\ \A c \in Client : fdOf[c] = NoFd => pc[Conn(c)] = "none"
  /\ \A c \in freed : pc[Conn(c)] \in {"callback", "done"} /\ c \in stopped[Conn(c)]
  /\ \A r \in RoomNumber : r > Len(rooms) => pc[Room(r)] = "none"

\* t is inside a server_send that failed.
Sending(t) == pc[t] \in {"disconnect", "close", "remove"}

\* Its target is one of its clients, which it still may send to, and what the
\* search found is the target, which waits in the queue.
SendInv(t) ==
  /\ Sending(t) => target[t] \in Peers(t) \ stopped[t]
  /\ ~Sending(t) => target[t] = NoClient
  /\ pc[t] \in {"close", "remove"} => found[t] = target[t] /\ target[t] \in Queued
  /\ pc[t] \notin {"close", "remove"} => found[t] = NoClient

\* Clients that have a home own their descriptors, and nobody else owns one.
FdInv ==
  /\ \A c \in Homes \ Closing : fdOf[c] \in Fd /\ owner[fdOf[c]] = c
  /\ \A fd \in Fd : owner[fd] # NoClient =>
       fdOf[owner[fd]] = fd /\ owner[fd] \in Homes \ Closing

\* The ids in the queue differ, and a room has the id of its first client.
IdInv ==
  /\ \A i, j \in 1 .. Len(queue) : fdOf[queue[i]] = fdOf[queue[j]] => i = j
  /\ \A r \in 1 .. Len(rooms) : rooms[r].id = fdOf[rooms[r].clients[1]]

\* The inductive invariant.
IInv ==
  /\ TypeOK /\ OneHome
  /\ MutexInv /\ AcceptorInv /\ ThreadInv /\ FdInv /\ IdInv
  /\ \A t \in Thread : SendInv(t)

-----------------------------------------------------------------------------
\* The names of the threads and of the owners of the mutex differ.
LEMMA ThreadFacts ==
  /\ \A c \in Client : Conn(c) \in Thread
  /\ \A r \in RoomNumber : Room(r) \in Thread
  /\ \A t \in Thread : (\E c \in Client : t = Conn(c)) \/ (\E r \in RoomNumber : t = Room(r))
  /\ \A c, d : Conn(c) = Conn(d) => c = d
  /\ \A r, s : Room(r) = Room(s) => r = s
  /\ \A c, r : Conn(c) # Room(r)
  /\ Matcher \notin Thread /\ Nobody \notin Thread /\ Nobody # Matcher
<1>1. Matcher \notin Thread
  BY DEF Thread, Conn, Room, Matcher
<1> QED BY <1>1, NobodyAssumption DEF Thread, Conn, Room

\* The server starts with nobody.
LEMMA InitIInv == Init => IInv
<1> SUFFICES ASSUME Init PROVE IInv
  OBVIOUS
<1> USE DEF Init, Waiting!Init
<1>0. Queued = {} /\ Matched = {} /\ Queuing = {} /\ Accepted = {}
  BY DEF Queued, Matched, Queuing, Accepted
<1>1. TypeOK
  BY MatchmakingAssumption DEF TypeOK
<1>2. OneHome
  BY <1>0 DEF OneHome
<1>3. MutexInv
  BY ThreadFacts DEF MutexInv
<1>4. AcceptorInv
  BY DEF AcceptorInv
<1>5. ThreadInv
  BY ThreadFacts DEF ThreadInv
<1>6. FdInv
  BY <1>0 DEF FdInv, Homes
<1>7. IdInv
  BY DEF IdInv
<1>8. \A t \in Thread : SendInv(t)
  BY DEF SendInv, Sending
<1> QED BY <1>1, <1>2, <1>3, <1>4, <1>5, <1>6, <1>7, <1>8 DEF IInv


\* What the types say of the elements of the queue and of the rooms.
LEMMA Members ==
  ASSUME TypeOK
  PROVE  /\ Len(queue) \in Nat /\ Len(rooms) \in Nat /\ 1 \in 1 .. RoomSize
         /\ \A i \in 1 .. Len(queue) : queue[i] \in Client /\ queue[i] \in Queued
         /\ \A r \in 1 .. Len(rooms) :
              /\ rooms[r].id \in Fd
              /\ \A i \in 1 .. RoomSize :
                   rooms[r].clients[i] \in Client /\ rooms[r].clients[i] \in Matched
         /\ Queued \subseteq Client /\ Matched \subseteq Client
         /\ Queuing \subseteq Client /\ Accepted \subseteq Client
<1>1. /\ Len(queue) \in Nat /\ 1 \in 1 .. RoomSize
      /\ \A i \in 1 .. Len(queue) : queue[i] \in Client /\ queue[i] \in Queued
  BY MatchmakingAssumption DEF TypeOK, Queued
<1>2. /\ Len(rooms) \in Nat
      /\ \A r \in 1 .. Len(rooms) :
           /\ rooms[r].id \in Fd
           /\ rooms[r].clients \in [1 .. RoomSize -> Client]
  <2> DEFINE R == [id : Fd, clients : [1 .. RoomSize -> Client], disbanded : BOOLEAN]
  <2>1. rooms \in Seq(R)
    BY DEF TypeOK
  <2>2. \A s \in R : s.id \in Fd /\ s.clients \in [1 .. RoomSize -> Client]
    OBVIOUS
  <2> HIDE DEF R
  <2> QED BY <2>1, <2>2, ElementOfSeq, LenProperties
<1>3. ASSUME NEW r \in 1 .. Len(rooms), NEW i \in 1 .. RoomSize
      PROVE  rooms[r].clients[i] \in Client /\ rooms[r].clients[i] \in Matched
  BY <1>2 DEF Matched
<1>4. Matched \subseteq Client
  BY <1>3 DEF Matched
<1> QED BY <1>1, <1>2, <1>3, <1>4 DEF Queued, Queuing, Accepted

\* Only accepted clients have been freed, and the sets are disjoint.
LEMMA FreedAccepted ==
  ASSUME IInv
  PROVE  /\ freed \subseteq Accepted
         /\ Homes \subseteq Accepted
         /\ acceptor.client \notin freed
         /\ Homes \subseteq Client
<1> USE DEF IInv
<1>1. freed \subseteq Accepted
  BY DEF TypeOK, ThreadInv, Accepted
<1>2. Homes \subseteq Accepted
  BY DEF OneHome, Homes
<1>3. acceptor.client \notin freed
  BY MatchmakingAssumption DEF TypeOK, AcceptorInv, ThreadInv
<1> QED BY <1>1, <1>2, <1>3, Members DEF Homes

\* The lowest free descriptor is nobody's, so the new client is its only owner.
LEMMA AcceptInv ==
  ASSUME IInv, NEW c \in Client, Accept(c)
  PROVE  IInv'
<1> USE DEF IInv
<1> DEFINE free == {fd \in Fd : owner[fd] = NoClient}
           f == Min(free)
<1>1. f \in Fd /\ owner[f] = NoClient
  BY MinIsLeast, MatchmakingAssumption DEF Accept, Fd
<1>2. /\ acceptor.pc = "accept" /\ acceptor.client = NoClient
      /\ fdOf[c] = NoFd
      /\ fdOf' = [fdOf EXCEPT ![c] = f]
      /\ owner' = [owner EXCEPT ![f] = c]
      /\ acceptor' = [pc |-> "enqueue", client |-> c]
      /\ UNCHANGED <<queue, rooms, freed, mutex, matcher, pc, target, found, stopped>>
  BY DEF Accept, threadVars, AcceptorInv
<1> HIDE DEF free, f
<1>3. c \notin Homes \cup freed
  BY <1>2, FreedAccepted DEF Accepted
<1>4. /\ Queued' = Queued /\ Matched' = Matched /\ Closing' = Closing
      /\ Queuing = {} /\ Queuing' = {c}
      /\ Accepted' = Accepted \cup {c}
  BY <1>1, <1>2, MatchmakingAssumption
     DEF Queued, Matched, Closing, Queuing, Accepted, TypeOK, Fd, NoFd
<1>5. TypeOK'
  BY <1>1, <1>2 DEF TypeOK
<1>6. OneHome'
  BY <1>2, <1>3, <1>4 DEF OneHome, Homes
<1>7. MutexInv'
  BY <1>2 DEF MutexInv
<1>8. AcceptorInv'
  BY <1>1, <1>2, MatchmakingAssumption DEF AcceptorInv, ThreadInv, TypeOK, Fd, NoFd
<1>9. ThreadInv'
  BY <1>1, <1>2 DEF ThreadInv, TypeOK
<1>10. FdInv'
  <2>1. Homes' = Homes \cup {c} /\ Homes \subseteq Client /\ c \notin Closing
    BY <1>3, <1>4, FreedAccepted DEF Homes, SendInv, Closing
  <2> QED BY <2>1, <1>1, <1>2, <1>3, <1>4, MatchmakingAssumption DEF FdInv, TypeOK
<1>11. IdInv'
  BY <1>2, <1>3, Members DEF IdInv, TypeOK, Homes
<1>12. \A t \in Thread : SendInv(t)'
  BY <1>2, <1>4 DEF SendInv, Sending, Peers
<1> QED BY <1>5, <1>6, <1>7, <1>8, <1>9, <1>10, <1>11, <1>12

\* The mutex is free, so nobody is closing: every queued client owns its id, and
\* the newcomer's differs from all of them.
LEMMA EnqueueInv ==
  ASSUME IInv, EnqueueClient
  PROVE  IInv'
<1> USE DEF IInv
<1> DEFINE x == acceptor.client
<1>1. /\ acceptor.pc = "enqueue" /\ mutex = Nobody
      /\ queue' = Append(queue, x)
      /\ acceptor' = [acceptor EXCEPT !.pc = "print"]
      /\ UNCHANGED <<rooms, fdOf, owner, freed, mutex, matcher, pc, target, found, stopped>>
  BY DEF EnqueueClient, MutexFree, threadVars, Waiting!Enqueue
<1>2. x \in Client /\ Queuing = {x} /\ x \notin Queued
  BY <1>1 DEF TypeOK, AcceptorInv, Queuing, OneHome
<1>3. /\ queue' \in Seq(Client)
      /\ Len(queue') = Len(queue) + 1
      /\ \A i \in 1 .. Len(queue) : queue'[i] = queue[i]
      /\ queue'[Len(queue) + 1] = x
  BY <1>1, <1>2, AppendProperties DEF TypeOK
<1>4. Closing = {} /\ Closing' = {}
  BY <1>1, ThreadFacts DEF MutexInv, Closing
<1>5. /\ Queued' = Queued \cup {x} /\ Matched' = Matched
      /\ Queuing' = {} /\ Accepted' = Accepted
  BY <1>1, <1>2, <1>3, Members DEF Queued, Matched, Queuing, Accepted, TypeOK
<1>6. Homes' = Homes
  BY <1>2, <1>5 DEF Homes
<1>7. TypeOK'
  BY <1>1, <1>3 DEF TypeOK
<1>8. OneHome'
  <2>1. \A i, j \in 1 .. Len(queue') : queue'[i] = queue'[j] => i = j
    BY <1>2, <1>3, Members DEF OneHome
  <2> QED BY <2>1, <1>1, <1>2, <1>5 DEF OneHome
<1>9. MutexInv'
  BY <1>1 DEF MutexInv
<1>10. AcceptorInv'
  BY <1>1, <1>2, MatchmakingAssumption DEF AcceptorInv, TypeOK
<1>11. ThreadInv'
  BY <1>1 DEF ThreadInv
<1>12. FdInv'
  BY <1>1, <1>4, <1>6 DEF FdInv
<1>13. IdInv'
  <2>1. \A i \in 1 .. Len(queue) : fdOf[queue[i]] # fdOf[x]
    BY <1>2, <1>4, Members DEF FdInv, Homes
  <2> QED BY <2>1, <1>1, <1>3, Members DEF IdInv
<1>14. \A t \in Thread : SendInv(t)'
  BY <1>1, <1>5 DEF SendInv, Sending, Peers
<1> QED BY <1>7, <1>8, <1>9, <1>10, <1>11, <1>12, <1>13, <1>14

\* The acceptor after it queued the client.
LEMMA AcceptorLater ==
  ASSUME IInv,
         acceptor.pc \in {"print", "spawn"},
         UNCHANGED <<queue, rooms, fdOf, owner, freed, mutex, matcher, target, found, stopped>>,
         \/ pc' = pc /\ acceptor' = [acceptor EXCEPT !.pc = "spawn"]
         \/ /\ acceptor' = [pc |-> "accept", client |-> NoClient]
            /\ pc' = pc \/ pc' = [pc EXCEPT ![Conn(acceptor.client)] = "signal"]
  PROVE  IInv'
<1> USE DEF IInv
<1> DEFINE x == acceptor.client
<1>1. /\ x \in Client /\ Conn(x) \in Thread
      /\ fdOf[x] # NoFd /\ x \notin freed /\ pc[Conn(x)] = "none"
  BY ThreadFacts, FreedAccepted DEF TypeOK, AcceptorInv
<1>2. Queuing = {} /\ Queuing' = {}
  BY MatchmakingAssumption DEF Queuing, TypeOK
<1>3. Closing' = Closing
  BY <1>1 DEF Closing, TypeOK
<1>4. Queued' = Queued /\ Matched' = Matched /\ Accepted' = Accepted /\ Homes' = Homes
  BY <1>2 DEF Queued, Matched, Accepted, Homes
<1>5. \A t \in Thread : t # Conn(x) => pc'[t] = pc[t]
  BY DEF TypeOK
<1>6. pc'[Conn(x)] \in {"none", "signal"}
  BY <1>1 DEF TypeOK
<1>7. TypeOK'
  <2>1. acceptor' \in [pc : {"accept", "enqueue", "print", "spawn"},
                       client : Client \cup {NoClient}]
    BY <1>1 DEF TypeOK
  <2>2. pc' \in [Thread -> {"none", "signal", "callback", "disconnect",
                            "close", "remove", "done"}]
    BY <1>1 DEF TypeOK
  <2> QED BY <2>1, <2>2 DEF TypeOK
<1>8. OneHome'
  BY <1>2, <1>4 DEF OneHome
<1>9. MutexInv'
  BY <1>1, <1>5, <1>6 DEF MutexInv
<1>10. AcceptorInv'
  BY <1>1, MatchmakingAssumption DEF AcceptorInv, TypeOK
<1>11. ThreadInv'
  <2>1. \A c \in Client : c # x => pc'[Conn(c)] = pc[Conn(c)]
    BY <1>5, ThreadFacts
  <2>2. \A r \in RoomNumber : pc'[Room(r)] = pc[Room(r)]
    BY <1>5, ThreadFacts
  <2> QED BY <2>1, <2>2, <1>1 DEF ThreadInv, TypeOK
<1>12. FdInv'
  BY <1>3, <1>4 DEF FdInv
<1>13. IdInv'
  BY DEF IdInv
<1>14. ASSUME NEW t \in Thread PROVE SendInv(t)'
  BY <1>1, <1>4, <1>5, <1>6 DEF SendInv, Sending, Peers
<1> QED BY <1>7, <1>8, <1>9, <1>10, <1>11, <1>12, <1>13, <1>14

\* Steps of the matcher that only take or give back the mutex.
LEMMA MatcherLater ==
  ASSUME IInv,
         UNCHANGED <<queue, rooms, fdOf, owner, freed, acceptor, pc, target, found, stopped>>,
         mutex' = mutex \/ (mutex \in {Nobody, Matcher} /\ mutex' \in {Nobody, Matcher}),
         matcher' \in {"lock", "check", "waiting", "woken", "drain", "dead"},
         mutex' = Matcher <=> matcher' \in {"check", "drain", "dead"}
  PROVE  IInv'
<1> USE DEF IInv
<1>1. /\ Queued' = Queued /\ Matched' = Matched /\ Queuing' = Queuing
      /\ Closing' = Closing /\ Accepted' = Accepted /\ Homes' = Homes
  BY DEF Queued, Matched, Queuing, Closing, Accepted, Homes
<1>2. TypeOK'
  BY DEF TypeOK
<1>3. OneHome'
  BY <1>1 DEF OneHome
<1>4. MutexInv'
  BY ThreadFacts DEF MutexInv
<1>5. AcceptorInv' /\ ThreadInv' /\ IdInv'
  BY DEF AcceptorInv, ThreadInv, IdInv
<1>6. FdInv'
  BY <1>1 DEF FdInv
<1>7. \A t \in Thread : SendInv(t)'
  BY <1>1 DEF SendInv, Sending, Peers
<1> QED BY <1>2, <1>3, <1>4, <1>5, <1>6, <1>7

\* The front of the queue becomes a room, with or without its thread.
LEMMA FillInv ==
  ASSUME IInv, FillRoom,
         pc' = pc \/ pc' = [pc EXCEPT ![Room(Len(rooms) + 1)] = "callback"]
  PROVE  IInv'
<1> USE DEF IInv
<1> DEFINE n == Len(rooms) + 1
           room == [id |-> fdOf[queue[1]], clients |-> SubSeq(queue, 1, RoomSize),
                    disbanded |-> FALSE]
           Front == {queue[i] : i \in 1 .. RoomSize}
           Rm == [id : Fd, clients : [1 .. RoomSize -> Client], disbanded : BOOLEAN]
<1>1. /\ matcher \in {"check", "drain"} /\ Len(queue) >= RoomSize
      /\ rooms' = Append(rooms, room)
      /\ queue' = SubSeq(queue, RoomSize + 1, Len(queue))
      /\ matcher' = "drain"
      /\ UNCHANGED <<fdOf, owner, freed, mutex, acceptor, target, found, stopped>>
  BY DEF FillRoom, Waiting!Dequeue, NewRoom, Seated
<1>2. /\ mutex = Matcher
      /\ Closing = {}
      /\ \A t \in Thread : pc[t] \notin {"close", "remove"}
  BY <1>1, ThreadFacts DEF MutexInv, Closing
<1>3. /\ RoomSize \in 0 .. Len(queue) /\ RoomSize \in Nat \ {0}
      /\ queue \in Seq(Client) /\ Len(queue) \in Nat
  BY <1>1, MatchmakingAssumption DEF TypeOK
<1>4. /\ SubSeq(queue, 1, RoomSize) \in [1 .. RoomSize -> Client]
      /\ \A i \in 1 .. RoomSize : SubSeq(queue, 1, RoomSize)[i] = queue[i]
      /\ queue' \in Seq(Client)
      /\ Len(queue') = Len(queue) - RoomSize
      /\ \A i \in 1 .. Len(queue) - RoomSize : queue'[i] = queue[RoomSize + i]
  <2> DEFINE a == SubSeq(queue, 1, RoomSize)
             b == SubSeq(queue, RoomSize + 1, Len(queue))
  <2>1. /\ a \in Seq(Client) /\ Len(a) = RoomSize
        /\ \A i \in 1 .. RoomSize : a[i] = queue[i]
        /\ b \in Seq(Client) /\ Len(b) = Len(queue) - RoomSize
        /\ \A i \in 1 .. Len(queue) - RoomSize : b[i] = queue[RoomSize + i]
    BY <1>3, SplitProperties
  <2>2. a \in [1 .. RoomSize -> Client]
    BY <2>1, LenProperties
  <2> QED BY <1>1, <2>1, <2>2
<1>5. queue[1] \in Client /\ fdOf[queue[1]] \in Fd
  BY <1>2, <1>3, Members DEF FdInv, Homes
<1>6. room \in Rm
  BY <1>4, <1>5
<1>7. /\ rooms' \in Seq(Rm) /\ Len(rooms') = n /\ Len(rooms) \in Nat
      /\ \A r \in 1 .. Len(rooms) : rooms'[r] = rooms[r]
      /\ rooms'[n] = room
  BY <1>1, <1>6, AppendProperties DEF TypeOK
<1> HIDE DEF Rm
<1>8. /\ \A r \in 1 .. Len(rooms) :
         rooms'[r].clients = rooms[r].clients /\ rooms'[r].id = rooms[r].id
      /\ \A i \in 1 .. RoomSize : rooms'[n].clients[i] = queue[i]
      /\ rooms'[n].id = fdOf[queue[1]]
  <2>1. room.clients = SubSeq(queue, 1, RoomSize) /\ room.id = fdOf[queue[1]]
    OBVIOUS
  <2> HIDE DEF room
  <2> QED BY <2>1, <1>4, <1>7
<1> HIDE DEF room
<1>9. /\ Queued' = Queued \ Front
      /\ Front \subseteq Queued
  <2>1. Front \subseteq Queued
    BY <1>3 DEF Queued
  <2>2. ASSUME NEW i \in 1 .. Len(queue')
        PROVE  queue'[i] \in Queued \ Front
    <3>1. RoomSize + i \in 1 .. Len(queue) /\ queue'[i] = queue[RoomSize + i]
      BY <1>3, <1>4
    <3>2. \A j \in 1 .. RoomSize : queue[RoomSize + i] = queue[j] => RoomSize + i = j
      BY <3>1, <1>3 DEF OneHome
    <3>3. \A j \in 1 .. RoomSize : RoomSize + i # j
      BY <1>3, <1>4
    <3> QED BY <3>1, <3>2, <3>3 DEF Queued
  <2>3. ASSUME NEW i \in 1 .. Len(queue), queue[i] \notin Front
        PROVE  queue[i] \in Queued'
    <3>1. i - RoomSize \in 1 .. Len(queue')
      BY <2>3, <1>3, <1>4
    <3>2. queue'[i - RoomSize] = queue[i]
      BY <3>1, <1>3, <1>4
    <3> QED BY <3>1, <3>2 DEF Queued
  <2>4. Queued' \subseteq Queued \ Front
    BY <2>2 DEF Queued
  <2>5. Queued \ Front \subseteq Queued'
    BY <2>3 DEF Queued
  <2> QED BY <2>1, <2>4, <2>5
<1>10. Matched' = Matched \cup Front
  <2>1. Front \subseteq Client
    BY <1>3, Members
  <2>2. Matched' \subseteq Matched \cup Front
    BY <1>7, <1>8 DEF Matched
  <2>3. Matched \subseteq Matched'
    BY <1>7, <1>8 DEF Matched
  <2>4. Front \subseteq Matched'
    BY <2>1, <1>7, <1>8 DEF Matched
  <2> QED BY <2>2, <2>3, <2>4
<1>11. /\ Queuing' = Queuing /\ Accepted' = Accepted
       /\ Homes' = Homes
  BY <1>1, <1>9, <1>10 DEF Queuing, Accepted, Homes
<1>12. /\ \A t \in Thread : t # Room(n) => pc'[t] = pc[t]
       /\ \A c \in Client : pc'[Conn(c)] = pc[Conn(c)]
       /\ \A t \in Thread : t = Room(n) => pc[t] = "none" /\ pc'[t] \in {"none", "callback"}
  <2>1. \A t \in Thread : t # Room(n) => pc'[t] = pc[t]
    BY DEF TypeOK
  <2>2. \A c \in Client : Conn(c) # Room(n)
    BY ThreadFacts
  <2>3. ASSUME NEW t \in Thread, t = Room(n)
        PROVE  pc[t] = "none" /\ pc'[t] \in {"none", "callback"}
    <3>1. n \in RoomNumber
      BY <2>3, ThreadFacts
    <3> QED BY <3>1, <2>3, <1>7 DEF ThreadInv, TypeOK
  <2> QED BY <2>1, <2>2, <2>3, ThreadFacts
<1>13. TypeOK'
  <2>1. pc' \in [Thread -> {"none", "signal", "callback", "disconnect",
                            "close", "remove", "done"}]
    BY DEF TypeOK
  <2> QED BY <2>1, <1>1, <1>4, <1>7 DEF TypeOK, Rm
<1>14. OneHome'
  <2>1. ASSUME NEW i \in 1 .. Len(queue'), NEW j \in 1 .. Len(queue'), queue'[i] = queue'[j]
        PROVE  i = j
    <3>1. /\ RoomSize + i \in 1 .. Len(queue) /\ RoomSize + j \in 1 .. Len(queue)
          /\ queue[RoomSize + i] = queue[RoomSize + j]
      BY <2>1, <1>3, <1>4
    <3>2. RoomSize + i = RoomSize + j
      BY <3>1 DEF OneHome
    <3> QED BY <3>2, <1>3, <1>4
  <2>2. ASSUME NEW r \in 1 .. n, NEW s \in 1 .. n, NEW i \in 1 .. RoomSize, NEW j \in 1 .. RoomSize,
               rooms'[r].clients[i] = rooms'[s].clients[j]
        PROVE  r = s /\ i = j
    <3>1. CASE r # n /\ s # n
      BY <2>2, <3>1, <1>7, <1>8 DEF OneHome
    <3>2. CASE r = n /\ s = n
      BY <2>2, <3>2, <1>3, <1>8 DEF OneHome
    <3>3. ASSUME NEW u \in 1 .. Len(rooms), NEW k \in 1 .. RoomSize, NEW l \in 1 .. RoomSize
          PROVE  rooms[u].clients[k] # queue[l]
      BY <1>3, Members DEF OneHome
    <3> QED BY <2>2, <3>1, <3>2, <3>3, <1>7, <1>8
  <2>3. \A r, s \in 1 .. Len(rooms') : \A i, j \in 1 .. RoomSize :
          rooms'[r].clients[i] = rooms'[s].clients[j] => r = s /\ i = j
    BY <2>2, <1>7
  <2>4. /\ (Queued \cap Matched)' = {} /\ (Queued \cap Queuing)' = {}
        /\ (Matched \cap Queuing)' = {}
        /\ (freed \cap (Queued \cup Matched \cup Queuing))' = {}
        /\ (Accepted \ freed)' = (Queued \cup Matched \cup Queuing)'
    BY <1>1, <1>9, <1>10, <1>11 DEF OneHome
  <2> QED BY <2>1, <2>3, <2>4 DEF OneHome
<1>15. MutexInv'
  BY <1>1, <1>2, <1>12, ThreadFacts DEF MutexInv
<1>16. AcceptorInv'
  BY <1>1, <1>12, MatchmakingAssumption DEF AcceptorInv, TypeOK
<1>17. ThreadInv'
  <2>1. \A r \in RoomNumber : r > n => pc'[Room(r)] = "none"
    BY <1>7, <1>12, ThreadFacts DEF ThreadInv, RoomNumber
  <2> QED BY <2>1, <1>1, <1>7, <1>12 DEF ThreadInv, TypeOK
<1>18. Closing' = {}
  BY <1>2, <1>12 DEF Closing
<1>19. FdInv'
  BY <1>1, <1>2, <1>11, <1>18 DEF FdInv
<1>20. IdInv'
  <2>1. ASSUME NEW i \in 1 .. Len(queue'), NEW j \in 1 .. Len(queue'),
               fdOf[queue'[i]] = fdOf[queue'[j]]
        PROVE  i = j
    <3>1. /\ RoomSize + i \in 1 .. Len(queue) /\ RoomSize + j \in 1 .. Len(queue)
          /\ fdOf[queue[RoomSize + i]] = fdOf[queue[RoomSize + j]]
      BY <2>1, <1>3, <1>4
    <3>2. RoomSize + i = RoomSize + j
      BY <3>1 DEF IdInv
    <3> QED BY <3>2, <1>3, <1>4
  <2>2. \A r \in 1 .. n : rooms'[r].id = fdOf[rooms'[r].clients[1]]
    BY <1>3, <1>7, <1>8 DEF IdInv
  <2> QED BY <2>1, <2>2, <1>1, <1>7 DEF IdInv
<1>21. ASSUME NEW t \in Thread PROVE Peers(t) \subseteq Peers(t)'
  BY <1>7, <1>8 DEF Peers
<1>22. ASSUME NEW t \in Thread PROVE SendInv(t)'
  BY <1>1, <1>2, <1>12, <1>21 DEF SendInv, Sending
<1> QED BY <1>13, <1>14, <1>15, <1>16, <1>17, <1>19, <1>20, <1>22

\* A thread's step that needs no mutex, or only looks into the queue.
LEMMA ThreadStepInv ==
  ASSUME IInv, NEW t \in Thread, NEW v \in {"callback", "disconnect", "done"},
         UNCHANGED <<queue, rooms, fdOf, owner, freed, mutex, acceptor, found>>,
         pc[t] \notin {"none", "close", "remove"},
         pc' = [pc EXCEPT ![t] = v],
         matcher' = matcher \/ (matcher = "waiting" /\ matcher' = "woken"),
         target' \in [Thread -> Client \cup {NoClient}],
         stopped' \in [Thread -> SUBSET Client],
         \A u \in Thread : u # t => target'[u] = target[u] /\ stopped'[u] = stopped[u],
         stopped[t] \subseteq stopped'[t],
         v = "disconnect" => target'[t] \in Peers(t) \ stopped'[t],
         v # "disconnect" => target'[t] = NoClient
  PROVE  IInv'
<1> USE DEF IInv
<1>1. /\ pc'[t] = v
      /\ \A u \in Thread : u # t => pc'[u] = pc[u]
  BY DEF TypeOK
<1>2. Closing' = Closing
  BY <1>1 DEF Closing
<1>3. /\ Queued' = Queued /\ Matched' = Matched /\ Queuing' = Queuing
      /\ Accepted' = Accepted /\ Homes' = Homes
  BY DEF Queued, Matched, Queuing, Accepted, Homes
<1>4. \A u \in Thread : Peers(u)' = Peers(u)
  BY DEF Peers
<1>5. TypeOK'
  BY DEF TypeOK
<1>6. OneHome'
  BY <1>3 DEF OneHome
<1>7. MutexInv'
  BY <1>1, ThreadFacts DEF MutexInv
<1>8. AcceptorInv'
  BY <1>1, ThreadFacts DEF AcceptorInv, TypeOK
<1>9. ThreadInv'
  <2>1. ASSUME NEW c \in freed
        PROVE  pc'[Conn(c)] \in {"callback", "done"} /\ c \in stopped'[Conn(c)]
    <3>1. c \in Client /\ Conn(c) \in Thread /\ c \in stopped[Conn(c)]
      BY ThreadFacts DEF ThreadInv, TypeOK
    <3>2. CASE t = Conn(c)
      <4>1. Peers(t) = {c}
        BY <3>1, <3>2, ThreadFacts DEF Peers
      <4> QED BY <4>1, <3>1, <3>2, <1>1
    <3> QED BY <3>1, <3>2, <1>1 DEF ThreadInv
  <2>2. \A c \in Client : fdOf[c] = NoFd => Conn(c) # t /\ Conn(c) \in Thread
    BY ThreadFacts DEF ThreadInv
  <2>3. \A r \in RoomNumber : r > Len(rooms) => Room(r) # t /\ Room(r) \in Thread
    BY ThreadFacts DEF ThreadInv
  <2> QED BY <2>1, <2>2, <2>3, <1>1 DEF ThreadInv
<1>10. FdInv'
  BY <1>2, <1>3 DEF FdInv
<1>11. IdInv'
  BY DEF IdInv
<1>12. ASSUME NEW u \in Thread PROVE SendInv(u)'
  BY <1>1, <1>3, <1>4 DEF SendInv, Sending
<1> QED BY <1>5, <1>6, <1>7, <1>8, <1>9, <1>10, <1>11, <1>12

\* mm_on_connection signals.
LEMMA SignalInv ==
  ASSUME IInv, NEW c \in Client, Signal(c)
  PROVE  IInv'
<1>1. /\ Conn(c) \in Thread /\ target[Conn(c)] = NoClient
      /\ stopped \in [Thread -> SUBSET Client]
      /\ target \in [Thread -> Client \cup {NoClient}]
  BY ThreadFacts DEF IInv, Signal, SendInv, Sending, TypeOK
<1> QED BY <1>1, ThreadStepInv DEF Signal, Signalled

\* A callback returns.
LEMMA CallbackReturnsInv ==
  ASSUME IInv, NEW t \in Thread, CallbackReturns(t)
  PROVE  IInv'
<1>1. /\ target[t] = NoClient
      /\ stopped \in [Thread -> SUBSET Client]
      /\ target \in [Thread -> Client \cup {NoClient}]
  BY DEF IInv, CallbackReturns, SendInv, Sending, TypeOK
<1> QED BY <1>1, ThreadStepInv DEF CallbackReturns

\* A send of a callback fails.
LEMMA SendFailsInv ==
  ASSUME IInv, NEW t \in Thread, NEW c \in Client, SendFails(t, c)
  PROVE  IInv'
<1>1. /\ pc[t] = "callback" /\ c \in Peers(t) \ stopped[t]
      /\ target' = [target EXCEPT ![t] = c]
  BY DEF SendFails, Sendable
<1>2. /\ target' \in [Thread -> Client \cup {NoClient}]
      /\ target'[t] = c
      /\ \A u \in Thread : u # t => target'[u] = target[u]
      /\ stopped \in [Thread -> SUBSET Client]
  BY <1>1 DEF IInv, TypeOK
<1> QED BY <1>1, <1>2, ThreadStepInv DEF SendFails

\* The search finds nobody.
LEMMA NotQueuedInv ==
  ASSUME IInv, NEW t \in Thread, NotQueued(t)
  PROVE  IInv'
<1>1. /\ target \in [Thread -> Client \cup {NoClient}]
      /\ stopped \in [Thread -> SUBSET Client]
      /\ found \in [Thread -> Client \cup {NoClient}]
      /\ found[t] = NoClient /\ target[t] \in Client
  BY MatchmakingAssumption DEF IInv, TypeOK, NotQueued, SendInv, Sending, Peers
<1>2. /\ target' = [target EXCEPT ![t] = NoClient]
      /\ stopped' = [stopped EXCEPT ![t] = @ \cup {target[t]}]
      /\ found' = [found EXCEPT ![t] = NoClient]
  BY DEF NotQueued, SendReturns
<1>3. /\ target' \in [Thread -> Client \cup {NoClient}]
      /\ stopped' \in [Thread -> SUBSET Client]
      /\ found' = found
      /\ target'[t] = NoClient /\ stopped[t] \subseteq stopped'[t]
      /\ \A u \in Thread : u # t => target'[u] = target[u] /\ stopped'[u] = stopped[u]
  BY <1>1, <1>2
<1> QED BY <1>3, ThreadStepInv DEF NotQueued, SendReturns

\* handle_disband only marks the room: the rooms keep their clients and ids.
LEMMA DisbandKeepsRooms ==
  ASSUME IInv, NEW r \in RoomNumber, Disband(r)
  PROVE  /\ rooms' \in Seq([id : Fd, clients : [1 .. RoomSize -> Client], disbanded : BOOLEAN])
         /\ Len(rooms') = Len(rooms)
         /\ \A s \in 1 .. Len(rooms) :
              rooms'[s].clients = rooms[s].clients /\ rooms'[s].id = rooms[s].id
<1> USE DEF IInv
<1> DEFINE Rm == [id : Fd, clients : [1 .. RoomSize -> Client], disbanded : BOOLEAN]
           e == [rooms[r] EXCEPT !.disbanded = TRUE]
<1>1. r \in 1 .. Len(rooms)
  BY ThreadFacts, Members DEF Disband, ThreadInv, RoomNumber
<1>2. /\ rooms \in Seq(Rm) /\ rooms[r] \in Rm
      /\ rooms' = [rooms EXCEPT ![r] = e]
  BY <1>1, ElementOfSeq DEF Disband, TypeOK
<1>3. e \in Rm /\ e.clients = rooms[r].clients /\ e.id = rooms[r].id
  BY <1>2
<1> HIDE DEF e, Rm
<1>4. /\ rooms' \in Seq(Rm) /\ Len(rooms') = Len(rooms)
      /\ \A s \in 1 .. Len(rooms) : rooms'[s] = IF s = r THEN e ELSE rooms[s]
  BY <1>1, <1>2, <1>3, ExceptSeq
<1>5. \A s \in 1 .. Len(rooms) : rooms'[s].clients = rooms[s].clients /\ rooms'[s].id = rooms[s].id
  BY <1>3, <1>4
<1> QED BY <1>4, <1>5 DEF Rm

\* So it keeps the invariant.
LEMMA DisbandInv ==
  ASSUME IInv, NEW r \in RoomNumber, Disband(r)
  PROVE  IInv'
<1> USE DEF IInv
<1>1. UNCHANGED <<queue, fdOf, owner, freed, mutex, acceptor, matcher,
                  pc, target, found, stopped>>
  BY DEF Disband, threadVars
<1>2. /\ rooms' \in Seq([id : Fd, clients : [1 .. RoomSize -> Client], disbanded : BOOLEAN])
      /\ Len(rooms') = Len(rooms)
      /\ \A s \in 1 .. Len(rooms) :
           rooms'[s].clients = rooms[s].clients /\ rooms'[s].id = rooms[s].id
  BY DisbandKeepsRooms
<1>3. /\ Queued' = Queued /\ Matched' = Matched /\ Queuing' = Queuing
      /\ Accepted' = Accepted /\ Closing' = Closing
  BY <1>1, <1>2 DEF Queued, Matched, Queuing, Accepted, Closing
<1>4. TypeOK'
  BY <1>1, <1>2 DEF TypeOK
<1>5. OneHome'
  BY <1>1, <1>2, <1>3 DEF OneHome
<1>6. MutexInv' /\ AcceptorInv' /\ ThreadInv'
  BY <1>1, <1>2 DEF MutexInv, AcceptorInv, ThreadInv
<1>7. FdInv'
  BY <1>1, <1>3 DEF FdInv, Homes
<1>8. IdInv'
  BY <1>1, <1>2 DEF IdInv
<1>9. ASSUME NEW t \in Thread PROVE SendInv(t)'
  <2>1. Peers(t)' = Peers(t)
    BY <1>2 DEF Peers
  <2> QED BY <2>1, <1>1, <1>3 DEF SendInv, Sending
<1> QED BY <1>4, <1>5, <1>6, <1>7, <1>8, <1>9

\* Only a client's own thread closes it: what a room sends to has left the queue.
LEMMA Closer ==
  ASSUME IInv, NEW t \in Thread, pc[t] \in {"close", "remove"}
  PROVE  /\ target[t] \in Client /\ t = Conn(target[t])
         /\ found[t] = target[t] /\ target[t] \in Queued
         /\ mutex = t
         /\ \A u \in Thread : pc[u] \in {"close", "remove"} => u = t
         /\ target[t] \notin freed /\ target[t] \notin Matched
<1> USE DEF IInv
<1>1. target[t] \in Peers(t) \ stopped[t]
  BY DEF SendInv, Sending
<1>2. /\ found[t] = target[t] /\ target[t] \in Queued
      /\ target[t] \notin Matched /\ target[t] \notin freed
  BY DEF SendInv, OneHome
<1>3. ASSUME NEW r \in RoomNumber, t = Room(r) PROVE FALSE
  BY <1>1, <1>2, <1>3, ThreadFacts, Members DEF Peers
<1>4. t = Conn(target[t])
  BY <1>1, <1>3, ThreadFacts DEF Peers
<1>5. mutex = t /\ \A u \in Thread : pc[u] \in {"close", "remove"} => u = t
  BY DEF MutexInv
<1> QED BY <1>1, <1>2, <1>4, <1>5 DEF Peers

\* The clients that a thread may send to have a home and their own descriptor.
LEMMA PeersOwn ==
  ASSUME IInv, NEW t \in Thread, pc[t] \in {"callback", "disconnect", "close"},
         NEW c \in Peers(t) \ stopped[t]
  PROVE  /\ c \in Client /\ c \in Homes \ Closing
         /\ fdOf[c] \in Fd /\ owner[fdOf[c]] = c
<1> USE DEF IInv
<1>1. c \in Client
  BY DEF Peers
<1>2. ASSUME c \in Closing
      PROVE  /\ c \in Queued /\ pc[Conn(c)] = "remove"
             /\ c \notin Matched
  BY <1>2, Closer DEF Closing
<1>3. CASE \E d \in Client : t = Conn(d)
  <2>1. t = Conn(c)
    BY <1>3, ThreadFacts DEF Peers
  <2>2. c \in Accepted /\ c \notin freed
    BY <2>1, <1>1 DEF ThreadInv, Accepted
  <2>3. c \in Homes
    BY <2>2 DEF OneHome, Homes
  <2>4. c \notin Closing
    BY <1>2, <2>1
  <2> QED BY <1>1, <2>3, <2>4 DEF FdInv
<1>4. CASE \E r \in RoomNumber : t = Room(r)
  <2>1. c \in Matched
    BY <1>4, ThreadFacts, Members DEF Peers
  <2>2. c \in Homes \ Closing
    BY <2>1, <1>2 DEF Homes
  <2> QED BY <1>1, <2>2 DEF FdInv
<1> QED BY <1>3, <1>4, ThreadFacts

\* The search by id finds the client itself.
LEMMA FindsItself ==
  ASSUME IInv, NEW t \in Thread, FindQueued(t)
  PROVE  /\ target[t] \in Client
         /\ queue[Min(PlacesOf(target[t]))] = target[t]
         /\ target[t] \in Queued
<1> USE DEF IInv
<1> DEFINE x == target[t]
           p == Min(PlacesOf(x))
<1>1. pc[t] = "disconnect" /\ mutex = Nobody /\ PlacesOf(x) # {}
  BY DEF FindQueued, MutexFree
<1>2. p \in PlacesOf(x)
  <2>1. PlacesOf(x) \subseteq Nat
    BY Members DEF PlacesOf
  <2> QED BY <2>1, <1>1, MinIsLeast
<1>3. p \in 1 .. Len(queue) /\ fdOf[queue[p]] = fdOf[x]
  BY <1>2 DEF PlacesOf
<1> HIDE DEF p
<1>4. x \in Client /\ owner[fdOf[x]] = x
  BY <1>1, PeersOwn DEF SendInv, Sending
<1>5. queue[p] \in Queued /\ queue[p] \notin Closing
  BY <1>1, <1>3, Members, ThreadFacts DEF MutexInv, Closing
<1>6. owner[fdOf[queue[p]]] = queue[p]
  BY <1>5 DEF FdInv, Homes
<1> QED BY <1>3, <1>4, <1>5, <1>6 DEF p

\* The search takes the mutex along.
LEMMA FindQueuedInv ==
  ASSUME IInv, NEW t \in Thread, FindQueued(t)
  PROVE  IInv'
<1> USE DEF IInv
<1> DEFINE x == target[t]
<1>1. /\ pc[t] = "disconnect" /\ mutex = Nobody
      /\ mutex' = t
      /\ found' = [found EXCEPT ![t] = x]
      /\ pc' = [pc EXCEPT ![t] = "close"]
      /\ UNCHANGED <<queue, rooms, fdOf, owner, freed, acceptor, matcher, target, stopped>>
      /\ x \in Client /\ x \in Queued
  BY FindsItself DEF FindQueued, MutexFree
<1>2. /\ pc'[t] = "close" /\ found'[t] = x
      /\ \A u \in Thread : u # t => pc'[u] = pc[u] /\ found'[u] = found[u]
  BY <1>1 DEF TypeOK
<1>3. \A u \in Thread : pc[u] \notin {"close", "remove"}
  BY <1>1, ThreadFacts DEF MutexInv
<1>4. Closing = {} /\ Closing' = {}
  BY <1>2, <1>3 DEF Closing
<1>5. /\ Queued' = Queued /\ Matched' = Matched /\ Queuing' = Queuing
      /\ Accepted' = Accepted /\ Homes' = Homes
  BY <1>1 DEF Queued, Matched, Queuing, Accepted, Homes
<1>6. x \in Peers(t) \ stopped[t]
  BY <1>1 DEF SendInv, Sending
<1>7. TypeOK'
  BY <1>1 DEF TypeOK
<1>8. OneHome'
  BY <1>1, <1>5 DEF OneHome
<1>9. MutexInv'
  BY <1>1, <1>2, <1>3, ThreadFacts DEF MutexInv
<1>10. AcceptorInv'
  BY <1>1, <1>2, ThreadFacts DEF AcceptorInv, TypeOK
<1>11. ThreadInv'
  <2>1. ASSUME NEW c \in freed PROVE Conn(c) # t /\ Conn(c) \in Thread
    BY <1>1, ThreadFacts DEF ThreadInv, TypeOK
  <2>2. \A c \in Client : fdOf[c] = NoFd => Conn(c) # t /\ Conn(c) \in Thread
    BY <1>1, ThreadFacts DEF ThreadInv
  <2>3. \A r \in RoomNumber : r > Len(rooms) => Room(r) # t /\ Room(r) \in Thread
    BY <1>1, ThreadFacts DEF ThreadInv
  <2> QED BY <2>1, <2>2, <2>3, <1>1, <1>2 DEF ThreadInv
<1>12. FdInv'
  BY <1>1, <1>4, <1>5 DEF FdInv
<1>13. IdInv'
  BY <1>1 DEF IdInv
<1>14. ASSUME NEW u \in Thread PROVE SendInv(u)'
  <2>1. Peers(u)' = Peers(u)
    BY <1>1 DEF Peers
  <2> QED BY <2>1, <1>1, <1>2, <1>5, <1>6 DEF SendInv, Sending
<1> QED BY <1>7, <1>8, <1>9, <1>10, <1>11, <1>12, <1>13, <1>14

\* close gives the descriptor up while its client still waits.
LEMMA CloseFdInv ==
  ASSUME IInv, NEW t \in Thread, CloseFd(t)
  PROVE  IInv'
<1> USE DEF IInv
<1> DEFINE x == target[t]
<1>1. /\ pc[t] = "close"
      /\ owner' = [owner EXCEPT ![fdOf[x]] = NoClient]
      /\ pc' = [pc EXCEPT ![t] = "remove"]
      /\ UNCHANGED <<queue, rooms, fdOf, freed, mutex, acceptor, matcher,
                     target, found, stopped>>
  BY DEF CloseFd
<1>2. /\ x \in Client /\ t = Conn(x) /\ found[t] = x /\ x \in Queued
      /\ \A u \in Thread : pc[u] \in {"close", "remove"} => u = t
      /\ x \notin freed
  BY <1>1, Closer
<1>3. fdOf[x] \in Fd /\ owner[fdOf[x]] = x
  BY <1>1, PeersOwn DEF SendInv, Sending
<1>4. /\ pc'[t] = "remove"
      /\ \A u \in Thread : u # t => pc'[u] = pc[u]
  BY <1>1 DEF TypeOK
<1>5. Closing = {} /\ Closing' = {x}
  <2>1. \A u \in Thread : pc[u] # "remove"
    BY <1>1, <1>2
  <2>2. \A u \in Thread : pc'[u] = "remove" <=> u = t
    BY <2>1, <1>4
  <2> QED BY <2>1, <2>2, <1>1, <1>2 DEF Closing
<1>6. /\ Queued' = Queued /\ Matched' = Matched /\ Queuing' = Queuing
      /\ Accepted' = Accepted /\ Homes' = Homes
  BY <1>1 DEF Queued, Matched, Queuing, Accepted, Homes
<1>7. TypeOK'
  BY <1>1, <1>3 DEF TypeOK
<1>8. OneHome'
  BY <1>1, <1>6 DEF OneHome
<1>9. MutexInv'
  BY <1>1, <1>4 DEF MutexInv
<1>10. AcceptorInv'
  BY <1>1, <1>4, ThreadFacts DEF AcceptorInv, TypeOK
<1>11. ThreadInv'
  <2>1. ASSUME NEW c \in freed PROVE Conn(c) # t /\ Conn(c) \in Thread
    BY <1>1, ThreadFacts DEF ThreadInv, TypeOK
  <2>2. \A c \in Client : fdOf[c] = NoFd => Conn(c) # t /\ Conn(c) \in Thread
    BY <1>1, ThreadFacts DEF ThreadInv
  <2>3. \A r \in RoomNumber : r > Len(rooms) => Room(r) # t /\ Room(r) \in Thread
    BY <1>1, ThreadFacts DEF ThreadInv
  <2> QED BY <2>1, <2>2, <2>3, <1>1, <1>4 DEF ThreadInv
<1>12. FdInv'
  <2>1. ASSUME NEW c \in Homes \ {x} PROVE fdOf[c] \in Fd /\ owner'[fdOf[c]] = c
    <3>1. fdOf[c] \in Fd /\ owner[fdOf[c]] = c
      BY <1>5 DEF FdInv
    <3>2. fdOf[c] # fdOf[x]
      BY <3>1, <1>3
    <3> QED BY <3>1, <3>2, <1>1 DEF TypeOK
  <2>2. ASSUME NEW fd \in Fd, owner'[fd] # NoClient
        PROVE  fdOf[owner'[fd]] = fd /\ owner'[fd] \in Homes \ {x}
    <3>1. fd # fdOf[x] /\ owner'[fd] = owner[fd]
      BY <2>2, <1>1, <1>3 DEF TypeOK
    <3> QED BY <3>1, <2>2, <1>3, <1>5 DEF FdInv
  <2> QED BY <2>1, <2>2, <1>1, <1>5, <1>6 DEF FdInv
<1>13. IdInv'
  BY <1>1 DEF IdInv
<1>14. ASSUME NEW u \in Thread PROVE SendInv(u)'
  <2>1. Peers(u)' = Peers(u)
    BY <1>1 DEF Peers
  <2> QED BY <2>1, <1>1, <1>4, <1>6 DEF SendInv, Sending
<1> QED BY <1>7, <1>8, <1>9, <1>10, <1>11, <1>12, <1>13, <1>14

\* The client leaves the queue and is freed; every other one keeps its place.
LEMMA RemoveQueuedInv ==
  ASSUME IInv, NEW t \in Thread, RemoveQueued(t)
  PROVE  IInv'
<1> USE DEF IInv
<1> DEFINE x == target[t]
           At(i, j) == IF j < i THEN j ELSE j + 1
<1>1. /\ pc[t] = "remove" /\ found[t] = x
      /\ freed' = freed \cup {x}
      /\ mutex' = Nobody
      /\ pc' = [pc EXCEPT ![t] = "callback"]
      /\ stopped' = [stopped EXCEPT ![t] = @ \cup {x}]
      /\ target' = [target EXCEPT ![t] = NoClient]
      /\ found' = [found EXCEPT ![t] = NoClient]
      /\ UNCHANGED <<rooms, fdOf, owner, acceptor, matcher>>
      /\ Waiting!DropFirst(x)
  BY Closer DEF RemoveQueued, SendReturns, Unlock, Drop
<1>2. /\ x \in Client /\ t = Conn(x) /\ x \in Queued
      /\ mutex = t
      /\ \A u \in Thread : pc[u] \in {"close", "remove"} => u = t
      /\ x \notin freed /\ x \notin Matched
  BY <1>1, Closer
<1>3. /\ pc'[t] = "callback" /\ target'[t] = NoClient /\ found'[t] = NoClient
      /\ stopped'[t] = stopped[t] \cup {x}
      /\ \A u \in Thread : u # t =>
           /\ pc'[u] = pc[u] /\ target'[u] = target[u] /\ found'[u] = found[u]
           /\ stopped'[u] = stopped[u]
  BY <1>1 DEF TypeOK
<1>4. PICK i \in 1 .. Len(queue) : queue[i] = x /\ queue' = CutAt(queue, i)
  BY <1>1 DEF Waiting!DropFirst, Waiting!RemoveAt, CutAt
<1>5. /\ queue' \in Seq(Client) /\ Len(queue') = Len(queue) - 1 /\ Len(queue) \in Nat
      /\ \A j \in 1 .. Len(queue') :
           At(i, j) \in 1 .. Len(queue) \ {i} /\ queue'[j] = queue[At(i, j)]
      /\ \A k \in 1 .. Len(queue) \ {i} : \E j \in 1 .. Len(queue') : k = At(i, j)
      /\ \A j, k \in 1 .. Len(queue') : At(i, j) = At(i, k) => j = k
  <2>1. queue \in Seq(Client) /\ Len(queue) \in Nat
    BY DEF TypeOK
  <2>2. /\ queue' \in Seq(Client) /\ Len(queue') = Len(queue) - 1
        /\ \A j \in 1 .. Len(queue) - 1 :
             queue'[j] = IF j < i THEN queue[j] ELSE queue[j + 1]
    BY <2>1, <1>4, CutAtProperties
  <2>3. ASSUME NEW j \in 1 .. Len(queue')
        PROVE  At(i, j) \in 1 .. Len(queue) \ {i} /\ queue'[j] = queue[At(i, j)]
    BY <2>1, <2>2
  <2>4. ASSUME NEW k \in 1 .. Len(queue) \ {i}
        PROVE  \E j \in 1 .. Len(queue') : k = At(i, j)
    <3>1. CASE k < i
      BY <3>1, <2>1, <2>2
    <3>2. CASE ~(k < i)
      <4>1. k - 1 \in 1 .. Len(queue') /\ k = At(i, k - 1)
        BY <3>2, <2>1, <2>2
      <4> QED BY <4>1
    <3> QED BY <3>1, <3>2
  <2> QED BY <2>1, <2>2, <2>3, <2>4
<1> HIDE DEF At
<1>6. Queued' = Queued \ {x}
  <2>1. ASSUME NEW j \in 1 .. Len(queue') PROVE queue'[j] \in Queued \ {x}
    BY <1>4, <1>5 DEF OneHome, Queued
  <2>2. ASSUME NEW k \in 1 .. Len(queue), queue[k] # x PROVE queue[k] \in Queued'
    <3>1. PICK j \in 1 .. Len(queue') : k = At(i, j)
      BY <2>2, <1>4, <1>5
    <3> QED BY <3>1, <1>5 DEF Queued
  <2>3. Queued' \subseteq Queued \ {x}
    BY <2>1 DEF Queued
  <2>4. Queued \ {x} \subseteq Queued'
    BY <2>2 DEF Queued
  <2> QED BY <2>3, <2>4
<1>7. /\ Matched' = Matched /\ Queuing' = Queuing /\ Accepted' = Accepted
      /\ x \notin Queuing
      /\ Homes' = Homes \ {x}
  BY <1>1, <1>2, <1>6 DEF Matched, Queuing, Accepted, Homes, OneHome
<1>8. Closing = {x} /\ Closing' = {}
  <2>1. \A u \in Thread : pc'[u] # "remove"
    BY <1>2, <1>3
  <2>2. \A u \in Thread : pc[u] = "remove" <=> u = t
    BY <1>1, <1>2
  <2> QED BY <2>1, <2>2, <1>1 DEF Closing
<1>9. TypeOK'
  BY <1>1, <1>2, <1>5 DEF TypeOK
<1>10. OneHome'
  <2>1. \A j, k \in 1 .. Len(queue') : queue'[j] = queue'[k] => j = k
    BY <1>5 DEF OneHome
  <2>2. /\ (Queued \cap Matched)' = {} /\ (Queued \cap Queuing)' = {}
        /\ (Matched \cap Queuing)' = {}
        /\ (freed \cap (Queued \cup Matched \cup Queuing))' = {}
        /\ (Accepted \ freed)' = (Queued \cup Matched \cup Queuing)'
    BY <1>1, <1>2, <1>6, <1>7 DEF OneHome
  <2> QED BY <2>1, <2>2, <1>1 DEF OneHome
<1>11. MutexInv'
  BY <1>1, <1>2, <1>3, ThreadFacts DEF MutexInv
<1>12. AcceptorInv'
  BY <1>1, <1>3, ThreadFacts DEF AcceptorInv, TypeOK
<1>13. ThreadInv'
  <2>1. ASSUME NEW c \in freed
        PROVE  Conn(c) # t /\ Conn(c) \in Thread
    BY <1>2, ThreadFacts DEF TypeOK
  <2>2. \A c \in Client : fdOf[c] = NoFd => Conn(c) # t /\ Conn(c) \in Thread
    BY <1>1, ThreadFacts DEF ThreadInv
  <2>3. \A r \in RoomNumber : Room(r) # t /\ Room(r) \in Thread
    BY <1>2, ThreadFacts
  <2> QED BY <2>1, <2>2, <2>3, <1>1, <1>2, <1>3 DEF ThreadInv
<1>14. FdInv'
  BY <1>1, <1>7, <1>8 DEF FdInv
<1>15. IdInv'
  <2>1. \A j, k \in 1 .. Len(queue') : fdOf[queue'[j]] = fdOf[queue'[k]] => j = k
    BY <1>5 DEF IdInv
  <2> QED BY <2>1, <1>1 DEF IdInv
<1>16. ASSUME NEW u \in Thread PROVE SendInv(u)'
  <2>1. Peers(u)' = Peers(u)
    BY <1>1 DEF Peers
  <2>2. u # t => pc[u] \notin {"close", "remove"}
    BY <1>2
  <2> QED BY <2>1, <2>2, <1>1, <1>3 DEF SendInv, Sending
<1> QED BY <1>9, <1>10, <1>11, <1>12, <1>13, <1>14, <1>15, <1>16

-----------------------------------------------------------------------------
\* Every step keeps the invariant.
LEMMA StepIInv == IInv /\ [Next]_vars => IInv'
<1> SUFFICES ASSUME IInv, [Next]_vars PROVE IInv'
  OBVIOUS
<1>1. CASE EnqueueClient
  BY <1>1, EnqueueInv
<1>2. CASE PrintQueue \/ SpawnHandler \/ SpawnFails
  BY <1>2, AcceptorLater DEF PrintQueue, SpawnHandler, SpawnFails, threadVars
<1>3. CASE MatcherLock \/ MatcherWait \/ SpuriousWake \/ RoomMallocFails \/ MatcherUnlock
  <2> USE DEF threadVars
  <2>1. mutex = Matcher <=> matcher \in {"check", "drain", "dead"}
    BY DEF IInv, MutexInv
  <2>2. CASE MatcherLock
    BY <2>1, <2>2, MatcherLater DEF MatcherLock, MutexFree
  <2>3. CASE MatcherWait \/ MatcherUnlock
    BY <2>1, <2>3, MatcherLater, ThreadFacts DEF MatcherWait, MatcherUnlock, Unlock
  <2>4. CASE SpuriousWake
    <3>1. mutex' # Matcher /\ mutex' = mutex /\ matcher' = "woken"
      BY <2>1, <2>4 DEF SpuriousWake
    <3> QED BY <3>1, <2>4, MatcherLater DEF SpuriousWake
  <2>5. CASE RoomMallocFails
    <3>1. mutex' = Matcher /\ mutex = Matcher /\ matcher' = "dead"
      BY <2>1, <2>5 DEF RoomMallocFails
    <3> QED BY <3>1, <2>5, MatcherLater DEF RoomMallocFails
  <2> QED BY <1>3, <2>2, <2>3, <2>4, <2>5
<1>4. CASE MakeRoom \/ RoomThreadFails
  BY <1>4, FillInv DEF MakeRoom, RoomThreadFails
<1>5. ASSUME NEW c \in Client, Accept(c) \/ Signal(c) PROVE IInv'
  BY <1>5, AcceptInv, SignalInv
<1>6. ASSUME NEW r \in RoomNumber, Disband(r) PROVE IInv'
  BY <1>6, DisbandInv
<1>7. ASSUME NEW t \in Thread,
             \/ Disconnecting(t) \/ CallbackReturns(t)
             \/ \E c \in Client : SendFails(t, c)
      PROVE  IInv'
  BY <1>7, NotQueuedInv, FindQueuedInv, CloseFdInv, RemoveQueuedInv,
     CallbackReturnsInv, SendFailsInv DEF Disconnecting
<1>8. CASE UNCHANGED vars
  <2>1. /\ Queued' = Queued /\ Matched' = Matched /\ Queuing' = Queuing
        /\ Closing' = Closing /\ Accepted' = Accepted /\ Homes' = Homes
    BY <1>8 DEF vars, Queued, Matched, Queuing, Closing, Accepted, Homes
  <2>2. TypeOK' /\ OneHome' /\ FdInv'
    BY <2>1, <1>8 DEF vars, IInv, TypeOK, OneHome, FdInv
  <2>3. MutexInv' /\ AcceptorInv' /\ ThreadInv' /\ IdInv'
    BY <1>8 DEF vars, IInv, MutexInv, AcceptorInv, ThreadInv, IdInv
  <2>4. \A t \in Thread : SendInv(t)'
    BY <2>1, <1>8 DEF vars, IInv, SendInv, Sending, Peers
  <2> QED BY <2>2, <2>3, <2>4 DEF IInv
<1> QED BY <1>1, <1>2, <1>3, <1>4, <1>5, <1>6, <1>7, <1>8
        DEF Next, AcceptorStep, MatcherStep

\* The inductive invariant holds throughout.
LEMMA SpecIInv == Spec => []IInv
BY InitIInv, StepIInv, PTL DEF Spec

\* Every variable of the server has its type.
THEOREM SpecTypeOK == Spec => []TypeOK
<1>1. IInv => TypeOK
  BY DEF IInv
<1> QED BY <1>1, SpecIInv, PTL

\* Each accepted client is in one place until it is freed, and then in none: the
\* hand-over from the queue to a room neither loses a client nor seats one twice.
THEOREM SpecOneHome == Spec => []OneHome
<1>1. IInv => OneHome
  BY DEF IInv
<1> QED BY <1>1, SpecIInv, PTL

\* A descriptor is open exactly while its client has a home, except between close
\* and the removal of the node.
THEOREM SpecDescriptorsAccounted == Spec => []DescriptorsAccounted
<1>1. IInv => DescriptorsAccounted
  <2> SUFFICES ASSUME IInv, NEW c \in Client
               PROVE  c \in Homes \ Closing <=> \E fd \in Fd : owner[fd] = c /\ fdOf[c] = fd
    BY DEF DescriptorsAccounted, Homes
  <2>1. c \in Homes \ Closing => \E fd \in Fd : owner[fd] = c /\ fdOf[c] = fd
    BY DEF IInv, FdInv
  <2>2. ASSUME NEW fd \in Fd, owner[fd] = c PROVE c \in Homes \ Closing
    BY <2>2, MatchmakingAssumption DEF IInv, FdInv
  <2> QED BY <2>1, <2>2
<1> QED BY <1>1, SpecIInv, PTL

\* Descriptors are used again as ids, and still no two waiting clients and no two
\* rooms have one id.
THEOREM SpecUniqueIds == Spec => []UniqueIds
<1>1. IInv => UniqueIds
  <2> SUFFICES ASSUME IInv PROVE UniqueIds
    OBVIOUS
  <2> USE DEF IInv
  <2>1. ASSUME NEW r \in 1 .. Len(rooms), NEW s \in 1 .. Len(rooms), rooms[r].id = rooms[s].id
        PROVE  r = s
    <3> DEFINE a == rooms[r].clients[1]
               b == rooms[s].clients[1]
    <3>1. a \in Matched /\ b \in Matched /\ 1 \in 1 .. RoomSize
      BY Members
    <3>2. \A c \in Matched : c \in Homes \ Closing
      BY Closer DEF Closing, Homes
    <3>3. fdOf[a] = fdOf[b]
      BY <2>1 DEF IdInv
    <3>4. a = b
      BY <3>1, <3>2, <3>3 DEF FdInv
    <3> QED BY <3>1, <3>4 DEF OneHome
  <2>2. \A t \in Thread : found[t] # NoClient => found[t] = target[t]
    BY DEF SendInv
  <2> QED BY <2>1, <2>2 DEF UniqueIds, IdInv
<1> QED BY <1>1, SpecIInv, PTL

\* Whoever may still send to a client, or close it, does so on its connection.
THEOREM SpecSendReachesOwnClient == Spec => []SendReachesOwnClient
<1>1. IInv => SendReachesOwnClient
  <2> SUFFICES ASSUME IInv, NEW t \in Thread,
                      NEW c \in Sendable(t) \cup {d \in Client : d = target[t] /\ pc[t] # "remove"}
               PROVE  fdOf[c] \in Fd /\ owner[fdOf[c]] = c
    BY DEF SendReachesOwnClient
  <2>1. CASE c \in Sendable(t)
    BY <2>1, PeersOwn DEF Sendable
  <2>2. CASE c \in Client /\ c = target[t] /\ pc[t] # "remove"
    BY <2>2, PeersOwn, MatchmakingAssumption DEF IInv, SendInv, Sending
  <2> QED BY <2>1, <2>2
<1> QED BY <1>1, SpecIInv, PTL

\* A freed client_t is neither queued, nor in a room, nor in the acceptor's hands.
THEOREM SpecNoUseAfterFree == Spec => []NoUseAfterFree
<1>1. IInv => NoUseAfterFree
  BY FreedAccepted DEF NoUseAfterFree, IInv, OneHome
<1> QED BY <1>1, SpecIInv, PTL

-----------------------------------------------------------------------------
\* What nobody can change without the mutex.
Frozen ==
  /\ UNCHANGED <<queue, freed, mutex, matcher>>
  /\ Len(rooms') = Len(rooms)
  /\ \A r \in 1 .. Len(rooms) : rooms'[r].clients = rooms[r].clients

\* A matcher that could not allocate its room died with the mutex: nobody joins or
\* leaves the queue or a room any more, and the mutex is not given back.
THEOREM SpecDeadMatcherFreezesLobby == Spec => DeadMatcherFreezesLobby
<1>1. IInv /\ [Next]_vars => [matcher = "dead" => Frozen]_vars
  <2> SUFFICES ASSUME IInv, Next, matcher = "dead" PROVE Frozen
    BY DEF vars, Frozen
  <2> USE DEF Frozen
  <2>1. mutex = Matcher /\ ~MutexFree
    BY ThreadFacts DEF IInv, MutexInv, MutexFree
  <2>2. CASE AcceptorStep
    BY <2>1, <2>2 DEF AcceptorStep, EnqueueClient, PrintQueue, SpawnHandler, SpawnFails
  <2>3. CASE MatcherStep \/ SpuriousWake
    BY <2>3 DEF MatcherStep, MatcherLock, MatcherWait, MakeRoom, RoomThreadFails, FillRoom,
                RoomMallocFails, MatcherUnlock, SpuriousWake
  <2>4. ASSUME NEW c \in Client, Accept(c) \/ Signal(c) PROVE Frozen
    BY <2>4 DEF Accept, Signal, Signalled
  <2>5. ASSUME NEW r \in RoomNumber, Disband(r) PROVE Frozen
    BY <2>5, DisbandKeepsRooms DEF Disband
  <2>6. ASSUME NEW t \in Thread,
               \/ Disconnecting(t) \/ CallbackReturns(t)
               \/ \E c \in Client : SendFails(t, c)
        PROVE  Frozen
    <3>1. ~RemoveQueued(t)
      BY <2>1, ThreadFacts DEF IInv, MutexInv, RemoveQueued
    <3> QED BY <2>1, <3>1, <2>6 DEF Disconnecting, NotQueued, FindQueued, CloseFd,
                              CallbackReturns, SendFails
  <2> QED BY <2>2, <2>3, <2>4, <2>5, <2>6 DEF Next
<1> QED BY <1>1, SpecIInv, PTL DEF Spec, DeadMatcherFreezesLobby, Frozen

\* As long as the handler threads start, a matcher that sleeps on a queue it should
\* serve has a signal coming.
THEOREM SpecNoLostWakeup ==
  ASSUME "conn_data" \notin Faults
  PROVE  Spec => []NoLostWakeup
<1>1. Init => NoLostWakeup
  BY DEF Init, NoLostWakeup
<1>2. IInv /\ NoLostWakeup /\ [Next]_vars => NoLostWakeup'
  <2> SUFFICES ASSUME IInv, NoLostWakeup, [Next]_vars,
                      matcher' = "waiting", Len(queue') >= RoomSize
               PROVE  \/ \E c \in Client : pc'[Conn(c)] = "signal"
                      \/ acceptor'.pc \in {"print", "spawn"}
    BY DEF NoLostWakeup
  <2> DEFINE Goal == \/ \E c \in Client : pc'[Conn(c)] = "signal"
                     \/ acceptor'.pc \in {"print", "spawn"}
  <2>1. CASE UNCHANGED vars
    BY <2>1 DEF vars, NoLostWakeup
  <2>2. CASE EnqueueClient
    BY <2>2 DEF EnqueueClient, IInv, TypeOK
  <2>3. CASE PrintQueue
    BY <2>3 DEF PrintQueue, IInv, TypeOK
  <2>4. CASE SpawnHandler
    <3>1. acceptor.client \in Client /\ Conn(acceptor.client) \in Thread
      BY <2>4, ThreadFacts DEF SpawnHandler, IInv, TypeOK, AcceptorInv
    <3>2. pc'[Conn(acceptor.client)] = "signal"
      BY <2>4, <3>1 DEF SpawnHandler, IInv, TypeOK
    <3> QED BY <3>1, <3>2
  <2>5. CASE SpawnFails
    BY <2>5 DEF SpawnFails
  <2>6. CASE MatcherStep \/ SpuriousWake
    <3>1. CASE MatcherWait
      BY <3>1, Members, MatchmakingAssumption DEF MatcherWait, IInv
    <3>2. CASE ~MatcherWait
      BY <2>6, <3>2 DEF MatcherStep, MatcherLock, MakeRoom, RoomThreadFails, FillRoom,
                        RoomMallocFails, MatcherUnlock, SpuriousWake
    <3> QED BY <3>1, <3>2
  <2>7. ASSUME NEW c \in Client, Accept(c) PROVE Goal
    BY <2>7 DEF Accept, NoLostWakeup, threadVars, IInv, AcceptorInv, TypeOK
  <2>8. ASSUME NEW c \in Client, Signal(c) PROVE Goal
    BY <2>8 DEF Signal, Signalled
  <2>9. ASSUME NEW r \in RoomNumber, Disband(r) PROVE Goal
    BY <2>9 DEF Disband, NoLostWakeup, threadVars
  <2>10. ASSUME NEW t \in Thread,
                \/ Disconnecting(t) \/ CallbackReturns(t)
                \/ \E c \in Client : SendFails(t, c)
         PROVE  Goal
    <3>1. matcher' = matcher /\ acceptor' = acceptor
      BY <2>10 DEF Disconnecting, NotQueued, FindQueued, CloseFd, RemoveQueued,
                   CallbackReturns, SendFails, SendReturns
    <3>2. Len(queue) >= RoomSize
      <4>1. CASE RemoveQueued(t)
        <5>1. PICK i \in 1 .. Len(queue) : queue' = CutAt(queue, i)
          BY <4>1 DEF RemoveQueued, Drop, Waiting!DropFirst, Waiting!RemoveAt, CutAt
        <5>2. queue \in Seq(Client) /\ Len(queue) \in Nat
          BY DEF IInv, TypeOK
        <5>3. Len(queue') = Len(queue) - 1
          BY <5>1, <5>2, CutAtProperties
        <5> QED BY <5>2, <5>3, MatchmakingAssumption
      <4>2. CASE ~RemoveQueued(t)
        BY <2>10, <4>2 DEF Disconnecting, NotQueued, FindQueued, CloseFd,
                           CallbackReturns, SendFails, SendReturns
      <4> QED BY <4>1, <4>2
    <3>3. \A c \in Client : pc[Conn(c)] = "signal" => pc'[Conn(c)] = "signal"
      <4>1. pc[t] # "signal" /\ \E v : pc' = [pc EXCEPT ![t] = v]
        BY <2>10 DEF Disconnecting, NotQueued, FindQueued, CloseFd, RemoveQueued,
                     CallbackReturns, SendFails, Sendable, SendReturns
      <4> QED BY <4>1, ThreadFacts DEF IInv, TypeOK
    <3> QED BY <3>1, <3>2, <3>3 DEF NoLostWakeup
  <2> QED BY <2>1, <2>2, <2>3, <2>4, <2>5, <2>6, <2>7, <2>8, <2>9, <2>10
          DEF Next, AcceptorStep
<1> QED BY <1>1, <1>2, SpecIInv, PTL DEF Spec

-----------------------------------------------------------------------------
\* The rooms of the lobby and what it counts as come.
LobbyRooms == [r \in 1 .. Len(rooms) |-> rooms[r].clients]
Came == Accepted \ Queuing

\* The lobby starts empty.
LEMMA LobbyInit == Init => L!Init
<1> SUFFICES ASSUME Init PROVE L!Init
  OBVIOUS
<1>1. queue = << >>
  BY DEF Init, Waiting!Init
<1>2. LobbyRooms = << >>
  BY DEF Init, LobbyRooms
<1>3. Came = {}
  BY DEF Init, Came, Accepted
<1> QED BY <1>1, <1>2, <1>3 DEF L!Init, LobbyRooms, Came

\* The acceptor's ts_queue_enqueue is the client's joining.
LEMMA LobbyJoin ==
  ASSUME IInv, EnqueueClient
  PROVE  \E c \in Client : L!Join(c)
<1> DEFINE x == acceptor.client
<1>1. /\ acceptor.pc = "enqueue" /\ queue' = Append(queue, x)
      /\ acceptor' = [acceptor EXCEPT !.pc = "print"]
      /\ UNCHANGED <<rooms, fdOf>>
  BY DEF EnqueueClient, Waiting!Enqueue
<1>2. x \in Client /\ Queuing = {x} /\ Queuing' = {} /\ x \in Accepted /\ Accepted' = Accepted
  BY <1>1 DEF IInv, TypeOK, AcceptorInv, Queuing, Accepted
<1>3. x \notin Came /\ Came' = Came \cup {x}
  BY <1>2 DEF Came
<1>4. LobbyRooms' = LobbyRooms
  BY <1>1 DEF LobbyRooms
<1> QED BY <1>1, <1>2, <1>3, <1>4 DEF L!Join, LobbyRooms, Came

\* The removal of the node is its leaving.
LEMMA LobbyLeave ==
  ASSUME IInv, NEW t \in Thread, RemoveQueued(t)
  PROVE  \E c \in Client : L!Leave(c)
<1> DEFINE x == target[t]
<1>1. pc[t] = "remove" /\ UNCHANGED <<rooms, fdOf, acceptor>> /\ Waiting!DropFirst(found[t])
  BY DEF RemoveQueued, Drop
<1>2. x \in Client /\ found[t] = x
  BY <1>1, Closer
<1>3. PICK i \in 1 .. Len(queue) : queue[i] = x /\ queue' = CutAt(queue, i)
  BY <1>1, <1>2 DEF Waiting!DropFirst, Waiting!RemoveAt, CutAt
<1>4. LobbyRooms' = LobbyRooms /\ Came' = Came
  BY <1>1 DEF LobbyRooms, Came, Accepted, Queuing
<1> QED BY <1>2, <1>3, <1>4 DEF L!Leave, L!RemoveAt, CutAt, LobbyRooms, Came

\* One turn of the matcher's inner loop makes a room of the front.
LEMMA LobbyMatch ==
  ASSUME IInv, FillRoom
  PROVE  L!Match
<1> DEFINE Rm == [id : Fd, clients : [1 .. RoomSize -> Client], disbanded : BOOLEAN]
           front == SubSeq(queue, 1, RoomSize)
           S == Seq(Client)
<1>1. /\ Len(queue) >= RoomSize
      /\ rooms' = Append(rooms, NewRoom)
      /\ queue' = SubSeq(queue, RoomSize + 1, Len(queue))
      /\ UNCHANGED <<fdOf, acceptor>>
  BY DEF FillRoom, Waiting!Dequeue
<1>2. NewRoom.clients = front
  BY DEF NewRoom, Seated
<1>3. rooms \in Seq(Rm) /\ Len(rooms) \in Nat
  BY DEF IInv, TypeOK
<1>4. /\ Len(rooms') = Len(rooms) + 1
      /\ \A r \in 1 .. Len(rooms) : rooms'[r] = rooms[r]
      /\ rooms'[Len(rooms) + 1] = NewRoom
  BY <1>1, <1>3
<1> HIDE DEF Rm, front
<1>5. LobbyRooms' = Append(LobbyRooms, front)
  <2>1. Len(LobbyRooms) = Len(rooms)
    BY <1>3 DEF LobbyRooms
  <2>2. Append(LobbyRooms, front) =
          [r \in 1 .. Len(rooms) + 1 |->
             IF r <= Len(rooms) THEN LobbyRooms[r] ELSE front]
    BY <1>3, <2>1 DEF LobbyRooms
  <2>3. LobbyRooms' = [r \in 1 .. Len(rooms) + 1 |-> rooms'[r].clients]
    BY <1>4 DEF LobbyRooms
  <2>4. ASSUME NEW r \in 1 .. Len(rooms) + 1
        PROVE  rooms'[r].clients = IF r <= Len(rooms) THEN LobbyRooms[r] ELSE front
    BY <1>2, <1>3, <1>4 DEF LobbyRooms
  <2> QED BY <2>2, <2>3, <2>4
<1>6. Came' = Came
  BY <1>1 DEF Came, Accepted, Queuing
<1> QED BY <1>1, <1>5, <1>6 DEF L!Match, LobbyRooms, Came, front

\* The server implements the lobby: every step is a joining, a leaving, a match or
\* no step of the lobby at all.
THEOREM SpecLobby == Spec => LobbySpec
<1>1. IInv /\ [Next]_vars => [L!Next]_L!lobbyVars
  <2> SUFFICES ASSUME IInv, [Next]_vars
               PROVE  L!Next \/ UNCHANGED <<queue, LobbyRooms, Came>>
    BY DEF L!lobbyVars, LobbyRooms, Came
  <2> DEFINE Same == UNCHANGED <<queue, LobbyRooms, Came>>
  <2>1. CASE UNCHANGED vars
    BY <2>1 DEF vars, LobbyRooms, Came, Accepted, Queuing
  <2>2. CASE EnqueueClient
    BY <2>2, LobbyJoin DEF L!Next
  <2>3. CASE PrintQueue \/ SpawnHandler \/ SpawnFails
    <3>1. Queuing = {} /\ Queuing' = {}
      BY <2>3, MatchmakingAssumption
         DEF PrintQueue, SpawnHandler, SpawnFails, Queuing, IInv, TypeOK
    <3> QED BY <3>1, <2>3 DEF PrintQueue, SpawnHandler, SpawnFails, LobbyRooms, Came, Accepted
  <2>4. CASE MatcherLock \/ MatcherWait \/ SpuriousWake \/ RoomMallocFails \/ MatcherUnlock
    BY <2>4 DEF MatcherLock, MatcherWait, SpuriousWake, RoomMallocFails, MatcherUnlock,
                LobbyRooms, Came, Accepted, Queuing
  <2>5. CASE MakeRoom \/ RoomThreadFails
    BY <2>5, LobbyMatch DEF MakeRoom, RoomThreadFails, L!Next
  <2>6. ASSUME NEW c \in Client, Accept(c) PROVE Same
    <3>1. /\ acceptor.pc = "accept" /\ fdOf[c] = NoFd
          /\ \E f \in Fd : fdOf' = [fdOf EXCEPT ![c] = f]
          /\ acceptor' = [pc |-> "enqueue", client |-> c]
          /\ UNCHANGED <<queue, rooms>>
      <4> DEFINE free == {fd \in Fd : owner[fd] = NoClient}
      <4>1. Min(free) \in Fd
        BY <2>6, MinIsLeast, MatchmakingAssumption DEF Accept, Fd
      <4> QED BY <2>6, <4>1 DEF Accept
    <3>2. Queuing = {} /\ Queuing' = {c} /\ Accepted' = Accepted \cup {c} /\ c \notin Accepted
      BY <3>1 DEF Queuing, Accepted, Fd, NoFd, IInv, TypeOK
    <3> QED BY <3>1, <3>2 DEF LobbyRooms, Came
  <2>7. ASSUME NEW c \in Client, Signal(c) PROVE Same
    BY <2>7 DEF Signal, LobbyRooms, Came, Accepted, Queuing
  <2>8. ASSUME NEW r \in RoomNumber, Disband(r) PROVE Same
    <3>1. /\ rooms' = [rooms EXCEPT ![r].disbanded = TRUE] /\ UNCHANGED <<queue, fdOf, acceptor>>
      BY <2>8 DEF Disband
    <3>2. /\ Len(rooms') = Len(rooms)
          /\ \A s \in 1 .. Len(rooms) : rooms'[s].clients = rooms[s].clients
      BY <2>8, DisbandKeepsRooms
    <3> QED BY <3>1, <3>2 DEF LobbyRooms, Came, Accepted, Queuing
  <2>9. ASSUME NEW t \in Thread, RemoveQueued(t) PROVE L!Next
    BY <2>9, LobbyLeave DEF L!Next
  <2>10. ASSUME NEW t \in Thread,
                \/ NotQueued(t) \/ FindQueued(t) \/ CloseFd(t) \/ CallbackReturns(t)
                \/ \E c \in Client : SendFails(t, c)
         PROVE  Same
    BY <2>10 DEF NotQueued, FindQueued, CloseFd, CallbackReturns, SendFails,
                 LobbyRooms, Came, Accepted, Queuing
  <2> QED BY <2>1, <2>2, <2>3, <2>4, <2>5, <2>6, <2>7, <2>8, <2>9, <2>10
          DEF Next, AcceptorStep, MatcherStep, Disconnecting
<1> QED BY <1>1, LobbyInit, SpecIInv, PTL DEF Spec, LobbySpec, L!Spec
=============================================================================
