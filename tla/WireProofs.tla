----------------------------- MODULE WireProofs ------------------------------
(***************************************************************************)
(* Proofs about what goes over the wire.                                   *)
(*                                                                         *)
(* Sockets, for any number of addresses, descriptors and sending threads,  *)
(* any messages and any buffer: the invariant has two parts that do not    *)
(* meet, which descriptors are open at each place of server_set_fd, and    *)
(* what the wire carries of each sendall.                                  *)
(*                                                                         *)
(* BinArr, for bytes of any even number of values, arrays of any capacity  *)
(* and any numbers: the bytes of a number add up to it again, in the order *)
(* they were written in, and every number that nothing was written over    *)
(* still lies in the array.                                                *)
(***************************************************************************)
EXTENDS Sockets, BinArr, Lemmas, FiniteSetTheorems

\* The places in server_set_fd.
Servers == {"getaddrinfo", "socket", "bind", "listen", "returned", "failed", "crashed"}

\* Where server_set_fd has a socket, and what it has made of it.
Holding == server \in {"bind", "listen", "returned"}

\* server_set_fd: its types.
SetUpTypes ==
  /\ addresses \in 0 .. MaxAddresses /\ address \in 1 .. MaxAddresses + 1
  /\ socket \in [Fd -> {"closed", "open", "bound", "listening"}]
  /\ sockfd \in Fd \cup {NoFd} /\ serverFd \in Fd \cup {NoFd}
  /\ server \in Servers

\* The one socket, and no other.
OneSocket ==
  /\ server \in {"bind", "listen"} => address <= addresses
  /\ Holding => sockfd \in Fd
  /\ server = "bind" => socket[sockfd] = "open"
  /\ server = "listen" => socket[sockfd] = "bound"
  /\ server = "returned" => socket[sockfd] = "listening" /\ serverFd = sockfd
  /\ \A fd \in Fd : ~(Holding /\ fd = sockfd) => socket[fd] = "closed"

SetUpInv == SetUpTypes /\ OneSocket

\* connect_to_server: its types.
ConnectInv ==
  /\ client \in {"getaddrinfo", "socket", "connect", "connected", "failed"}
  /\ clientFd \in {"closed", "open", "connected"}

\* The wire carries bytes, some of which were read.
WireInv ==
  /\ wire \in Seq(Sender \X Nat)
  /\ taken \in 0 .. Len(wire) /\ peerGone \in BOOLEAN

\* sendall: nothing was sent before the call, and never more than there is.
SendInv ==
  /\ length \in [Sender -> Lengths \cup {0}] /\ sent \in [Sender -> Nat]
  /\ sender \in [Sender -> {"idle", "sending", "sent", "failed"}]
  /\ \A t \in Sender : /\ sent[t] <= length[t]
                       /\ sender[t] = "idle" => sent[t] = 0

\* The inductive invariant.
IInv == SetUpInv /\ ConnectInv /\ WireInv /\ SendInv /\ SentInOrder

\* What is sent goes behind what was sent, and is the next part of the buffer.
LEMMA PartProperties ==
  ASSUME NEW t \in Sender, NEW k \in Nat, wire \in Seq(Sender \X Nat), sent[t] \in Nat
  PROVE  LET w == wire \o Part(t, k) IN
         /\ w \in Seq(Sender \X Nat)
         /\ Len(w) = Len(wire) + k
         /\ \A p \in 1 .. Len(wire) : w[p] = wire[p]
         /\ \A p \in 1 .. k : w[Len(wire) + p] = <<t, sent[t] + p>>
<1> DEFINE S == Sender \X Nat
           b == Part(t, k)
<1>1. b \in Seq(S) /\ Len(b) = k /\ \A p \in 1 .. k : b[p] = <<t, sent[t] + p>>
  BY DEF Part, Progress
<1>2. Len(wire) \in Nat /\ wire \in Seq(S)
  BY LenProperties
<1> HIDE DEF S, b
<1>3. /\ wire \o b \in Seq(S)
      /\ Len(wire \o b) = Len(wire) + Len(b)
      /\ \A p \in 1 .. Len(wire) + Len(b) :
           (wire \o b)[p] = IF p <= Len(wire) THEN wire[p] ELSE b[p - Len(wire)]
  BY <1>1, <1>2, ConcatProperties
<1>4. \A p \in 1 .. Len(wire) : (wire \o b)[p] = wire[p]
  BY <1>1, <1>2, <1>3
<1>5. ASSUME NEW p \in 1 .. k PROVE (wire \o b)[Len(wire) + p] = b[p]
  <2>1. /\ Len(wire) + p \in 1 .. Len(wire) + Len(b) /\ ~(Len(wire) + p <= Len(wire))
        /\ (Len(wire) + p) - Len(wire) = p
    BY <1>1, <1>2
  <2> QED BY <2>1, <1>3
<1> QED BY <1>1, <1>3, <1>4, <1>5 DEF S, b

\* The lengths are numbers.
LEMMA LengthsAreNumbers ==
  ASSUME SendInv, NEW t \in Sender
  PROVE  sent[t] \in Nat /\ length[t] \in Nat /\ sent[t] <= length[t]
<1>1. length[t] \in Lengths \cup {0} /\ sent[t] \in Nat /\ sent[t] <= length[t]
  BY DEF SendInv
<1>2. \A n \in Lengths \cup {0} : n \in Nat
  BY SocketsAssumption
<1> QED BY <1>1, <1>2, Zenon

\* Before the first call.
LEMMA InitIInv == Init => IInv
<1> SUFFICES ASSUME Init PROVE IInv
  OBVIOUS
<1> USE DEF Init
<1>1. SetUpInv
  BY SocketsAssumption DEF SetUpInv, SetUpTypes, OneSocket, Servers, Holding, NoFd
<1>2. WireInv /\ Len(wire) = 0 /\ wire = << >>
  <2>1. wire = << >> /\ Len(wire) = 0 /\ wire \in Seq(Sender \X Nat)
    OBVIOUS
  <2>2. taken = 0 /\ peerGone \in BOOLEAN
    OBVIOUS
  <2> QED BY ONLY <2>1, <2>2 DEF WireInv
<1>3. SendInv
  BY DEF SendInv
<1>4. SentInOrder
  <2>1. 1 .. Len(wire) = {} /\ \A t \in Sender : 1 .. sent[t] = {}
    BY <1>2
  <2> QED BY <2>1 DEF SentInOrder, BytesOf
<1> QED BY <1>1, <1>2, <1>3, <1>4 DEF IInv, ConnectInv

\* Each step of server_set_fd, and what it leaves open.
LEMMA SetUpStep ==
  ASSUME IInv, SetUp
  PROVE  IInv'
<1> USE DEF Holding, Servers
<1>1. SetUpInv /\ UNCHANGED <<connecting, stream>>
  BY DEF IInv, SetUp, GetAddrInfo, Socket, Bind, NoneBound, Listen
<1>2. MaxAddresses \in Nat \ {0} /\ addresses \in Nat /\ address \in Nat /\ NoFd \notin Fd
  BY <1>1, SocketsAssumption DEF SetUpInv, SetUpTypes, OneSocket, Fd, NoFd
<1> SUFFICES SetUpInv'
  BY <1>1 DEF IInv, connecting, stream, ConnectInv, WireInv, SendInv, SentInOrder, BytesOf
<1>3. CASE GetAddrInfo
  <2>1. /\ server = "getaddrinfo" /\ server' \in {"socket", "failed", "crashed"}
        /\ addresses' \in 0 .. MaxAddresses
        /\ UNCHANGED <<address, socket, sockfd, serverFd>>
    BY <1>1, <1>2, <1>3 DEF GetAddrInfo, SetUpInv, SetUpTypes
  <2> QED BY <2>1, <1>1 DEF SetUpInv, SetUpTypes, OneSocket
<1>4. CASE Socket
  <2>1. server = "socket" /\ address <= addresses /\ UNCHANGED <<addresses, serverFd>>
    BY <1>4 DEF Socket, AddressLeft
  <2>2. CASE /\ Free # {} /\ sockfd' = Min(Free)
             /\ socket' = [socket EXCEPT ![Min(Free)] = "open"]
             /\ server' = "bind" /\ UNCHANGED address
    <3>1. Min(Free) \in Fd
      <4>1. Free \subseteq Nat /\ Free \subseteq Fd
        BY <1>2, SocketsAssumption DEF Free, Fd
      <4> QED BY <4>1, <2>2, MinIsLeast
    <3> QED BY <3>1, <2>1, <2>2, <1>1, <1>2 DEF SetUpInv, SetUpTypes, OneSocket
  <2>3. CASE address' = address + 1 /\ UNCHANGED <<socket, sockfd, server>>
    BY <2>1, <2>3, <1>1, <1>2 DEF SetUpInv, SetUpTypes, OneSocket
  <2> QED BY <2>2, <2>3, <1>4 DEF Socket
<1>5. CASE Bind
  <2>1. server = "bind" /\ UNCHANGED <<addresses, sockfd, serverFd>>
    BY <1>5 DEF Bind
  <2>2. CASE /\ socket' = [socket EXCEPT ![sockfd] = "bound"]
             /\ server' = "listen" /\ UNCHANGED address
    BY <2>1, <2>2, <1>1, <1>2 DEF SetUpInv, SetUpTypes, OneSocket
  <2>3. CASE Close /\ address' = address + 1 /\ server' = "socket"
    BY <2>1, <2>3, <1>1, <1>2 DEF SetUpInv, SetUpTypes, OneSocket, Close
  <2> QED BY <2>2, <2>3, <1>5 DEF Bind
<1>6. CASE NoneBound
  BY <1>1, <1>2, <1>6 DEF NoneBound, SetUpInv, SetUpTypes, OneSocket
<1>7. CASE Listen
  <2>1. server = "listen" /\ UNCHANGED <<addresses, address, sockfd>>
    BY <1>7 DEF Listen
  <2>2. CASE /\ socket' = [socket EXCEPT ![sockfd] = "listening"]
             /\ serverFd' = sockfd /\ server' = "returned"
    BY <2>1, <2>2, <1>1, <1>2 DEF SetUpInv, SetUpTypes, OneSocket
  <2>3. CASE Close /\ server' = "failed" /\ UNCHANGED serverFd
    BY <2>1, <2>3, <1>1, <1>2 DEF SetUpInv, SetUpTypes, OneSocket, Close
  <2> QED BY <2>2, <2>3, <1>7 DEF Listen
<1> QED BY <1>3, <1>4, <1>5, <1>6, <1>7 DEF SetUp

\* connect_to_server touches nothing else.
LEMMA ConnectStep ==
  ASSUME IInv, Resolve \/ MakeSocket \/ Connect
  PROVE  IInv'
<1>1. UNCHANGED <<setUp, stream>>
  BY DEF Resolve, MakeSocket, Connect
<1>2. ConnectInv'
  BY DEF IInv, ConnectInv, Resolve, MakeSocket, Connect
<1> QED BY <1>1, <1>2 DEF IInv, setUp, stream, SetUpInv, SetUpTypes, OneSocket, Holding,
                          WireInv, SendInv, SentInOrder, BytesOf

\* The call of sendall, and its return, change what the thread is told only.
LEMMA CallStep ==
  ASSUME IInv, NEW t \in Sender, SendAll(t) \/ SendFails(t) \/ SendAllReturns(t)
  PROVE  IInv'
<1>1. UNCHANGED <<setUp, connecting, wire, taken, peerGone, sent>> /\ UNCHANGED BytesOf(t)
  BY DEF SendAll, SendFails, SendAllReturns, BytesOf
<1>2. SendInv /\ SentInOrder /\ Lengths \subseteq Nat
  BY SocketsAssumption DEF IInv
<1>3. SendInv'
  BY <1>1, <1>2 DEF SendInv, SendAll, SendFails, SendAllReturns, GiveUp, AllSent
<1>4. \A u \in Sender : BytesOf(u)' = BytesOf(u)
  BY <1>1 DEF BytesOf
<1>5. \A u \in Sender : sender'[u] = "sent" => sent'[u] = length'[u]
  <2>1. CASE SendAll(t)
    BY <2>1, <1>1, <1>2 DEF SendInv, SentInOrder, SendAll
  <2>2. CASE SendFails(t)
    BY <2>2, <1>1, <1>2 DEF SendInv, SentInOrder, SendFails, GiveUp
  <2>3. CASE SendAllReturns(t)
    <3>1. /\ sent[t] >= length[t] /\ sender' = [sender EXCEPT ![t] = "sent"]
          /\ UNCHANGED <<length, sent, peerGone>>
      BY <2>3 DEF SendAllReturns, AllSent
    <3>2. sent[t] \in Nat /\ length[t] \in Nat /\ sent[t] <= length[t]
      BY <1>2, LengthsAreNumbers
    <3>3. sent[t] = length[t]
      BY <3>1, <3>2
    <3> QED BY <3>1, <3>3, <1>2 DEF SendInv, SentInOrder
  <2> QED BY <2>1, <2>2, <2>3
<1>6. SentInOrder'
  BY <1>1, <1>2, <1>4, <1>5 DEF SentInOrder
<1> QED BY <1>1, <1>3, <1>6 DEF IInv, setUp, connecting, SetUpInv, SetUpTypes, OneSocket,
                                Holding, ConnectInv, WireInv

\* send takes a part: the next bytes of t's buffer join the wire.
LEMMA SendStep ==
  ASSUME IInv, NEW t \in Sender, Send(t)
  PROVE  IInv'
<1>1. /\ sender[t] = "sending" /\ sent[t] < length[t]
      /\ UNCHANGED <<setUp, connecting, taken, peerGone, length, sender>>
  BY DEF Send
<1>2. PICK k \in 1 .. length[t] - sent[t] :
        wire' = wire \o Part(t, k) /\ sent' = [sent EXCEPT ![t] = @ + k]
  BY DEF Send
<1> DEFINE n == Len(wire)
           s == sent[t]
<1>3. /\ wire \in Seq(Sender \X Nat) /\ n \in Nat /\ taken \in 0 .. n /\ s \in Nat
      /\ SendInv /\ SentInOrder /\ length[t] \in Nat
  <2>1. wire \in Seq(Sender \X Nat) /\ taken \in 0 .. n /\ SendInv /\ SentInOrder
    BY DEF IInv, WireInv
  <2>2. n \in Nat
    BY <2>1, LenProperties
  <2>3. s \in Nat /\ length[t] \in Nat
    BY <2>1, LengthsAreNumbers
  <2> QED BY <2>1, <2>2, <2>3
<1>4. k \in Nat /\ k >= 1 /\ s + k <= length[t]
  BY <1>1, <1>2, <1>3
<1>5. /\ wire' \in Seq(Sender \X Nat) /\ Len(wire') = n + k
      /\ \A p \in 1 .. n : wire'[p] = wire[p]
      /\ \A p \in 1 .. k : wire'[n + p] = <<t, s + p>>
  BY <1>2, <1>3, <1>4, PartProperties
<1>6. sent'[t] = s + k /\ \A u \in Sender : u # t => sent'[u] = sent[u]
  BY <1>2, <1>3 DEF SendInv
<1> HIDE DEF n, s
<1>7. \A p \in 1 .. n : wire[p][1] \in Sender /\ wire[p][2] \in Nat
  <2>1. \A p \in 1 .. n : wire[p] \in Sender \X Nat
    BY <1>3, ElementOfSeq DEF n
  <2> QED BY <2>1
<1>8. \A p \in n + 1 .. n + k : wire'[p] = <<t, s + (p - n)>>
  <2>1. ASSUME NEW p \in n + 1 .. n + k PROVE p - n \in 1 .. k /\ n + (p - n) = p
    BY <1>3, <1>4
  <2> QED BY <2>1, <1>5
<1>9. \A p \in 1 .. n : wire[p][1] = t => wire[p][2] <= s
  <2>1. BytesOf(t) = 1 .. s
    BY <1>3 DEF SentInOrder, s
  <2> QED BY <2>1, <1>3 DEF BytesOf, n
<1>10. ASSUME NEW p1 \in 1 .. n + k, NEW p2 \in 1 .. n + k,
              p1 < p2, wire'[p1][1] = wire'[p2][1]
       PROVE  wire'[p1][2] < wire'[p2][2]
  <2>1. CASE p2 \in 1 .. n
    <3>1. p1 \in 1 .. n
      BY <2>1, <1>3, <1>10
    <3> QED BY <2>1, <3>1, <1>3, <1>5, <1>10 DEF SentInOrder, n
  <2>2. CASE p2 \in n + 1 .. n + k
    <3>1. wire'[p2][1] = t /\ wire'[p2][2] = s + (p2 - n) /\ p2 - n >= 1
      BY <2>2, <1>8, <1>3, <1>4
    <3>2. CASE p1 \in 1 .. n
      <4>1. wire[p1][1] = t /\ wire'[p1] = wire[p1] /\ wire[p1][2] \in Nat
        BY <3>1, <3>2, <1>5, <1>7, <1>10
      <4>2. wire[p1][2] <= s
        BY <4>1, <3>2, <1>9
      <4> QED BY <3>1, <4>1, <4>2, <1>3, <1>4
    <3>3. CASE p1 \in n + 1 .. n + k
      <4>1. wire'[p1][2] = s + (p1 - n)
        BY <3>3, <1>8
      <4> QED BY <3>1, <4>1, <1>3, <1>4, <1>10
    <3> QED BY <3>2, <3>3, <1>3, <1>4
  <2> QED BY <2>1, <2>2, <1>3, <1>4
<1>11. ASSUME NEW u \in Sender PROVE BytesOf(u)' = 1 .. sent'[u]
  <2>1. BytesOf(u)' = {wire'[p][2] : p \in {p \in 1 .. n + k : wire'[p][1] = u}}
    BY <1>5 DEF BytesOf
  <2>2. BytesOf(u) = {wire[p][2] : p \in {p \in 1 .. n : wire[p][1] = u}}
    BY DEF BytesOf, n
  <2>3. BytesOf(u) = 1 .. sent[u] /\ sent[u] \in Nat
    BY <1>3 DEF SentInOrder, SendInv
  <2>4. ASSUME NEW m \in BytesOf(u) PROVE m \in BytesOf(u)'
    <3>1. PICK p \in 1 .. n : wire[p][1] = u /\ m = wire[p][2]
      BY <2>2
    <3>2. p \in 1 .. n + k /\ wire'[p] = wire[p]
      BY <1>3, <1>4, <1>5
    <3> QED BY <2>1, <3>1, <3>2
  <2>5. CASE u = t
    <3>1. ASSUME NEW m \in 1 .. s + k PROVE m \in BytesOf(u)'
      <4>1. CASE m \in 1 .. s
        BY <4>1, <2>3, <2>4, <2>5 DEF s
      <4>2. CASE m \notin 1 .. s
        <5>1. m - s \in 1 .. k /\ n + (m - s) \in 1 .. n + k /\ s + (m - s) = m
          BY <4>2, <1>3, <1>4
        <5>2. wire'[n + (m - s)] = <<t, m>>
          BY <5>1, <1>5
        <5> QED BY <5>1, <5>2, <2>1, <2>5
      <4> QED BY <4>1, <4>2
    <3>2. ASSUME NEW m \in BytesOf(u)' PROVE m \in 1 .. s + k
      <4>1. PICK p \in 1 .. n + k : wire'[p][1] = u /\ m = wire'[p][2]
        BY <2>1
      <4>2. CASE p \in 1 .. n
        <5>1. m \in BytesOf(u)
          BY <4>1, <4>2, <2>2, <1>5
        <5> QED BY <5>1, <2>3, <2>5, <1>3, <1>4 DEF s
      <4>3. CASE p \in n + 1 .. n + k
        <5>1. m = s + (p - n)
          BY <4>1, <4>3, <1>8
        <5> QED BY <5>1, <4>3, <1>3, <1>4
      <4> QED BY <4>2, <4>3, <1>3, <1>4
    <3> QED BY <3>1, <3>2, <2>5, <1>6
  <2>6. CASE u # t
    <3>1. ASSUME NEW m \in BytesOf(u)' PROVE m \in BytesOf(u)
      <4>1. PICK p \in 1 .. n + k : wire'[p][1] = u /\ m = wire'[p][2]
        BY <2>1
      <4>2. p \in 1 .. n
        BY <4>1, <2>6, <1>3, <1>4, <1>8
      <4> QED BY <4>1, <4>2, <2>2, <1>5
    <3> QED BY <3>1, <2>3, <2>4, <2>6, <1>6
  <2> QED BY <2>5, <2>6
<1>12. SentInOrder'
  <2>1. \A u \in Sender : sender'[u] = "sent" => sent'[u] = length'[u]
    BY <1>1, <1>3, <1>6 DEF SentInOrder
  <2> QED BY <2>1, <1>5, <1>10, <1>11 DEF SentInOrder
<1>13. SendInv'
  <2>1. sent' \in [Sender -> Nat]
    BY <1>2, <1>3, <1>4 DEF SendInv, s
  <2> QED BY <2>1, <1>1, <1>3, <1>4, <1>6 DEF SendInv
<1>14. WireInv'
  BY <1>1, <1>3, <1>4, <1>5 DEF IInv, WireInv
<1> QED BY <1>1, <1>12, <1>13, <1>14 DEF IInv, setUp, connecting, SetUpInv, SetUpTypes,
                                         OneSocket, Holding, ConnectInv

\* The client reads, or goes.
LEMMA ClientStep ==
  ASSUME IInv, Take \/ Go
  PROVE  IInv'
<1>1. UNCHANGED <<setUp, connecting, wire, length, sent, sender>>
  BY DEF Take, Go
<1>2. WireInv'
  <2>1. wire \in Seq(Sender \X Nat) /\ taken \in 0 .. Len(wire) /\ peerGone \in BOOLEAN
    BY DEF IInv, WireInv
  <2>2. Len(wire) \in Nat
    BY <2>1, LenProperties
  <2>3. peerGone' \in BOOLEAN /\ (taken' = taken \/ (taken < Len(wire) /\ taken' = taken + 1))
    <3>1. CASE Take
      BY <3>1, <2>1, <2>2 DEF Take
    <3>2. CASE Go
      <4>1. peerGone' = TRUE /\ taken' = taken
        BY <3>2 DEF Go
      <4> QED BY <4>1, <2>1, <2>2
    <3> QED BY <3>1, <3>2
  <2>4. taken' \in 0 .. Len(wire)
    BY <2>1, <2>2, <2>3
  <2> QED BY <2>1, <2>3, <2>4, <1>1 DEF WireInv
<1> QED BY <1>1, <1>2 DEF IInv, setUp, connecting, SetUpInv, SetUpTypes, OneSocket, Holding,
                          ConnectInv, SendInv,
                          SentInOrder, BytesOf

\* Every step keeps the invariant.
LEMMA StepIInv == IInv /\ [Next]_vars => IInv'
<1> SUFFICES ASSUME IInv, [Next]_vars PROVE IInv'
  OBVIOUS
<1>1. CASE UNCHANGED vars
  BY <1>1 DEF vars, setUp, connecting, stream, IInv, SetUpInv, SetUpTypes, OneSocket,
              Holding, ConnectInv, WireInv, SendInv,
              SentInOrder, BytesOf
<1> QED BY <1>1, SetUpStep, ConnectStep, CallStep, SendStep, ClientStep DEF Next, Sending

\* The invariant holds always.
LEMMA SpecIInv == Spec => []IInv
BY InitIInv, StepIInv, PTL DEF Spec

\* The variables have their types.
THEOREM SpecTypeOK == Spec => []TypeOK
<1>1. IInv => TypeOK
  BY DEF IInv, SetUpInv, SetUpTypes, Servers, ConnectInv, WireInv, SendInv, TypeOK
<1> QED BY <1>1, SpecIInv, PTL

\* No failure of a call leaves a socket open but the one that is returned.
THEOREM SpecOnlyTheListener == Spec => []OnlyTheListener
<1>1. IInv => OnlyTheListener
  <2> SUFFICES ASSUME IInv PROVE OnlyTheListener
    OBVIOUS
  <2> DEFINE open == {fd \in Fd : socket[fd] # "closed"}
  <2>1. open = IF Holding THEN {sockfd} ELSE {}
    BY DEF IInv, SetUpInv, SetUpTypes, OneSocket, Holding
  <2>2. Cardinality(open) <= 1
    <3>1. Cardinality({}) = 0 /\ Cardinality({sockfd}) = 1
      BY FS_EmptySet, FS_Singleton
    <3> HIDE DEF open
    <3> QED BY <2>1, <3>1
  <2>3. server = "returned" => open = {serverFd} /\ socket[serverFd] = "listening"
    BY <2>1 DEF IInv, SetUpInv, SetUpTypes, OneSocket, Holding
  <2>4. server \in {"failed", "crashed"} => open = {}
    BY <2>1 DEF Holding
  <2> QED BY <2>2, <2>3, <2>4 DEF OnlyTheListener
<1> QED BY <1>1, SpecIInv, PTL

\* Each thread's bytes are on the wire once, in order and without a gap.
THEOREM SpecSentInOrder == Spec => []SentInOrder
BY SpecIInv, PTL DEF IInv

-----------------------------------------------------------------------------
(***************************************************************************)
(* BinArr: numbers as bytes.                                               *)
(***************************************************************************)

\* The quotient is the one number that leaves such a remainder.
LEMMA DivUnique ==
  ASSUME NEW k \in Int, NEW r \in Nat \ {0}, NEW m \in 0 .. r - 1
  PROVE  (r * k + m) \div r = k
<1> DEFINE a == r * k + m
           q == a \div r
<1>1. a \in Int
  OBVIOUS
<1>2. q \in Int /\ a % r = m /\ a = r * q + (a % r)
  BY <1>1, DivMod, ModUnique
<1>3. r * q + m = r * k + m
  BY <1>2
<1> HIDE DEF q
<1>4. r * (q - k) = 0
  <2>1. r * q \in Int /\ r * k \in Int
    BY <1>2
  <2>2. r * (q - k) = r * q - r * k
    BY <1>2
  <2> QED BY <1>3, <2>1, <2>2
<1>5. q - k = 0
  <2> DEFINE j == q - k
  <2>1. j \in Int /\ r * j < r /\ r * j > -r
    BY <1>2, <1>4
  <2> HIDE DEF j
  <2>2. j = 0
    BY <2>1, SmallMultiple
  <2> QED BY <2>2 DEF j
<1> QED BY <1>2, <1>5 DEF q

\* Division by a product is division by its factors.
LEMMA DivDiv ==
  ASSUME NEW a \in Nat, NEW p \in Nat \ {0}, NEW b \in Nat \ {0}
  PROVE  (a \div p) \div b = a \div (b * p)
<1> DEFINE q == a \div p
           r == a % p
           s == q \div b
           t == q % b
<1>1. q \in Int /\ r \in 0 .. p - 1 /\ a = p * q + r
  BY DivMod
<1> HIDE DEF q, r
<1>2. s \in Int /\ t \in 0 .. b - 1 /\ q = b * s + t
  BY <1>1, DivMod
<1> HIDE DEF s, t
<1> DEFINE c == b * p
           m == p * t + r
<1>3. c \in Nat \ {0} /\ a = c * s + m
  <2>1. p * (b * s + t) = (b * p) * s + p * t
    BY <1>1, <1>2
  <2>2. (b * p) * s \in Int /\ p * t \in Int /\ b * p \in Nat \ {0}
    BY <1>1, <1>2
  <2> QED BY <1>1, <1>2, <2>1, <2>2
<1>4. m \in 0 .. c - 1
  <2>1. p * t \in Int /\ p * t >= 0
    BY <1>2
  <2>2. p * t <= p * (b - 1)
    BY <1>2
  <2>3. p * (b - 1) = c - p /\ c \in Int
    OBVIOUS
  <2> DEFINE e == p * t
  <2>4. e \in Int /\ e >= 0 /\ e <= c - p
    BY <2>1, <2>2, <2>3
  <2> HIDE DEF e, c
  <2>5. e + r \in 0 .. c - 1
    BY <1>1, <2>3, <2>4
  <2> QED BY <2>5 DEF e
<1> HIDE DEF c, m
<1>5. (c * s + m) \div c = s
  BY <1>2, <1>3, <1>4, DivUnique
<1> QED BY <1>3, <1>5 DEF c, s, q

\* The widths, and what bytes can hold: another byte makes it Base times as much.
LEMMA ValuesAre ==
  /\ Base \in Nat \ {0} /\ Values(0) = 1
  /\ \A n \in 0 .. 3 : Values(n + 1) = Base * Values(n)
  /\ \A n \in 0 .. 4 : Values(n) \in Nat \ {0}
  /\ \A n \in 1 .. 4 : Values(n) = 2 * (Values(n) \div 2) /\ Values(n) \div 2 \in Nat \ {0}
<1>1. Base \in Nat \ {0} /\ Base % 2 = 0
  BY BinArrAssumption
<1>2. /\ Values(0) = 1 /\ Values(1) = Base /\ Values(2) = Base * Base
      /\ Values(3) = Base * Base * Base /\ Values(4) = Base * Base * Base * Base
  BY DEF Values
<1> DEFINE b2 == Base * Base
           b3 == Base * Base * Base
           b4 == Base * Base * Base * Base
<1>3. b2 \in Nat \ {0} /\ b3 \in Nat \ {0} /\ b4 \in Nat \ {0}
  <2>1. b2 \in Nat \ {0}
    BY <1>1
  <2>2. b2 * Base \in Nat \ {0}
    <3> HIDE DEF b2
    <3> QED BY <1>1, <2>1
  <2>3. b3 \in Nat \ {0}
    BY <2>2
  <2>4. b3 * Base \in Nat \ {0}
    <3> HIDE DEF b3
    <3> QED BY <1>1, <2>3
  <2> QED BY <2>1, <2>3, <2>4
<1>4. b2 = Base * Base /\ b3 = Base * b2 /\ b4 = Base * b3
  BY <1>1
<1>5. \A n \in 0 .. 4 : Values(n) \in Nat \ {0}
  <2> SUFFICES ASSUME NEW n \in 0 .. 4 PROVE Values(n) \in Nat \ {0}
    OBVIOUS
  <2>1. n = 0 \/ n = 1 \/ n = 2 \/ n = 3 \/ n = 4
    OBVIOUS
  <2> HIDE DEF b2, b3, b4
  <2>2. Values(2) = b2 /\ Values(3) = b3 /\ Values(4) = b4
    BY <1>2 DEF b2, b3, b4
  <2> QED BY <1>1, <1>2, <1>3, <2>1, <2>2
<1>6. \A n \in 0 .. 3 : Values(n + 1) = Base * Values(n)
  <2> SUFFICES ASSUME NEW n \in 0 .. 3 PROVE Values(n + 1) = Base * Values(n)
    OBVIOUS
  <2>1. n = 0 \/ n = 1 \/ n = 2 \/ n = 3
    OBVIOUS
  <2>2. Values(2) = b2 /\ Values(3) = b3 /\ Values(4) = b4
    BY <1>2
  <2> HIDE DEF b2, b3, b4
  <2> QED BY <1>1, <1>2, <1>4, <2>1, <2>2
<1>7. ASSUME NEW n \in 1 .. 4
      PROVE  Values(n) = 2 * (Values(n) \div 2) /\ Values(n) \div 2 \in Nat \ {0}
  <2>1. n - 1 \in 0 .. 3 /\ (n - 1) + 1 = n /\ n - 1 \in 0 .. 4
    OBVIOUS
  <2>2. Values(n) = Base * Values(n - 1) /\ Values(n - 1) \in Nat \ {0}
    BY <1>5, <1>6, <2>1
  <2> DEFINE h == Base \div 2
             u == Values(n - 1)
             x == h * u
  <2>3. h \in Nat \ {0} /\ Base = 2 * h /\ u \in Nat \ {0}
    BY <1>1, <2>2
  <2> HIDE DEF h, u
  <2>4. x \in Nat \ {0} /\ (2 * h) * u = 2 * x
    BY <2>3
  <2>5. Values(n) = 2 * x
    BY <2>2, <2>3, <2>4 DEF u
  <2> HIDE DEF x
  <2> QED BY <2>4, <2>5
<1> QED BY <1>1, <1>2, <1>5, <1>6, <1>7

\* A number has one to four bytes, and Significance turns their order around and back.
LEMMA KindIs ==
  ASSUME NEW kind \in Kind, NEW network
  PROVE  /\ Width(kind) \in 1 .. 4
         /\ \A i \in 0 .. Width(kind) - 1 :
              /\ Significance(kind, network, i) \in 0 .. Width(kind) - 1
              /\ Significance(kind, network, Significance(kind, network, i)) = i
<1>1. Width(kind) \in 1 .. 4
  BY DEF Width, Kind
<1> QED BY <1>1 DEF Significance

\* Signed undoes what the remainder made of a number of the kind.
LEMMA SignedIs ==
  ASSUME NEW kind \in Kind, NEW n \in IntegersOf(kind)
  PROVE  /\ n \in Int /\ n % Values(Width(kind)) \in 0 .. Values(Width(kind)) - 1
         /\ Signed(kind, n % Values(Width(kind))) = n
<1> DEFINE p == Values(Width(kind))
           h == p \div 2
<1>1. p \in Nat \ {0} /\ p = 2 * h /\ h \in Nat \ {0}
  <2>1. Width(kind) \in 1 .. 4 /\ Width(kind) \in 0 .. 4
    BY KindIs
  <2> QED BY <2>1, ValuesAre
<1>2. IntegersOf(kind) = IF kind = "u32" THEN 0 .. p - 1 ELSE -h .. h - 1
  BY DEF IntegersOf
<1>3. \A k : Signed(kind, k) = IF k \in IntegersOf(kind) THEN k ELSE k - p
  BY DEF Signed
<1> HIDE DEF p, h
<1>4. n \in Int /\ -p <= n /\ n < p
  BY <1>1, <1>2
<1>5. CASE n >= 0
  <2>1. n \in 0 .. p - 1 /\ 0 \in Int /\ p * 0 + n = n
    BY <1>1, <1>4, <1>5
  <2>2. n % p = n
    BY <1>1, <2>1, ModUnique
  <2>3. Signed(kind, n) = n
    BY <1>3
  <2> QED BY <1>4, <2>1, <2>2, <2>3 DEF p
<1>6. CASE n < 0
  <2>1. n + p \in 0 .. p - 1 /\ -1 \in Int /\ p * (-1) + (n + p) = n
    BY <1>1, <1>4, <1>6
  <2>2. n % p = n + p
    BY <1>1, <2>1, ModUnique
  <2>3. n + p \notin IntegersOf(kind)
    BY <1>1, <1>2, <1>4, <1>6
  <2>4. Signed(kind, n + p) = n
    BY <1>1, <1>3, <1>4, <2>3
  <2> QED BY <1>4, <2>1, <2>2, <2>4 DEF p
<1> QED BY <1>4, <1>5, <1>6

\* What the k most significant bytes at a place come to.
TopStep(kind, network, at, k, f) ==
  IF k = 0 THEN 0
  ELSE Base * f[k - 1] + buf[at + Significance(kind, network, Width(kind) - k)]

Tops(kind, network, at, N, f) == f = [k \in 0 .. N |-> TopStep(kind, network, at, k, f)]

\* The definition by recursion has a solution.
LEMMA TopExists ==
  ASSUME NEW kind, NEW network, NEW at, NEW N \in Nat
  PROVE  \E f : Tops(kind, network, at, N, f)
<1> DEFINE Upto(n) == \E f : Tops(kind, network, at, n, f)
           S == {n \in Nat : Upto(n)}
<1>1. 0 \in S
  <2> DEFINE f == [k \in 0 .. 0 |-> 0]
  <2>1. f = [k \in 0 .. 0 |-> TopStep(kind, network, at, k, f)]
    BY DEF TopStep
  <2> HIDE DEF f
  <2>2. Tops(kind, network, at, 0, f)
    BY <2>1 DEF Tops
  <2> QED BY <2>2
<1>2. ASSUME NEW n \in Nat, n \in S PROVE n + 1 \in S
  <2>1. PICK f : f = [k \in 0 .. n |-> TopStep(kind, network, at, k, f)]
    BY <1>2 DEF Tops
  <2> DEFINE g == [k \in 0 .. n + 1 |->
                     IF k = n + 1 THEN TopStep(kind, network, at, n + 1, f) ELSE f[k]]
  <2>2. ASSUME NEW k \in 0 .. n + 1 PROVE g[k] = TopStep(kind, network, at, k, g)
    <3>1. CASE k = n + 1
      <4>1. k - 1 = n /\ n \in 0 .. n + 1 /\ n # n + 1 /\ k # 0
        BY <3>1
      <4>2. g[k - 1] = f[k - 1]
        BY <4>1
      <4> QED BY <3>1, <4>1, <4>2 DEF TopStep
    <3>2. CASE k # n + 1
      <4>1. k \in 0 .. n /\ g[k] = f[k] /\ f[k] = TopStep(kind, network, at, k, f)
        BY <2>1, <3>2
      <4>2. k # 0 => g[k - 1] = f[k - 1]
        BY <4>1
      <4> QED BY <4>1, <4>2 DEF TopStep
    <3> QED BY <3>1, <3>2
  <2>3. g = [k \in 0 .. n + 1 |-> g[k]]
    OBVIOUS
  <2> HIDE DEF g
  <2>4. g = [k \in 0 .. n + 1 |-> TopStep(kind, network, at, k, g)]
    BY <2>2, <2>3
  <2>5. Tops(kind, network, at, n + 1, g)
    BY <2>4 DEF Tops
  <2> QED BY <2>5
<1> HIDE DEF S
<1>3. N \in S
  BY <1>1, <1>2, InductionUpTo
<1> QED BY <1>3 DEF S

\* Reading where the bytes of a number lie gives the number.
LEMMA ReadsWhatIsThere ==
  ASSUME NEW kind \in Kind, NEW network \in BOOLEAN, NEW n \in IntegersOf(kind), NEW at \in Int,
         \A i \in 0 .. Width(kind) - 1 : buf[at + i] = Bytes(kind, network, n)[i]
  PROVE  ReadInteger(kind, network, at) = n
<1> DEFINE w == Width(kind)
           a == n % Values(w)
           top == CHOOSE f : Tops(kind, network, at, w, f)
<1>1. ReadInteger(kind, network, at) = Signed(kind, top[w])
  BY DEF ReadInteger, TopStep, Tops
<1>2. top = [k \in 0 .. w |-> TopStep(kind, network, at, k, top)]
  <2>1. w \in Nat
    BY KindIs
  <2>2. \E f : Tops(kind, network, at, w, f)
    BY <2>1, TopExists
  <2>3. Tops(kind, network, at, w, top)
    BY <2>2
  <2> HIDE DEF top
  <2> QED BY <2>3 DEF Tops
<1>3. w \in 1 .. 4 /\ a \in 0 .. Values(w) - 1 /\ Values(w) \in Nat \ {0}
  <2>1. w \in 1 .. 4 /\ w \in 0 .. 4
    BY KindIs
  <2> QED BY <2>1, SignedIs, ValuesAre
<1>4. /\ top[0] = 0
      /\ \A k \in 0 .. w - 1 :
           top[k + 1] = Base * top[k] + buf[at + Significance(kind, network, w - (k + 1))]
  <2>1. \A k \in 0 .. w : top[k] = TopStep(kind, network, at, k, top)
    BY <1>2
  <2> HIDE DEF top
  <2>2. top[0] = 0
    BY <1>3, <2>1 DEF TopStep
  <2>3. ASSUME NEW k \in 0 .. w - 1
        PROVE  top[k + 1] = Base * top[k] + buf[at + Significance(kind, network, w - (k + 1))]
    <3>1. k + 1 \in 0 .. w /\ k + 1 # 0 /\ (k + 1) - 1 = k
      BY <1>3
    <3>2. top[k + 1] = TopStep(kind, network, at, k + 1, top)
      BY <2>1, <3>1
    <3> QED BY <3>1, <3>2 DEF TopStep
  <2> QED BY <2>2, <2>3
<1>5. ASSUME NEW s \in 0 .. w - 1
      PROVE  buf[at + Significance(kind, network, s)] = (a \div Values(s)) % Base
  <2> DEFINE i == Significance(kind, network, s)
  <2>1. i \in 0 .. w - 1 /\ Significance(kind, network, i) = s
    BY KindIs
  <2> HIDE DEF i
  <2>2. buf[at + i] = Bytes(kind, network, n)[i]
    BY <2>1
  <2>3. Bytes(kind, network, n)[i] = (a \div Values(Significance(kind, network, i))) % Base
    BY <2>1 DEF Bytes
  <2> QED BY <2>1, <2>2, <2>3 DEF i
<1> HIDE DEF w, a, top
<1> DEFINE S == {k \in Nat : k <= w => top[k] = a \div Values(w - k)}
<1>6. 0 \in S
  <2>1. a \div Values(w) = 0
    <3> DEFINE p == Values(w)
    <3>1. p * 0 + a = a /\ a \in 0 .. p - 1 /\ p \in Nat \ {0} /\ 0 \in Int
      BY <1>3
    <3> HIDE DEF p
    <3>2. a \div p = 0
      BY <3>1, DivUnique
    <3> QED BY <3>2 DEF p
  <2>2. w - 0 = w
    BY <1>3
  <2> QED BY <1>4, <2>1, <2>2
<1>7. ASSUME NEW k \in Nat, k < w, k \in S PROVE k + 1 \in S
  <2> DEFINE s == w - (k + 1)
  <2>1. s \in 0 .. 3 /\ s \in 0 .. 4 /\ s \in 0 .. w - 1 /\ s + 1 = w - k /\ k \in 0 .. w - 1 /\ k <= w
    BY <1>3, <1>7
  <2>2. top[k] = a \div Values(s + 1)
    BY <1>7, <2>1
  <2>3. top[k + 1] = Base * top[k] + ((a \div Values(s)) % Base)
    BY <1>4, <1>5, <2>1
  <2>4. Values(s + 1) = Base * Values(s) /\ Values(s) \in Nat \ {0} /\ Base \in Nat \ {0}
    BY <2>1, ValuesAre
  <2> HIDE DEF s
  <2>5. a \in Nat
    BY <1>3
  <2>6. (a \div Values(s)) \div Base = a \div Values(s + 1)
    BY <2>4, <2>5, DivDiv
  <2> DEFINE q == a \div Values(s)
  <2>7. q \in Int
    BY <2>4, <2>5
  <2>8. top[k + 1] = Base * (q \div Base) + (q % Base)
    BY <2>2, <2>3, <2>6
  <2> HIDE DEF q
  <2>9. q = Base * (q \div Base) + (q % Base)
    BY <2>4, <2>7, DivMod
  <2>10. top[k + 1] = a \div Values(w - (k + 1))
    BY <2>8, <2>9 DEF q, s
  <2> QED BY <2>10
<1> HIDE DEF S
<1>8. w \in S
  BY <1>3, <1>6, <1>7, InductionUpTo
<1>9. top[w] = a
  <2>1. top[w] = a \div Values(0)
    <3>1. w - w = 0 /\ w <= w
      BY <1>3
    <3> QED BY <1>8, <3>1 DEF S
  <2>2. a \in Int /\ a \div 1 = a
    BY <1>3
  <2> QED BY <2>1, <2>2, ValuesAre
<1> QED BY <1>1, <1>9, SignedIs DEF a, w

-----------------------------------------------------------------------------
(***************************************************************************)
(* BinArr: floats as numbers.                                              *)
(***************************************************************************)

\* The steps between floats, by recursion on how large they are.
SpacingStep(k, f) == IF k <= Precision THEN 1 ELSE 2 * f[(k + 1) \div 2]

Spacings(N, f) == f = [k \in 0 .. N |-> SpacingStep(k, f)]

\* The definition by recursion has a solution.
LEMMA SpacingsExist ==
  ASSUME NEW N \in Nat
  PROVE  \E f : Spacings(N, f)
<1> DEFINE S == {n \in Nat : \E f : Spacings(n, f)}
<1>0. Precision \in Nat /\ Precision >= 4
  BY BinArrAssumption
<1>1. 0 \in S
  <2> DEFINE f == [k \in 0 .. 0 |-> 1]
  <2>1. f = [k \in 0 .. 0 |-> SpacingStep(k, f)]
    BY <1>0 DEF SpacingStep
  <2> HIDE DEF f
  <2>2. Spacings(0, f)
    BY <2>1 DEF Spacings
  <2> QED BY <2>2
<1>2. ASSUME NEW n \in Nat, n \in S PROVE n + 1 \in S
  <2>1. PICK f : f = [k \in 0 .. n |-> SpacingStep(k, f)]
    BY <1>2 DEF Spacings
  <2> DEFINE g == [k \in 0 .. n + 1 |-> IF k = n + 1 THEN SpacingStep(n + 1, f) ELSE f[k]]
  <2>2. ASSUME NEW k \in 0 .. n + 1 PROVE g[k] = SpacingStep(k, g)
    <3>0. k > Precision => (k + 1) \div 2 \in 0 .. n /\ (k + 1) \div 2 \in 0 .. n + 1
                           /\ (k + 1) \div 2 # n + 1
      BY <1>0
    <3>1. CASE k = n + 1
      <4>2. k > Precision => g[(k + 1) \div 2] = f[(k + 1) \div 2]
        BY <3>0
      <4> QED BY <3>1, <4>2, <1>0 DEF SpacingStep
    <3>2. CASE k # n + 1
      <4>1. k \in 0 .. n /\ g[k] = f[k] /\ f[k] = SpacingStep(k, f)
        BY <2>1, <3>2
      <4>2. k > Precision => g[(k + 1) \div 2] = f[(k + 1) \div 2]
        BY <3>0
      <4> QED BY <4>1, <4>2, <1>0 DEF SpacingStep
    <3> QED BY <3>1, <3>2
  <2>3. g = [k \in 0 .. n + 1 |-> g[k]]
    OBVIOUS
  <2> HIDE DEF g
  <2>4. g = [k \in 0 .. n + 1 |-> SpacingStep(k, g)]
    BY <2>2, <2>3
  <2>5. Spacings(n + 1, g)
    BY <2>4 DEF Spacings
  <2> QED BY <2>5
<1> HIDE DEF S
<1>3. N \in S
  BY <1>1, <1>2, InductionUpTo
<1> QED BY <1>3 DEF S

\* A step is one, or so little that the half of it, as often as a significand has
\* values, does not come to the number.
Fits(s, k) == s \in Nat \ {0} /\ (s = 1 \/ \E h \in Nat \ {0} : s = 2 * h /\ h * Precision < k)

\* So are the steps of Spacing.
LEMMA SpacingIs ==
  ASSUME NEW N \in Nat
  PROVE  Fits(Spacing(N), N)
<1> DEFINE f == CHOOSE f : Spacings(N, f)
<1>0. Precision \in Nat /\ Precision >= 4
  BY BinArrAssumption
<1>1. Spacing(N) = f[N]
  BY DEF Spacing, Spacings, SpacingStep
<1>2. f = [k \in 0 .. N |-> SpacingStep(k, f)]
  <2>1. Spacings(N, f)
    BY SpacingsExist
  <2> HIDE DEF f
  <2> QED BY <2>1 DEF Spacings
<1> HIDE DEF f
<1> DEFINE S == {n \in Nat : \A k \in 0 .. n : k <= N => Fits(f[k], k)}
<1>3. ASSUME NEW k \in 0 .. N, \A j \in 0 .. N : j < k => Fits(f[j], j)
      PROVE  Fits(f[k], k)
  <2>1. f[k] = SpacingStep(k, f)
    BY <1>2
  <2>2. CASE k <= Precision
    BY <2>1, <2>2 DEF SpacingStep, Fits
  <2>3. CASE k > Precision
    <3> DEFINE j == (k + 1) \div 2
    <3>1. j \in 0 .. N /\ j < k /\ 2 * j <= k + 1 /\ j \in Nat \ {0}
      BY <1>0, <2>3
    <3>2. f[k] = 2 * f[j]
      BY <1>0, <2>1, <2>3 DEF SpacingStep
    <3> HIDE DEF j
    <3>3. Fits(f[j], j)
      BY <1>3, <3>1
    <3>4. CASE f[j] = 1
      <4>1. f[k] = 2 * 1 /\ 1 * Precision < k
        BY <1>0, <2>3, <3>2, <3>4
      <4> QED BY <4>1 DEF Fits
    <3>5. CASE f[j] # 1
      <4>1. PICK h \in Nat \ {0} : f[j] = 2 * h /\ h * Precision < j
        BY <3>3, <3>5 DEF Fits
      <4> DEFINE g == 2 * h
                 hp == h * Precision
      <4>2. hp \in Nat /\ g * Precision = 2 * hp
        BY <1>0
      <4> HIDE DEF hp
      <4>3. 2 * hp < k
        BY <3>1, <4>1, <4>2 DEF hp
      <4>4. g \in Nat \ {0} /\ f[k] = 2 * g /\ g * Precision < k
        BY <3>2, <4>1, <4>2, <4>3
      <4> HIDE DEF g
      <4> QED BY <4>4 DEF Fits
    <3> QED BY <3>4, <3>5
  <2> QED BY <1>0, <2>2, <2>3
<1>4. 0 \in S
  BY <1>3
<1>5. ASSUME NEW n \in Nat, n \in S PROVE n + 1 \in S
  <2> SUFFICES ASSUME NEW k \in 0 .. n + 1, k <= N PROVE Fits(f[k], k)
    OBVIOUS
  <2>1. CASE k <= n
    BY <1>5, <2>1
  <2>2. CASE k = n + 1
    <3>1. \A j \in 0 .. N : j < k => j \in 0 .. n /\ j <= N
      BY <2>2
    <3>2. \A j \in 0 .. N : j < k => Fits(f[j], j)
      BY <3>1, <1>5
    <3> QED BY <1>3, <3>2
  <2> QED BY <2>1, <2>2
<1> HIDE DEF S
<1>6. N \in S
  BY <1>4, <1>5, InductionUpTo
<1> QED BY <1>1, <1>6 DEF S

\* r is n / d with its sign, and off by at most half a step or by what single precision
\* cannot tell apart.
NearBy(r, n, d) == /\ r \in Int /\ (n >= 0 => r >= 0) /\ (n <= 0 => r <= 0)
                   /\ \/ 2 * Distance(r * d, n) <= d
                      \/ Precision * Distance(r * d, n) <= Distance(n, 0)

\* Nearest rounds as well as that,
LEMMA NearestIs ==
  ASSUME NEW n \in Nat, NEW d \in Nat \ {0}
  PROVE  Nearest(n, d) \in Nat /\ NearBy(Nearest(n, d), n, d)
<1> DEFINE k == (n + d - 1) \div d
           s == Spacing(k)
           g == s * d
           q == n \div g
           m == n % g
           up == 2 * m > g \/ (2 * m = g /\ q % 2 = 1)
           r == s * (q + (IF up THEN 1 ELSE 0))
<1>1. Nearest(n, d) = r
  BY DEF Nearest
<1>2. k \in Nat /\ (\A j \in Nat : j < k => j * d < n)
  <2>1. k \in Int /\ n + d - 1 >= d * k /\ k \in Nat
    <3>1. n + d - 1 \in Nat
      OBVIOUS
    <3> DEFINE a == n + d - 1
               c == a % d
    <3>2. k \in Int /\ c \in 0 .. d - 1 /\ a = d * k + c
      BY <3>1, DivMod
    <3>3. a >= d * k /\ d * k > -d
      <4> HIDE DEF c, k
      <4>1. d * k \in Int
        BY <3>2
      <4> QED BY <3>1, <3>2, <4>1
    <3>4. k >= 0
      <4> HIDE DEF k
      <4>1. k <= -1 => d * k <= -d
        BY <3>2
      <4> QED BY <3>2, <3>3, <4>1
    <3> QED BY <3>2, <3>3, <3>4
  <2> HIDE DEF k
  <2>2. ASSUME NEW j \in Nat, j < k PROVE j * d < n
    <3>1. j + 1 <= k
      BY <2>1, <2>2
    <3>2. d * (j + 1) <= d * k
      BY <3>1, <2>1
    <3>3. d * (j + 1) = j * d + d /\ j * d \in Int /\ d * k \in Int
      BY <2>1
    <3> QED BY <2>1, <3>2, <3>3
  <2> QED BY <2>1, <2>2
<1> HIDE DEF k
<1>3. Fits(s, k)
  BY <1>2, SpacingIs
<1> HIDE DEF s
<1>4. s \in Nat \ {0} /\ Precision \in Nat
  BY <1>3, BinArrAssumption DEF Fits
<1>5. g \in Nat \ {0}
  BY <1>4
<1>6. g = d \/ (\E h \in Nat \ {0} : g = 2 * (h * d) /\ Precision * (h * d) < n)
  <2>1. CASE s = 1
    BY <2>1
  <2>2. CASE s # 1
    <3>1. PICK h \in Nat \ {0} : s = 2 * h /\ h * Precision < k
      BY <1>3, <2>2 DEF Fits
    <3>2. h * Precision \in Nat
      BY <1>4
    <3>3. (h * Precision) * d < n
      BY <1>2, <3>1, <3>2
    <3>4. (h * Precision) * d = Precision * (h * d) /\ g = 2 * (h * d)
      BY <1>4, <3>1
    <3> QED BY <3>3, <3>4
  <2> QED BY <2>1, <2>2
<1> HIDE DEF g
<1>7. q \in Int /\ m \in 0 .. g - 1 /\ n = g * q + m
  BY <1>5, DivMod
<1> HIDE DEF q, m
<1>8. q \in Nat
  <2>1. q <= -1 => g * q <= -g
    BY <1>5, <1>7
  <2>2. g * q \in Int
    BY <1>5, <1>7
  <2> QED BY <1>5, <1>7, <2>1, <2>2
<1> DEFINE e == q + (IF up THEN 1 ELSE 0)
<1>9. e \in Nat /\ r \in Nat /\ r * d = g * e
  <2>1. e \in Nat
    BY <1>8
  <2> HIDE DEF e
  <2>2. s * e \in Nat /\ (s * e) * d = (s * d) * e
    BY <1>4, <2>1
  <2> QED BY <2>1, <2>2 DEF g, e
<1>13. n = 0 => r = 0
  <2> SUFFICES ASSUME n = 0 PROVE r = 0
    OBVIOUS
  <2>1. q >= 1 => g * q >= g
    BY <1>5, <1>8
  <2>2. g * q \in Int
    BY <1>5, <1>8
  <2>3. q = 0 /\ m = 0
    BY <1>5, <1>7, <1>8, <2>1, <2>2
  <2>4. ~up
    BY <1>5, <2>3
  <2> QED BY <1>4, <2>3, <2>4
<1>10. 2 * Distance(r * d, n) <= g
  <2> DEFINE gq == g * q
  <2>1. gq \in Int /\ n = gq + m
    BY <1>5, <1>7
  <2>2. CASE up
    <3>1. g * (q + 1) = gq + g
      BY <1>5, <1>7
    <3>2. r * d = gq + g /\ 2 * m >= g
      BY <1>5, <1>7, <1>9, <2>2, <3>1
    <3> HIDE DEF gq, r
    <3> QED BY <1>5, <1>7, <2>1, <3>2 DEF Distance
  <2>3. CASE ~up
    <3>1. e = q /\ r * d = gq
      BY <1>8, <1>9, <2>3
    <3>2. 2 * m <= g
      BY <1>5, <1>7, <2>3
    <3> HIDE DEF gq, r
    <3> QED BY <1>5, <1>7, <2>1, <3>1, <3>2 DEF Distance
  <2> QED BY <2>2, <2>3
<1> HIDE DEF r, e
<1>11. CASE g = d
  BY <1>1, <1>9, <1>10, <1>11, <1>13 DEF NearBy
<1>12. CASE g # d
  <2>1. PICK h \in Nat \ {0} : g = 2 * (h * d) /\ Precision * (h * d) < n
    BY <1>6, <1>12
  <2> DEFINE b == h * d
             x == Distance(r * d, n)
  <2>2. b \in Nat /\ r * d \in Int
    BY <1>9
  <2>3. x \in Nat
    BY <2>2 DEF Distance
  <2>4. x <= b
    <3> HIDE DEF b, x
    <3>1. 2 * x <= 2 * b
      BY <1>10, <2>1 DEF b, x
    <3> QED BY <2>2, <2>3, <3>1
  <2> HIDE DEF b, x
  <2>5. Precision * x <= Precision * b
    BY <1>4, <2>2, <2>3, <2>4
  <2>6. Precision * x <= n
    <3>1. Precision * x \in Int /\ Precision * b \in Int
      BY <1>4, <2>2, <2>3
    <3> QED BY <2>1, <2>5, <3>1 DEF b
  <2>7. Distance(n, 0) = n
    BY DEF Distance
  <2> QED BY <1>1, <1>9, <1>13, <2>6, <2>7 DEF NearBy, x
<1> QED BY <1>11, <1>12

\* and Rounded, for any sign.
LEMMA RoundedIs ==
  ASSUME NEW n \in Int, NEW d \in Nat \ {0}
  PROVE  NearBy(Rounded(n, d), n, d)
<1>1. CASE n >= 0
  BY <1>1, NearestIs DEF Rounded
<1>2. CASE n < 0
  <2> DEFINE r == Nearest(-n, d)
             a == r * d
  <2>1. -n \in Nat
    BY <1>2
  <2>2. r \in Nat /\ NearBy(r, -n, d)
    BY <2>1, NearestIs
  <2>3. Rounded(n, d) = -r
    BY <1>2 DEF Rounded
  <2> HIDE DEF r
  <2>4. a \in Int /\ (-r) * d = -a
    BY <2>2
  <2>5. Distance(-a, n) = Distance(a, -n) /\ Distance(n, 0) = Distance(-n, 0)
    <3> HIDE DEF a
    <3> QED BY <2>4 DEF Distance
  <2>6. 2 * Distance(a, -n) <= d \/ Precision * Distance(a, -n) <= Distance(-n, 0)
    BY <2>2 DEF NearBy
  <2> QED BY <1>2, <2>2, <2>3, <2>4, <2>5, <2>6 DEF NearBy
<1> QED BY <1>1, <1>2

\* Of an integer, rounding loses only what single precision cannot tell apart.
LEMMA RoundedToFloat ==
  ASSUME NEW n \in Int
  PROVE  LET r == Rounded(n, 1) IN
         /\ r \in Int /\ (n >= 0 => r >= 0) /\ (n <= 0 => r <= 0)
         /\ Precision * Distance(r, n) <= Distance(n, 0)
         /\ 4 * Distance(r, n) <= Distance(n, 0)
<1> DEFINE r == Rounded(n, 1)
           x == Distance(r, n)
<1>1. Precision \in Nat /\ Precision >= 4
  BY BinArrAssumption
<1>2. NearBy(r, n, 1)
  BY RoundedIs
<1> HIDE DEF r
<1>3. r \in Int /\ r * 1 = r /\ (n >= 0 => r >= 0) /\ (n <= 0 => r <= 0)
  BY <1>2 DEF NearBy
<1>4. x \in Nat /\ Distance(n, 0) \in Nat
  BY <1>3 DEF Distance
<1>5. 2 * x <= 1 \/ Precision * x <= Distance(n, 0)
  BY <1>2, <1>3 DEF NearBy
<1> HIDE DEF x
<1>6. Precision * x <= Distance(n, 0)
  <2>1. CASE 2 * x <= 1
    <3>1. x = 0
      BY <1>4, <2>1
    <3> QED BY <1>1, <1>4, <3>1
  <2> QED BY <1>5, <2>1
<1>7. 4 * x <= Precision * x
  BY <1>1, <1>4
<1>8. 4 * x <= Distance(n, 0)
  <2>1. Precision * x \in Int
    BY <1>1, <1>4
  <2> QED BY <1>4, <1>6, <1>7, <2>1
<1> QED BY <1>3, <1>6, <1>8 DEF r, x

\* The conversion of a float to an int32_t.
Cut(p) == IF p >= 0 THEN p \div FloatUnit ELSE -((-p) \div FloatUnit)

\* It goes towards zero and loses less than one.
LEMMA CutIs ==
  ASSUME NEW p \in Int
  PROVE  /\ Cut(p) \in Int
         /\ Distance(Cut(p) * FloatUnit, p) < FloatUnit
         /\ (p >= 0 => Cut(p) >= 0 /\ Cut(p) * FloatUnit <= p)
         /\ (p <= 0 => Cut(p) <= 0 /\ Cut(p) * FloatUnit >= p)
<1>1. FloatUnit \in Nat \ {0}
  BY BinArrAssumption
<1>2. ASSUME NEW v \in Nat
      PROVE  LET q == v \div FloatUnit IN
             q \in Nat /\ q * FloatUnit <= v /\ v - q * FloatUnit < FloatUnit
  <2> DEFINE q == v \div FloatUnit
             m == v % FloatUnit
  <2>1. q \in Int /\ m \in 0 .. FloatUnit - 1 /\ v = FloatUnit * q + m
    BY <1>1, DivMod
  <2> HIDE DEF q, m
  <2>2. q * FloatUnit = FloatUnit * q /\ FloatUnit * q \in Int
    BY <1>1, <2>1
  <2>3. q <= -1 => FloatUnit * q <= -FloatUnit
    BY <1>1, <2>1
  <2> QED BY <1>1, <2>1, <2>2, <2>3 DEF q
<1>3. CASE p > 0
  <2> DEFINE q == p \div FloatUnit
             a == q * FloatUnit
  <2>1. q \in Nat /\ a <= p /\ p - a < FloatUnit /\ Cut(p) = q
    BY <1>2, <1>3 DEF Cut
  <2> HIDE DEF q
  <2>2. a \in Int
    BY <1>1, <2>1
  <2> QED BY <1>3, <2>1, <2>2 DEF Distance
<1>4. CASE p < 0
  <2> DEFINE q == (-p) \div FloatUnit
             a == q * FloatUnit
  <2>1. q \in Nat /\ a <= -p /\ -p - a < FloatUnit /\ Cut(p) = -q
    BY <1>2, <1>4 DEF Cut
  <2> HIDE DEF q
  <2>2. a \in Int /\ (-q) * FloatUnit = -a
    BY <1>1, <2>1
  <2>3. Cut(p) * FloatUnit = -a
    BY <2>1, <2>2
  <2> HIDE DEF a
  <2> QED BY <1>4, <2>1, <2>2, <2>3 DEF Distance, a
<1>5. CASE p = 0
  <2>1. Cut(p) = 0
    BY <1>1, <1>5, <1>2 DEF Cut
  <2> QED BY <1>1, <1>5, <2>1 DEF Distance
<1> QED BY <1>3, <1>4, <1>5

\* A float is stored as an int32_t.
LEMMA FloatToIntIs ==
  ASSUME NEW x \in Int
  PROVE  LET product == Rounded(x * FloatScale, 1) IN
         /\ x * FloatScale \in Int /\ product \in Int
         /\ FloatToInt(x) = Cut(product) /\ FloatToInt(x) \in Int
<1>1. FloatScale \in Nat
  BY BinArrAssumption
<1>2. x * FloatScale \in Int
  BY <1>1
<1>3. Rounded(x * FloatScale, 1) \in Int
  BY <1>2, RoundedToFloat
<1>4. FloatToInt(x) = Cut(Rounded(x * FloatScale, 1))
  BY DEF FloatToInt, Cut
<1> QED BY <1>2, <1>3, <1>4, CutIs

\* The way to a float and back: three roundings.
LEMMA IntToFloatIs ==
  ASSUME NEW n \in Int
  PROVE  LET a == n * FloatUnit
             b == Rounded(a, 1)
             c == IntToFloat(n) * FloatScale
         IN /\ a \in Int /\ b \in Int /\ IntToFloat(n) \in Int /\ c \in Int
            /\ (a >= 0 => b >= 0) /\ (a <= 0 => b <= 0)
            /\ (a >= 0 => c >= 0) /\ (a <= 0 => c <= 0)
            /\ Precision * Distance(b, a) <= Distance(a, 0)
            /\ 4 * Distance(b, a) <= Distance(a, 0)
            /\ \/ 2 * Distance(c, b) <= FloatScale
               \/ Precision * Distance(c, b) <= Distance(b, 0)
<1> DEFINE a == n * FloatUnit
           b == Rounded(a, 1)
           r == Rounded(b, FloatScale)
           c == r * FloatScale
<1>1. FloatScale \in Nat \ {0} /\ FloatUnit \in Nat \ {0} /\ IntToFloat(n) = r
  BY BinArrAssumption DEF IntToFloat
<1>2. a \in Int
  BY <1>1
<1> HIDE DEF a
<1>3. /\ b \in Int /\ (a >= 0 => b >= 0) /\ (a <= 0 => b <= 0)
      /\ Precision * Distance(b, a) <= Distance(a, 0) /\ 4 * Distance(b, a) <= Distance(a, 0)
  BY <1>2, RoundedToFloat
<1> HIDE DEF b
<1>4. NearBy(r, b, FloatScale)
  BY <1>1, <1>3, RoundedIs
<1> HIDE DEF r
<1>5. /\ r \in Int /\ (b >= 0 => r >= 0) /\ (b <= 0 => r <= 0)
      /\ 2 * Distance(c, b) <= FloatScale \/ Precision * Distance(c, b) <= Distance(b, 0)
  BY <1>4 DEF NearBy
<1>6. c \in Int /\ (r >= 0 => c >= 0) /\ (r <= 0 => c <= 0)
  BY <1>1, <1>5
<1> HIDE DEF c
<1> QED BY <1>1, <1>2, <1>3, <1>5, <1>6 DEF a, b, c

\* Distances add up, also when they are counted in parts of a unit.
LEMMA Apart ==
  ASSUME NEW p \in Nat, NEW x \in Int, NEW y \in Int, NEW z \in Int
  PROVE  /\ Distance(x, y) \in Nat /\ Distance(x, y) = Distance(y, x)
         /\ p * Distance(x, y) \in Nat
         /\ p * Distance(x, z) <= p * Distance(x, y) + p * Distance(y, z)
         /\ Distance(x, 0) <= Distance(y, 0) + Distance(x, y)
<1> DEFINE a == Distance(x, y)
           b == Distance(y, z)
           c == Distance(x, z)
<1>1. a \in Nat /\ b \in Nat /\ c \in Nat /\ c <= a + b
  BY DEF Distance
<1>2. Distance(x, y) = Distance(y, x) /\ Distance(x, 0) <= Distance(y, 0) + Distance(x, y)
  BY DEF Distance
<1> HIDE DEF a, b, c
<1>3. p * c <= p * (a + b) /\ p * (a + b) = p * a + p * b /\ p * a \in Nat
  BY <1>1
<1> QED BY <1>1, <1>2, <1>3 DEF a, b, c

\* What comes back of a float.
LEMMA FloatReadsBack ==
  ASSUME NEW x \in Int
  PROVE  LET written == x * FloatScale
             read == IntToFloat(FloatToInt(x)) * FloatScale
         IN Distance(read, written) * Precision
              < (FloatUnit + FloatScale) * Precision + 4 * Distance(written, 0)
<1> DEFINE w == x * FloatScale
           y == Rounded(w, 1)
           n == FloatToInt(x)
           a == n * FloatUnit
           b == Rounded(a, 1)
           c == IntToFloat(n) * FloatScale
           P == Precision
           U == FloatUnit
           S == FloatScale
<1>1. P \in Nat \ {0} /\ P >= 4 /\ U \in Nat \ {0} /\ S \in Nat \ {0}
  BY BinArrAssumption
<1>2. w \in Int /\ y \in Int /\ n \in Int /\ n = Cut(y)
  BY FloatToIntIs
<1> HIDE DEF w, n
<1>3. P * Distance(y, w) <= Distance(w, 0) /\ 4 * Distance(y, w) <= Distance(w, 0)
  BY <1>2, RoundedToFloat
<1> HIDE DEF y
<1>4. /\ Distance(a, y) < U
      /\ (y >= 0 => a >= 0 /\ a <= y) /\ (y <= 0 => a <= 0 /\ a >= y)
  <2>1. /\ Distance(a, y) < U
        /\ (y >= 0 => n >= 0 /\ a <= y) /\ (y <= 0 => n <= 0 /\ a >= y)
    BY <1>2, CutIs
  <2>2. (n >= 0 => a >= 0) /\ (n <= 0 => a <= 0)
    BY <1>1, <1>2
  <2> QED BY <2>1, <2>2
<1>5. /\ a \in Int /\ b \in Int /\ c \in Int
      /\ P * Distance(b, a) <= Distance(a, 0) /\ 4 * Distance(b, a) <= Distance(a, 0)
      /\ 2 * Distance(c, b) <= S \/ P * Distance(c, b) <= Distance(b, 0)
  BY <1>2, IntToFloatIs
<1> HIDE DEF a, b, c
<1>6. Distance(a, 0) <= Distance(y, 0)
  BY <1>2, <1>4, <1>5 DEF Distance
<1> DEFINE cb == P * Distance(c, b)
           ba == P * Distance(b, a)
           ay == P * Distance(a, y)
           yw == P * Distance(y, w)
           cw == P * Distance(c, w)
           ps == P * S
           pu == P * U
<1>7. cw <= cb + ba + ay + yw /\ cb \in Nat /\ ba \in Nat /\ ay \in Nat /\ yw \in Nat /\ cw \in Nat
  <2>1. /\ P * Distance(c, w) <= P * Distance(c, b) + P * Distance(b, w)
        /\ P * Distance(b, w) <= P * Distance(b, a) + P * Distance(a, w)
        /\ P * Distance(a, w) <= P * Distance(a, y) + P * Distance(y, w)
    BY <1>1, <1>2, <1>5, Apart
  <2>2. /\ cb \in Nat /\ ba \in Nat /\ ay \in Nat /\ yw \in Nat /\ cw \in Nat
        /\ P * Distance(b, w) \in Nat /\ P * Distance(a, w) \in Nat
    BY <1>1, <1>2, <1>5, Apart
  <2> DEFINE bw == P * Distance(b, w)
             aw == P * Distance(a, w)
  <2>3. cw <= cb + bw /\ bw <= ba + aw /\ aw <= ay + yw /\ bw \in Nat /\ aw \in Nat
    BY <2>1, <2>2
  <2> HIDE DEF cb, ba, ay, yw, cw, bw, aw
  <2> QED BY <2>2, <2>3
<1>8. ay < pu /\ pu \in Nat /\ ps \in Nat
  <2> DEFINE e == Distance(a, y)
  <2>1. e \in Nat /\ e <= U - 1
    BY <1>1, <1>2, <1>4, <1>5 DEF Distance
  <2> HIDE DEF e
  <2>2. P * e <= P * (U - 1) /\ P * (U - 1) = P * U - P /\ P * U \in Nat /\ P * S \in Nat
        /\ P * e \in Nat
    BY <1>1, <2>1
  <2> QED BY <1>1, <2>2 DEF e
<1>9. cb <= ps + Distance(b, 0)
  <2> DEFINE e == Distance(c, b)
             z == Distance(b, 0)
  <2>1. e \in Nat /\ z \in Nat
    BY <1>5 DEF Distance
  <2> HIDE DEF e, z
  <2>2. CASE 2 * e <= S
    <3>1. e <= S
      BY <1>1, <2>1, <2>2
    <3>2. P * e <= P * S
      BY <1>1, <2>1, <3>1
    <3> QED BY <1>1, <2>1, <3>2, <1>8 DEF e, z
  <2>3. CASE P * e <= z
    BY <1>1, <1>8, <2>1, <2>3 DEF e, z
  <2> QED BY <1>5, <2>2, <2>3 DEF e, z
<1>10. /\ Distance(y, 0) <= Distance(w, 0) + Distance(y, w)
       /\ Distance(b, 0) <= Distance(a, 0) + Distance(b, a)
       /\ {Distance(y, 0), Distance(w, 0), Distance(y, w), Distance(b, 0), Distance(a, 0),
           Distance(b, a)} \subseteq Nat
  <2>1. \A k, l \in Int : Distance(k, l) \in Nat
    BY DEF Distance
  <2>2. /\ Distance(y, 0) <= Distance(w, 0) + Distance(y, w)
        /\ Distance(b, 0) <= Distance(a, 0) + Distance(b, a)
    BY <1>1, <1>2, <1>5, Apart
  <2> QED BY <1>2, <1>5, <2>1, <2>2
<1> DEFINE dw == Distance(w, 0)
<1>11. ba + yw + Distance(b, 0) <= 4 * dw /\ dw \in Nat
  <2> DEFINE dy == Distance(y, 0)
             da == Distance(a, 0)
             db == Distance(b, 0)
             eyw == Distance(y, w)
             eba == Distance(b, a)
  <2>1. /\ dy <= dw + eyw /\ db <= da + eba /\ da <= dy /\ 4 * eyw <= dw /\ 4 * eba <= da
        /\ ba <= da /\ yw <= dw
        /\ {dy, dw, eyw, db, da, eba} \subseteq Nat
    BY <1>3, <1>5, <1>6, <1>10
  <2>2. ba \in Nat /\ yw \in Nat
    BY <1>7
  <2> HIDE DEF dy, da, db, dw, eyw, eba, ba, yw
  <2>3. ba + yw + db <= 4 * dw
    BY <2>1, <2>2
  <2> QED BY <2>1, <2>3 DEF db
<1>12. cw < ps + pu + 4 * dw
  <2> DEFINE db == Distance(b, 0)
  <2>1. db \in Nat /\ cb <= ps + db /\ ba + yw + db <= 4 * dw
    BY <1>9, <1>10, <1>11
  <2> HIDE DEF cb, ba, ay, yw, cw, ps, pu, dw, db
  <2> QED BY <1>7, <1>8, <1>11, <2>1
<1>13. cw = Distance(c, w) * P /\ ps + pu = (U + S) * P
  <2>1. Distance(c, w) \in Nat
    BY <1>2, <1>5 DEF Distance
  <2> QED BY <1>1, <2>1
<1> QED BY <1>12, <1>13 DEF w, c, n

\* What becomes of a number that is read as a float and sent on.
LEMMA SentOnIs ==
  ASSUME NEW n \in Int, 4 * Distance(n, 0) <= Precision
  PROVE  LET m == FloatToInt(IntToFloat(n)) IN
         Distance(m, n) <= 1 /\ Distance(m, 0) <= Distance(n, 0)
<1> DEFINE a == n * FloatUnit
           b == Rounded(a, 1)
           x == IntToFloat(n)
           c == x * FloatScale
           y == Rounded(c, 1)
           m == FloatToInt(x)
           t == m * FloatUnit
           P == Precision
           U == FloatUnit
           S == FloatScale
<1>1. P \in Nat \ {0} /\ P >= 4 /\ U \in Nat \ {0} /\ S \in Nat \ {0} /\ 4 * S <= U
  BY BinArrAssumption
<1>2. /\ a \in Int /\ b \in Int /\ x \in Int /\ c \in Int
      /\ (a >= 0 => b >= 0) /\ (a <= 0 => b <= 0)
      /\ (a >= 0 => c >= 0) /\ (a <= 0 => c <= 0)
      /\ P * Distance(b, a) <= Distance(a, 0) /\ 4 * Distance(b, a) <= Distance(a, 0)
      /\ 2 * Distance(c, b) <= S \/ P * Distance(c, b) <= Distance(b, 0)
  BY IntToFloatIs
<1> HIDE DEF b, x
<1>3. /\ y \in Int /\ (c >= 0 => y >= 0) /\ (c <= 0 => y <= 0)
      /\ P * Distance(y, c) <= Distance(c, 0) /\ 4 * Distance(y, c) <= Distance(c, 0)
  BY <1>2, RoundedToFloat
<1>4. m = Cut(y) /\ m \in Int
  BY <1>2, FloatToIntIs
<1> HIDE DEF c, y, m
<1>5. /\ t \in Int /\ Distance(t, y) < U
      /\ (y >= 0 => m >= 0 /\ t <= y) /\ (y <= 0 => m <= 0 /\ t >= y)
  BY <1>1, <1>3, <1>4, CutIs
<1>6. (n >= 0 => a >= 0) /\ (n <= 0 => a <= 0) /\ Distance(a, 0) = U * Distance(n, 0)
  BY <1>1 DEF Distance
<1>7. 4 * Distance(a, 0) <= P * U
  <2> DEFINE d == Distance(n, 0)
  <2>1. d \in Nat /\ 4 * d <= P
    BY DEF Distance
  <2> HIDE DEF d
  <2>2. U * (4 * d) <= U * P /\ U * (4 * d) = 4 * (U * d) /\ U * P = P * U
    BY <1>1, <2>1
  <2> QED BY <1>6, <2>2 DEF d
<1> DEFINE da == Distance(a, 0)
           db == Distance(b, 0)
           dc == Distance(c, 0)
           eba == Distance(b, a)
           ecb == Distance(c, b)
           eyc == Distance(y, c)
           eya == Distance(y, a)
<1>8. /\ {da, db, dc, eba, ecb, eyc, eya} \subseteq Nat
      /\ db <= da + eba /\ dc <= db + ecb /\ eya <= eyc + ecb + eba
  <2>0. a \in Int
    BY <1>2
  <2> HIDE DEF a
  <2> QED BY <1>2, <1>3, <2>0 DEF Distance
<1>9. eya < U
  <2> DEFINE pu == P * U
             pba == P * eba
             pcb == P * ecb
             pyc == P * eyc
             pya == P * eya
             ps == P * S
  <2>1. pba <= da /\ pyc <= dc /\ 4 * da <= pu /\ 4 * eba <= da /\ 4 * eyc <= dc
        /\ (2 * ecb <= S \/ pcb <= db)
    BY <1>2, <1>3, <1>7
  <2>2. {pu, pba, pcb, pyc, pya, ps} \subseteq Nat /\ pya <= pyc + pcb + pba /\ 4 * ps <= pu
    <3> HIDE DEF eya, eyc, ecb, eba
    <3>1. P * eya <= P * (eyc + ecb + eba) /\ P * (eyc + ecb + eba) = pyc + pcb + pba
      BY <1>1, <1>8
    <3>2. P * (4 * S) <= P * U /\ P * (4 * S) = 4 * (P * S)
      BY <1>1
    <3>3. {pu, pba, pcb, pyc, pya, ps} \subseteq Nat
      BY <1>1, <1>8
    <3> QED BY <3>1, <3>2, <3>3
  <2>3. /\ 4 * U <= pu
        /\ (2 * pcb <= ps /\ 2 * ecb <= S) \/ (pcb <= db /\ 4 * ecb <= db)
    <3> HIDE DEF ecb, db
    <3>1. 4 * U <= P * U /\ 4 * ecb <= P * ecb /\ P * ecb \in Nat
      BY <1>1, <1>8
    <3>2. CASE 2 * ecb <= S
      <4>1. P * (2 * ecb) <= P * S /\ P * (2 * ecb) = 2 * (P * ecb)
        BY <1>1, <1>8, <3>2
      <4> QED BY <3>1, <3>2, <4>1
    <3>3. CASE pcb <= db
      BY <1>8, <3>1, <3>3
    <3> QED BY <2>1, <3>1, <3>2, <3>3
  <2>4. pya < pu
    <3>1. /\ db <= da + eba /\ dc <= db + ecb
          /\ {da, db, dc, eba, ecb, eyc, eya} \subseteq Nat
      BY <1>8
    <3> HIDE DEF da, db, dc, eba, ecb, eyc, eya, pu, pba, pcb, pyc, pya, ps
    <3>2. CASE 2 * pcb <= ps /\ 2 * ecb <= S
      BY <1>1, <2>1, <2>2, <2>3, <3>1, <3>2
    <3>3. CASE pcb <= db /\ 4 * ecb <= db
      BY <1>1, <2>1, <2>2, <2>3, <3>1, <3>3
    <3> QED BY <2>3, <3>2, <3>3
  <2>5. pya < pu => eya < U
    <3> HIDE DEF eya
    <3>1. eya >= U => P * eya >= P * U
      BY <1>1, <1>8
    <3> QED BY <1>1, <1>8, <2>2, <3>1
  <2> QED BY <2>4, <2>5
<1>10. (m - n) * U = t - a /\ m - n \in Int /\ a \in Int
  BY <1>1, <1>2, <1>4
<1> DEFINE k == m - n
<1>11. k \in {-1, 0, 1} /\ (n >= 0 => k <= 0) /\ (n <= 0 => k >= 0)
  <2>1. /\ y - a < U /\ a - y < U /\ t - y < U /\ y - t < U
        /\ (n >= 0 => t <= y) /\ (n <= 0 => t >= y)
    <3> HIDE DEF a, t
    <3>1. Distance(y, a) < U /\ Distance(t, y) < U /\ {t, y, a} \subseteq Int
      BY <1>3, <1>5, <1>9, <1>10
    <3>2. y - a < U /\ a - y < U /\ t - y < U /\ y - t < U
      BY <1>1, <3>1 DEF Distance
    <3>3. (n >= 0 => t <= y) /\ (n <= 0 => t >= y)
      BY <1>2, <1>3, <1>5, <1>6
    <3> QED BY <3>2, <3>3
  <2>2. /\ t - a < 2 * U /\ t - a > -(2 * U)
        /\ (n >= 0 => t - a < U) /\ (n <= 0 => t - a > -U)
    <3> HIDE DEF a, t
    <3> QED BY <1>1, <1>3, <1>5, <1>10, <2>1
  <2>3. k >= 1 => k * U >= U
    BY <1>1, <1>10
  <2>4. k >= 2 => k * U >= 2 * U
    BY <1>1, <1>10
  <2>5. k <= -1 => k * U <= -U
    BY <1>1, <1>10
  <2>6. k <= -2 => k * U <= -(2 * U)
    BY <1>1, <1>10
  <2> DEFINE ku == k * U
  <2>7. ku \in Int /\ ku = t - a
    BY <1>1, <1>10
  <2>8. /\ ku < 2 * U /\ ku > -(2 * U) /\ (n >= 0 => ku < U) /\ (n <= 0 => ku > -U)
    BY <2>2, <2>7
  <2> HIDE DEF k, ku
  <2> QED BY <1>1, <1>10, <2>3, <2>4, <2>5, <2>6, <2>7, <2>8 DEF k, ku
<1>12. (n >= 0 => m >= 0) /\ (n <= 0 => m <= 0)
  BY <1>2, <1>3, <1>5, <1>6
<1> QED BY <1>4, <1>11, <1>12 DEF Distance, m, x

-----------------------------------------------------------------------------
(***************************************************************************)
(* BinArr: every number that is still whole has its bytes in the array.    *)
(***************************************************************************)

IsItem(item) == /\ item \in [kind : Kind, network : BOOLEAN, v : Int]
                /\ Integer(item.kind, item.v) \in IntegersOf(item.kind)

\* The bytes of an item lie at this place.
Lies(item, at, bytes) ==
  /\ at + Width(item.kind) <= Capacity
  /\ \A i \in 0 .. Width(item.kind) - 1 :
       bytes[at + i] = Bytes(item.kind, item.network, Integer(item.kind, item.v))[i]

ArrayInv ==
  /\ ArrayTypeOK
  /\ \A at \in DOMAIN items : IsItem(items[at]) /\ Lies(items[at], at, buf)

\* Bytes are bytes.
LEMMA BytesType ==
  ASSUME NEW kind \in Kind, NEW network \in BOOLEAN, NEW n \in IntegersOf(kind),
         NEW i \in 0 .. Width(kind) - 1
  PROVE  Bytes(kind, network, n)[i] \in 0 .. Base - 1
<1> DEFINE p == Values(Width(kind))
           s == Significance(kind, network, i)
           a == n % p
<1>1. Bytes(kind, network, n)[i] = (a \div Values(s)) % Base
  BY DEF Bytes
<1>2. s \in 0 .. Width(kind) - 1 /\ Width(kind) \in 1 .. 4
  BY KindIs
<1>3. s \in 0 .. 4
  BY <1>2
<1>4. Values(s) \in Nat \ {0} /\ Base \in Nat \ {0}
  BY <1>3, ValuesAre
<1>5. a \in Int
  BY SignedIs
<1> HIDE DEF a, s
<1> DEFINE q == a \div Values(s)
<1>6. q \in Int
  BY <1>4, <1>5
<1> HIDE DEF q
<1>7. q % Base \in 0 .. Base - 1
  BY <1>4, <1>6
<1> QED BY <1>1, <1>7 DEF q

\* A write leaves the items it does not touch where they are, and adds its own.
LEMMA PutPreserves ==
  ASSUME ArrayInv, NEW kind \in Kind, NEW network \in BOOLEAN, NEW v \in Data(kind),
         Put(kind, network, v), size' \in {size, index + Width(kind)}
  PROVE  ArrayInv'
<1> DEFINE w == Width(kind)
           n == Integer(kind, v)
           bytes == Bytes(kind, network, n)
           item == [kind |-> kind, network |-> network, v |-> v]
           kept == KeptItems(w)
<1>1. /\ w \in 1 .. 4 /\ n \in IntegersOf(kind) /\ v \in Int
      /\ Base \in Nat \ {0} /\ Capacity \in Nat \ {0}
  BY KindIs, BinArrAssumption DEF Data
<1>2. /\ buf \in [0 .. Capacity - 1 -> {Garbage} \cup 0 .. Base - 1]
      /\ size \in 0 .. Capacity /\ index \in 0 .. Capacity
      /\ DOMAIN items \subseteq 0 .. Capacity - 1
      /\ \A i \in 0 .. Capacity - 1 : i < size \/ i < index => buf[i] # Garbage
  BY DEF ArrayInv, ArrayTypeOK
<1>3. /\ index + w <= Capacity /\ index' = index + w
      /\ buf' = [i \in DOMAIN buf |-> IF i \in index .. index + w - 1
                                      THEN bytes[i - index] ELSE buf[i]]
      /\ items' = [at \in DOMAIN kept \cup {index} |-> IF at = index THEN item ELSE kept[at]]
  BY DEF Put
<1>4. \A i \in 0 .. w - 1 : bytes[i] \in 0 .. Base - 1
  BY <1>1, BytesType
<1>5. /\ DOMAIN kept = {at \in DOMAIN items : at >= index + w \/ at + Width(items[at].kind) <= index}
      /\ \A at \in DOMAIN kept : kept[at] = items[at]
  BY DEF KeptItems, Restrict
<1>6. ASSUME NEW at \in DOMAIN items
      PROVE  IsItem(items[at]) /\ Lies(items[at], at, buf)
  BY DEF ArrayInv
<1> HIDE DEF w, n, bytes, kept
<1>7. /\ DOMAIN buf' = 0 .. Capacity - 1
      /\ \A i \in 0 .. Capacity - 1 :
           buf'[i] = IF i \in index .. index + w - 1 THEN bytes[i - index] ELSE buf[i]
  BY <1>2, <1>3
<1>8. ASSUME NEW i \in 0 .. Capacity - 1
      PROVE  /\ buf'[i] \in {Garbage} \cup 0 .. Base - 1
             /\ i < size' \/ i < index' => buf'[i] # Garbage
  <2>1. CASE i \in index .. index + w - 1
    <3>1. i - index \in 0 .. w - 1
      BY <1>1, <1>2, <2>1
    <3>2. buf'[i] \in 0 .. Base - 1
      BY <1>4, <1>7, <2>1, <3>1
    <3> QED BY <3>2 DEF Garbage
  <2>2. CASE i \notin index .. index + w - 1
    <3>1. buf'[i] = buf[i]
      BY <1>7, <2>2
    <3>2. i < size' \/ i < index' => i < size \/ i < index
      BY <1>1, <1>2, <1>3, <2>2 DEF w
    <3> QED BY <1>2, <3>1, <3>2
  <2> QED BY <2>1, <2>2
<1>9. buf' \in [0 .. Capacity - 1 -> {Garbage} \cup 0 .. Base - 1]
  <2>1. buf' = [i \in 0 .. Capacity - 1 |-> buf'[i]]
    BY <1>2, <1>3
  <2> QED BY <1>8, <2>1
<1>10. size' \in 0 .. Capacity /\ index' \in 0 .. Capacity
  BY <1>1, <1>2, <1>3 DEF w
<1>11. DOMAIN items' \subseteq 0 .. Capacity - 1
  BY <1>1, <1>2, <1>3, <1>5
<1>12. IsItem(item) /\ Lies(item, index, buf')
  <2>1. IsItem(item)
    BY <1>1 DEF IsItem, n
  <2>2. ASSUME NEW i \in 0 .. w - 1 PROVE buf'[index + i] = bytes[i]
    <3>1. index + i \in 0 .. Capacity - 1 /\ index + i \in index .. index + w - 1
      BY <1>1, <1>2, <1>3
    <3>2. (index + i) - index = i
      BY <1>2
    <3> QED BY <1>7, <3>1, <3>2
  <2> QED BY <1>3, <2>1, <2>2 DEF Lies, w, n, bytes
<1>13. ASSUME NEW at \in DOMAIN kept
       PROVE  IsItem(items[at]) /\ Lies(items[at], at, buf')
  <2> DEFINE old == items[at]
             ow == Width(old.kind)
  <2>1. /\ at \in DOMAIN items /\ (at >= index + w \/ at + ow <= index)
        /\ IsItem(old) /\ Lies(old, at, buf) /\ at \in 0 .. Capacity - 1
    BY <1>2, <1>5, <1>6
  <2>2. ow \in 1 .. 4
    BY <2>1, KindIs DEF IsItem
  <2>3. ASSUME NEW i \in 0 .. ow - 1 PROVE buf'[at + i] = buf[at + i]
    <3>1. at + i \in 0 .. Capacity - 1 /\ at + i \notin index .. index + w - 1
      <4>1. at + ow <= Capacity
        BY <2>1 DEF Lies
      <4> HIDE DEF ow
      <4> QED BY <1>1, <1>2, <2>1, <2>2, <4>1
    <3> QED BY <1>7, <3>1
  <2> QED BY <2>1, <2>3 DEF Lies
<1>14. ASSUME NEW at \in DOMAIN items'
       PROVE  IsItem(items'[at]) /\ Lies(items'[at], at, buf')
  <2>1. CASE at = index
    BY <1>3, <1>12, <2>1
  <2>2. CASE at # index
    <3>1. at \in DOMAIN kept /\ items'[at] = items[at]
      BY <1>3, <1>5, <2>2
    <3> QED BY <1>13, <3>1
  <2> QED BY <2>1, <2>2
<1>15. ArrayTypeOK'
  <2>1. \A i \in 0 .. Capacity - 1 : i < size' \/ i < index' => buf'[i] # Garbage
    BY <1>8
  <2> QED BY <1>9, <1>10, <1>11, <2>1 DEF ArrayTypeOK
<1>16. \A at \in DOMAIN items' : IsItem(items'[at]) /\ Lies(items'[at], at, buf')
  BY <1>14
<1> QED BY <1>15, <1>16 DEF ArrayInv

\* The array that binarr_new makes.
LEMMA ArrayInitInv ==
  ArrayInit => ArrayInv
<1> SUFFICES ASSUME ArrayInit PROVE ArrayInv
  OBVIOUS
<1>1. Capacity \in Nat \ {0} /\ Base \in Nat \ {0}
  BY BinArrAssumption
<1>2. DOMAIN items = {} /\ size = 0 /\ index = 0 /\ buf = [i \in 0 .. Capacity - 1 |-> Garbage]
  BY DEF ArrayInit
<1>3. buf \in [0 .. Capacity - 1 -> {Garbage} \cup 0 .. Base - 1]
  BY <1>2
<1>4. \A i \in 0 .. Capacity - 1 : ~(i < size \/ i < index)
  BY <1>1, <1>2
<1> QED BY <1>1, <1>2, <1>3, <1>4 DEF ArrayInv, ArrayTypeOK

\* Every operation keeps it, in whatever order they come.
LEMMA ArrayNextPreserves ==
  ArrayInv /\ [ArrayNext]_arrayVars => ArrayInv'
<1> SUFFICES ASSUME ArrayInv, [ArrayNext]_arrayVars PROVE ArrayInv'
  OBVIOUS
<1>1. ASSUME UNCHANGED <<buf, size, items>>, index' \in 0 .. Capacity,
             index' <= index \/ index' <= size
      PROVE  ArrayInv'
  <2>1. /\ buf \in [0 .. Capacity - 1 -> {Garbage} \cup 0 .. Base - 1]
        /\ size \in 0 .. Capacity /\ index \in 0 .. Capacity
        /\ DOMAIN items \subseteq 0 .. Capacity - 1
        /\ \A i \in 0 .. Capacity - 1 : i < size \/ i < index => buf[i] # Garbage
    BY DEF ArrayInv, ArrayTypeOK
  <2>2. \A i \in 0 .. Capacity - 1 : i < size \/ i < index' => i < size \/ i < index
    BY <1>1, <2>1
  <2>3. ArrayTypeOK'
    BY <1>1, <2>1, <2>2 DEF ArrayTypeOK
  <2>4. \A at \in DOMAIN items' : IsItem(items'[at]) /\ Lies(items'[at], at, buf')
    BY <1>1 DEF ArrayInv
  <2> QED BY <2>3, <2>4 DEF ArrayInv
<1>2. Capacity \in Nat \ {0} /\ size \in 0 .. Capacity /\ index \in 0 .. Capacity
  BY BinArrAssumption DEF ArrayInv, ArrayTypeOK
<1>3. CASE Rewind
  <2>1. UNCHANGED <<buf, size, items>> /\ index' = 0
    BY <1>3 DEF Rewind
  <2> QED BY <1>1, <1>2, <2>1
<1>4. ASSUME NEW kind \in Kind, ReadNumber(kind) PROVE ArrayInv'
  <2>1. UNCHANGED <<buf, size, items>> /\ index' = index + Width(kind) /\ index' <= size
    BY <1>4 DEF ReadNumber
  <2>2. Width(kind) \in 1 .. 4
    BY KindIs
  <2> QED BY <1>1, <1>2, <2>1, <2>2
<1>5. ASSUME NEW kind \in Kind, NEW network \in BOOLEAN, NEW v \in Data(kind),
             WriteNumber(kind, network, v)
      PROVE  ArrayInv'
  BY <1>5, PutPreserves DEF WriteNumber
<1>6. ASSUME NEW kind \in Kind, NEW network \in BOOLEAN, NEW v \in Data(kind),
             AppendNumber(kind, network, v)
      PROVE  ArrayInv'
  BY <1>6, PutPreserves DEF AppendNumber, NewSize
<1>7. CASE UNCHANGED arrayVars
  BY <1>1, <1>2, <1>7 DEF arrayVars
<1> QED BY <1>3, <1>4, <1>5, <1>6, <1>7 DEF ArrayNext

\* So it always holds.
LEMMA SpecArrayInv ==
  ArraySpec => []ArrayInv
<1>1. ArrayInit => ArrayInv
  BY ArrayInitInv
<1>2. ArrayInv /\ [ArrayNext]_arrayVars => ArrayInv'
  BY ArrayNextPreserves
<1> QED BY <1>1, <1>2, PTL DEF ArraySpec

\* Whatever mix of binarr_write_*, binarr_append_* and binarr_read_* came before, the
\* first `size` bytes, which server_send sends, were all written.
THEOREM SpecArrayTypeOK ==
  ArraySpec => []ArrayTypeOK
<1>1. ArrayInv => ArrayTypeOK
  BY DEF ArrayInv
<1> QED BY <1>1, SpecArrayInv, PTL

\* What binarr_read_* returns of a number that is still whole is what binarr_write_*
\* was given, in both byte orders and with its sign, for bytes of any size; of a float,
\* what scaling, truncation and three roundings to any precision leave.  Read and sent on,
\* a number that is small against the precision has lost one part at most.
THEOREM SpecReadsBack ==
  ArraySpec => []ReadsBack
<1>1. ArrayInv => ReadsBack
  <2> SUFFICES ASSUME ArrayInv, NEW at \in DOMAIN items
               PROVE  LET item == items[at]
                          n == ReadInteger(item.kind, item.network, at)
                          written == item.v * FloatScale
                          read == IntToFloat(n) * FloatScale
                          sentOn == FloatToInt(IntToFloat(n))
                      IN /\ n = Integer(item.kind, item.v)
                         /\ item.kind = "float" =>
                              /\ Distance(read, written) * Precision
                                   < (FloatUnit + FloatScale) * Precision
                                       + 4 * Distance(written, 0)
                              /\ 4 * Distance(n, 0) <= Precision =>
                                   /\ Distance(sentOn, n) <= 1
                                   /\ Distance(sentOn, 0) <= Distance(n, 0)
    BY DEF ReadsBack
  <2> DEFINE item == items[at]
             n == Integer(item.kind, item.v)
  <2>1. IsItem(item) /\ Lies(item, at, buf) /\ at \in Int
    BY DEF ArrayInv, ArrayTypeOK
  <2>2. item.kind \in Kind /\ item.network \in BOOLEAN /\ item.v \in Int
    BY <2>1 DEF IsItem
  <2>3. n \in IntegersOf(item.kind)
    BY <2>1 DEF IsItem
  <2>4. \A i \in 0 .. Width(item.kind) - 1 :
          buf[at + i] = Bytes(item.kind, item.network, n)[i]
    BY <2>1 DEF Lies
  <2> HIDE DEF n, item
  <2>5. ReadInteger(item.kind, item.network, at) = n
    BY <2>1, <2>2, <2>3, <2>4, ReadsWhatIsThere
  <2>6. ASSUME item.kind = "float"
        PROVE  /\ Distance(IntToFloat(n) * FloatScale, item.v * FloatScale) * Precision
                    < (FloatUnit + FloatScale) * Precision
                        + 4 * Distance(item.v * FloatScale, 0)
               /\ 4 * Distance(n, 0) <= Precision =>
                    /\ Distance(FloatToInt(IntToFloat(n)), n) <= 1
                    /\ Distance(FloatToInt(IntToFloat(n)), 0) <= Distance(n, 0)
    <3>1. n = FloatToInt(item.v) /\ n \in Int
      BY <2>2, <2>6, FloatToIntIs DEF n, Integer
    <3>2. Distance(IntToFloat(n) * FloatScale, item.v * FloatScale) * Precision
            < (FloatUnit + FloatScale) * Precision + 4 * Distance(item.v * FloatScale, 0)
      BY <2>2, <3>1, FloatReadsBack
    <3>3. 4 * Distance(n, 0) <= Precision =>
            /\ Distance(FloatToInt(IntToFloat(n)), n) <= 1
            /\ Distance(FloatToInt(IntToFloat(n)), 0) <= Distance(n, 0)
      BY <3>1, SentOnIs
    <3> QED BY <3>2, <3>3
  <2> QED BY <2>5, <2>6 DEF n, item
<1> QED BY <1>1, SpecArrayInv, PTL
=============================================================================
