-------------------------------- MODULE Lobby --------------------------------
(***************************************************************************)
(* What the matchmaking server promises: clients wait in the order they    *)
(* came, may leave while they wait, and are put into rooms from the front, *)
(* RoomSize at a time.  Nobody waits twice, and a room, once made, keeps   *)
(* its clients.                                                            *)
(***************************************************************************)
EXTENDS Integers, Sequences, SequencesExt

CONSTANTS
  Client,
  RoomSize    \* ROOM_SIZE, clients in a room

VARIABLES
  waiting,    \* the clients that wait, in order
  rooms,      \* the rooms made, each a sequence of clients
  came        \* the clients that have ever joined

lobbyVars == <<waiting, rooms, came>>

Init ==
  /\ waiting = << >>
  /\ rooms = << >>
  /\ came = {}

Join(c) ==
  /\ c \notin came
  /\ waiting' = Append(waiting, c)
  /\ came' = came \cup {c}
  /\ UNCHANGED rooms

Leave(c) ==
  /\ \E i \in 1 .. Len(waiting) :
       waiting[i] = c /\ waiting' = RemoveAt(waiting, i)
  /\ UNCHANGED <<rooms, came>>

Match ==
  /\ Len(waiting) >= RoomSize
  /\ rooms' = Append(rooms, SubSeq(waiting, 1, RoomSize))
  /\ waiting' = SubSeq(waiting, RoomSize + 1, Len(waiting))
  /\ UNCHANGED came

Next == Match \/ \E c \in Client : Join(c) \/ Leave(c)

Spec == Init /\ [][Next]_lobbyVars
=============================================================================
