------------------------------ MODULE ChatRooms ------------------------------
(***************************************************************************)
(* What the room subsystem promises its clients, with no list, no lock and *)
(* no pointer: every client has at most one seat, a client takes a seat    *)
(* only when it holds none, and a room never has more seats taken than     *)
(* MAX_CLIENTS_PER_ROOM.  Rooms.tla is shown to implement it.              *)
(***************************************************************************)
EXTENDS Naturals, FiniteSets

CONSTANTS Client,            \* the clients that may be logged in
          Name,              \* the room names
          NoName,            \* "in no room"
          MaxClientsPerRoom  \* MAX_CLIENTS_PER_ROOM

VARIABLE seat                \* the room each client sits in, or NoName

Occupants(n) == {c \in Client : seat[c] = n}

Init == seat = [c \in Client |-> NoName]

\* handle_join_command gives a client without a room a seat in room n.
Enter(c, n) ==
  /\ seat[c] = NoName
  /\ Cardinality(Occupants(n)) < MaxClientsPerRoom
  /\ seat' = [seat EXCEPT ![c] = n]

\* The client leaves, switches away, disconnects or loses the room.
Exit(c) ==
  /\ seat[c] # NoName
  /\ seat' = [seat EXCEPT ![c] = NoName]

Next == \E c \in Client : Exit(c) \/ \E n \in Name : Enter(c, n)

Spec == Init /\ [][Next]_seat
=============================================================================
