------------------------------- MODULE Rooms --------------------------------
(***************************************************************************)
(* The room list of server/dynamic_room.c and the handlers of              *)
(* server/server_helper.c that use it: /join, /leave, /broadcast and the   *)
(* cleanup of a connection.  Every connected client has one handler        *)
(* thread, which runs one command at a time; pc says where in the command  *)
(* it is.  A step is what a thread does up to the next point where another *)
(* thread can see or change what it relies on: a lock, an unlock, or a use *)
(* of a room pointer outside any lock.                                     *)
(*                                                                         *)
(* A room is an allocation.  It is live while it is in the list (remove_   *)
(* room unlinks and frees it under the list lock), and a freed one is      *)
(* reused by malloc only here when no thread still points to it, so that   *)
(* every use of freed memory is recognised: it raises fault, after which   *)
(* the C program has no defined behaviour and the model stops.             *)
(***************************************************************************)
EXTENDS Integers, FiniteSets

CONSTANTS Client,             \* clients; each has its own handler thread
          Name,               \* room names
          Room,               \* allocations of room_info_t
          NoClient,           \* an unlocked mutex
          NoName,             \* an empty current_room_name
          NoRoom,             \* a NULL room pointer
          MaxClientsPerRoom   \* MAX_CLIENTS_PER_ROOM (15 in the code)

ASSUME RoomsAssumption ==
  /\ IsFiniteSet(Client)
  /\ NoClient \notin Client
  /\ NoName \notin Name
  /\ NoRoom \notin Room
  /\ MaxClientsPerRoom \in Nat \ {0}

VARIABLES
  pc,        \* where the handler thread of each client is
  name,      \* client_info_t.current_room_name
  want,      \* the argument of the /join being handled
  ptr,       \* the room_info_t pointer the handler holds
  todo,      \* the recipients a broadcast has still to send to
  listLock,  \* owner of room_list_mutex
  listed,    \* the rooms reachable from room_list_head: the live ones
  rname,     \* room_info_t.room_name
  members,   \* room_info_t.clients, as the set of clients in its slots
  count,     \* room_info_t.client_count
  owner,     \* owner of room_info_t.room_mutex
  fault      \* a freed room was used

threadVars == <<pc, name, want, ptr, todo>>
roomVars   == <<listLock, listed, rname, members, count, owner>>
vars       == <<threadVars, roomVars, fault>>

-----------------------------------------------------------------------------
\* The control points of a handler thread.
Joining   == {"join_find_old", "join_leave_old", "join_check_old",
              "rm_search", "rm_check", "rm_free", "join_find", "join_add",
              "join_enter", "join_index", "join_unlock", "join_announce",
              "join_log"}
Leaving   == {"lv_find", "lv_leave"}
Casting   == {"bc_find", "bc_lock", "bc_deliver", "bc_confirm"}
Closing   == {"dc_find", "dc_leave", "dc_close"}
Label     == {"offline", "idle"} \union Joining \union Leaving
               \union Casting \union Closing

\* Where the thread's next step dereferences the room it points to.
UsesRoom  == {"join_leave_old", "join_check_old", "rm_search", "rm_check",
              "rm_free", "join_enter", "join_unlock", "join_announce",
              "join_log", "lv_leave", "bc_lock", "bc_deliver", "bc_confirm",
              "dc_leave"}

\* Where the thread holds room_list_mutex, and where a room_mutex.
HoldsList == {"rm_check", "rm_free"}
HoldsRoom == {"join_index", "join_unlock", "bc_deliver"}

\* Where its next step takes the one, and where the other.
NeedsList == {"join_find_old", "rm_search", "join_find", "join_add", "join_index",
              "lv_find", "bc_find", "dc_find"}
NeedsRoom == {"join_leave_old", "rm_check", "join_enter", "join_announce",
              "lv_leave", "bc_lock", "dc_leave"}

Busy(c)    == pc[c] \notin {"offline", "idle"}
Live(c)    == ptr[c] \in listed
Matches(n) == {r \in listed : rname[r] = n}
ListFree   == listLock = NoClient
RoomFree(r) == owner[r] = NoClient
Reusable   == {r \in Room \ listed : \A c \in Client : ptr[c] # r}

Goto(c, l)     == pc' = [pc EXCEPT ![c] = l]
Point(c, l, r) == /\ pc' = [pc EXCEPT ![c] = l]
                  /\ ptr' = [ptr EXCEPT ![c] = r]
\* The handler returns to client_message_loop.
Return(c)      == /\ Point(c, "idle", NoRoom)
                  /\ want' = [want EXCEPT ![c] = NoName]

Init ==
  /\ pc = [c \in Client |-> "offline"]
  /\ name = [c \in Client |-> NoName]
  /\ want = [c \in Client |-> NoName]
  /\ ptr = [c \in Client |-> NoRoom]
  /\ todo = [c \in Client |-> {}]
  /\ listLock = NoClient
  /\ listed = {}
  /\ rname = [r \in Room |-> NoName]
  /\ members = [r \in Room |-> {}]
  /\ count = [r \in Room |-> 0]
  /\ owner = [r \in Room |-> NoClient]
  /\ fault = FALSE

-----------------------------------------------------------------------------
\* find_room: the list is searched under its lock, the pointer outlives it.
FindRoom(c, n, found) ==
  /\ ListFree
  /\ \E r \in Matches(n) : Point(c, found, r)
  /\ UNCHANGED <<name, want, todo, roomVars, fault>>

NoSuchRoom(n) == ListFree /\ Matches(n) = {}

\* Mutant: client_count is decremented whether or not a slot was found.
ClearSlotUnchecked(c, r) ==
  /\ members' = [members EXCEPT ![r] = @ \ {c}]
  /\ count' = [count EXCEPT ![r] = @ - 1]

\* The loop that clears the slot of c and decrements client_count.
ClearSlot(c, r) ==
  IF c \in members[r]
    THEN /\ members' = [members EXCEPT ![r] = @ \ {c}]
         /\ count' = [count EXCEPT ![r] = @ - 1]
    ELSE UNCHANGED <<members, count>>

\* add_client at the end of a successful login: the client is in no room.
Login(c) ==
  /\ pc[c] = "offline"
  /\ Goto(c, "idle")
  /\ UNCHANGED <<name, want, ptr, todo, roomVars, fault>>

-----------------------------------------------------------------------------
\* /join.  Naming the current room changes nothing and is left out.
StartJoin(c, n) ==
  /\ pc[c] = "idle"
  /\ n # name[c]
  /\ want' = [want EXCEPT ![c] = n]
  /\ Goto(c, IF name[c] = NoName THEN "join_find" ELSE "join_find_old")
  /\ UNCHANGED <<name, ptr, todo, roomVars, fault>>

JoinFindOld(c) ==
  /\ pc[c] = "join_find_old"
  /\ \/ FindRoom(c, name[c], "join_leave_old")
     \/ /\ NoSuchRoom(name[c])
        /\ Goto(c, "join_find")
        /\ UNCHANGED <<name, want, ptr, todo, roomVars, fault>>

\* current_room_name keeps the old room until the new one is entered.
JoinLeaveOld(c) ==
  /\ pc[c] = "join_leave_old"
  /\ Live(c) /\ RoomFree(ptr[c])
  /\ ClearSlot(c, ptr[c])
  /\ Goto(c, "join_check_old")
  /\ UNCHANGED <<name, want, ptr, todo, listLock, listed, rname, owner, fault>>

\* client_count of the old room is read after its mutex was released.
JoinCheckOld(c) ==
  /\ pc[c] = "join_check_old"
  /\ Live(c)
  /\ IF count[ptr[c]] = 0 THEN Point(c, "rm_search", ptr[c])
                          ELSE Point(c, "join_find", NoRoom)
  /\ UNCHANGED <<name, want, todo, roomVars, fault>>

\* remove_room searches by the name stored in the room itself.
RemoveSearch(c) ==
  /\ pc[c] = "rm_search"
  /\ Live(c) /\ ListFree
  /\ listLock' = c
  /\ \E r \in Matches(rname[ptr[c]]) : Point(c, "rm_check", r)
  /\ UNCHANGED <<name, want, todo, listed, rname, members, count, owner, fault>>

\* Mutant: the room is not checked again under the locks.
RemoveCheckSkipped(c) ==
  /\ pc[c] = "rm_check"
  /\ Goto(c, "rm_free")
  /\ UNCHANGED <<name, want, ptr, todo, roomVars, fault>>

\* Mutant: a room in use is waited for under the list lock, not left alone.
RemoveCheckUntilEmpty(c) ==
  /\ pc[c] = "rm_check"
  /\ Live(c) /\ RoomFree(ptr[c])
  /\ count[ptr[c]] = 0
  /\ Goto(c, "rm_free")
  /\ UNCHANGED <<name, want, ptr, todo, roomVars, fault>>

\* The room mutex is taken under the list lock, and given back before the
\* room is unlinked.
RemoveCheck(c) ==
  /\ pc[c] = "rm_check"
  /\ Live(c) /\ RoomFree(ptr[c])
  /\ IF count[ptr[c]] > 0
       THEN Point(c, "join_find", NoRoom) /\ listLock' = NoClient
       ELSE Point(c, "rm_free", ptr[c]) /\ UNCHANGED listLock
  /\ UNCHANGED <<name, want, todo, listed, rname, members, count, owner, fault>>

RemoveFree(c) ==
  /\ pc[c] = "rm_free"
  /\ Live(c)
  /\ listed' = listed \ {ptr[c]}
  /\ listLock' = NoClient
  /\ Point(c, "join_find", NoRoom)
  /\ UNCHANGED <<name, want, todo, rname, members, count, owner, fault>>

JoinFind(c) ==
  /\ pc[c] = "join_find"
  /\ \/ FindRoom(c, want[c], "join_enter")
     \/ /\ NoSuchRoom(want[c])
        /\ Goto(c, "join_add")
        /\ UNCHANGED <<name, want, ptr, todo, roomVars, fault>>

\* Mutant: add_room relies on the search its caller made.
AddRoomUnchecked(c) ==
  /\ pc[c] = "join_add"
  /\ ListFree
  /\ \E r \in Reusable :
       /\ listed' = listed \union {r}
       /\ rname' = [rname EXCEPT ![r] = want[c]]
       /\ members' = [members EXCEPT ![r] = {}]
       /\ count' = [count EXCEPT ![r] = 0]
       /\ Point(c, "join_enter", r)
  /\ UNCHANGED <<name, want, todo, listLock, owner, fault>>

\* add_room under one hold of the list lock: the room another thread has
\* made in the meantime, a new one, or none when malloc fails.
AddRoom(c) ==
  /\ pc[c] = "join_add"
  /\ \/ FindRoom(c, want[c], "join_enter")
     \/ /\ NoSuchRoom(want[c])
        /\ \E r \in Reusable :
             /\ listed' = listed \union {r}
             /\ rname' = [rname EXCEPT ![r] = want[c]]
             /\ members' = [members EXCEPT ![r] = {}]
             /\ count' = [count EXCEPT ![r] = 0]
             /\ owner' = [owner EXCEPT ![r] = NoClient]
             /\ Point(c, "join_enter", r)
        /\ UNCHANGED <<name, want, todo, listLock, fault>>
     \/ /\ NoSuchRoom(want[c])
        /\ Return(c)
        /\ UNCHANGED <<name, todo, roomVars, fault>>

Full(r) == \/ count[r] >= MaxClientsPerRoom
           \/ Cardinality(members[r]) >= MaxClientsPerRoom

\* Mutant: the early return forgets to unlock.
JoinRefusedLocked(c) ==
  /\ pc[c] = "join_enter"
  /\ Live(c) /\ RoomFree(ptr[c])
  /\ Full(ptr[c])
  /\ owner' = [owner EXCEPT ![ptr[c]] = c]
  /\ Return(c)
  /\ UNCHANGED <<name, todo, listLock, listed, rname, members, count, fault>>

\* A refused client keeps the name of the room it has already left.
JoinRefused(c) ==
  /\ pc[c] = "join_enter"
  /\ Live(c) /\ RoomFree(ptr[c])
  /\ Full(ptr[c])
  /\ Return(c)
  /\ UNCHANGED <<name, todo, roomVars, fault>>

JoinEnter(c) ==
  /\ pc[c] = "join_enter"
  /\ Live(c) /\ RoomFree(ptr[c])
  /\ ~Full(ptr[c])
  /\ members' = [members EXCEPT ![ptr[c]] = @ \union {c}]
  /\ count' = [count EXCEPT ![ptr[c]] = @ + 1]
  /\ owner' = [owner EXCEPT ![ptr[c]] = c]
  /\ name' = [name EXCEPT ![c] = want[c]]
  /\ Goto(c, "join_index")
  /\ UNCHANGED <<want, ptr, todo, listLock, listed, rname, fault>>

\* get_room_index takes the list lock while the room mutex is held.
JoinIndex(c) ==
  /\ pc[c] = "join_index"
  /\ ListFree
  /\ Goto(c, "join_unlock")
  /\ UNCHANGED <<name, want, ptr, todo, roomVars, fault>>

JoinUnlock(c) ==
  /\ pc[c] = "join_unlock"
  /\ Live(c)
  /\ owner' = [owner EXCEPT ![ptr[c]] = NoClient]
  /\ Goto(c, "join_announce")
  /\ UNCHANGED <<name, want, ptr, todo, listLock, listed, rname, members,
                 count, fault>>

\* The others are told under the mutex, taken a second time.
JoinAnnounce(c) ==
  /\ pc[c] = "join_announce"
  /\ Live(c) /\ RoomFree(ptr[c])
  /\ Goto(c, "join_log")
  /\ UNCHANGED <<name, want, ptr, todo, roomVars, fault>>

\* client_count is read once more for the log, outside the mutex.
JoinLog(c) ==
  /\ pc[c] = "join_log"
  /\ Live(c)
  /\ Return(c)
  /\ UNCHANGED <<name, todo, roomVars, fault>>

-----------------------------------------------------------------------------
\* A client believed to be in a room of which the list knows nothing.
RoomGone(c) ==
  /\ NoSuchRoom(name[c])
  /\ name' = [name EXCEPT ![c] = NoName]
  /\ Return(c)
  /\ UNCHANGED <<todo, roomVars, fault>>

\* /leave: refused when the client is in no room.
StartLeave(c) ==
  /\ pc[c] = "idle"
  /\ name[c] # NoName
  /\ Goto(c, "lv_find")
  /\ UNCHANGED <<name, want, ptr, todo, roomVars, fault>>

LeaveFind(c) ==
  /\ pc[c] = "lv_find"
  /\ FindRoom(c, name[c], "lv_leave") \/ RoomGone(c)

\* Mutant: the slot is cleared without the room mutex.
LeaveRoomUnlocked(c) ==
  /\ pc[c] = "lv_leave"
  /\ Live(c)
  /\ ClearSlot(c, ptr[c])
  /\ name' = [name EXCEPT ![c] = NoName]
  /\ Return(c)
  /\ UNCHANGED <<todo, listLock, listed, rname, owner, fault>>

\* Registered or not, the client ends in no room; the room stays listed.
LeaveRoom(c) ==
  /\ pc[c] = "lv_leave"
  /\ Live(c) /\ RoomFree(ptr[c])
  /\ ClearSlot(c, ptr[c])
  /\ name' = [name EXCEPT ![c] = NoName]
  /\ Return(c)
  /\ UNCHANGED <<todo, listLock, listed, rname, owner, fault>>

-----------------------------------------------------------------------------
\* /broadcast: refused when current_room_name is empty.
StartBroadcast(c) ==
  /\ pc[c] = "idle"
  /\ name[c] # NoName
  /\ Goto(c, "bc_find")
  /\ UNCHANGED <<name, want, ptr, todo, roomVars, fault>>

BroadcastFind(c) ==
  /\ pc[c] = "bc_find"
  /\ FindRoom(c, name[c], "bc_lock") \/ RoomGone(c)

BroadcastLock(c) ==
  /\ pc[c] = "bc_lock"
  /\ Live(c) /\ RoomFree(ptr[c])
  /\ owner' = [owner EXCEPT ![ptr[c]] = c]
  /\ todo' = [todo EXCEPT ![c] = members[ptr[c]] \ {c}]
  /\ Goto(c, "bc_deliver")
  /\ UNCHANGED <<name, want, ptr, listLock, listed, rname, members, count,
                 fault>>

\* One send_message, to a client of the room other than the sender.
BroadcastDeliver(c) ==
  /\ pc[c] = "bc_deliver"
  /\ Live(c)
  /\ \E d \in todo[c] : todo' = [todo EXCEPT ![c] = @ \ {d}]
  /\ UNCHANGED <<pc, name, want, ptr, roomVars, fault>>

BroadcastUnlock(c) ==
  /\ pc[c] = "bc_deliver"
  /\ Live(c)
  /\ todo[c] = {}
  /\ owner' = [owner EXCEPT ![ptr[c]] = NoClient]
  /\ Goto(c, "bc_confirm")
  /\ UNCHANGED <<name, want, ptr, todo, listLock, listed, rname, members,
                 count, fault>>

\* The confirmation quotes room_name after the mutex was released.
BroadcastConfirm(c) ==
  /\ pc[c] = "bc_confirm"
  /\ Live(c)
  /\ Return(c)
  /\ UNCHANGED <<name, todo, roomVars, fault>>

-----------------------------------------------------------------------------
\* Mutant: the connection ends without a look at the client's room.
StartDisconnectAbrupt(c) ==
  /\ pc[c] = "idle"
  /\ Goto(c, "dc_close")
  /\ UNCHANGED <<name, want, ptr, todo, roomVars, fault>>

\* The connection ends: cleanup_client_connection, then remove_client.
StartDisconnect(c) ==
  /\ pc[c] = "idle"
  /\ Goto(c, IF name[c] = NoName THEN "dc_close" ELSE "dc_find")
  /\ UNCHANGED <<name, want, ptr, todo, roomVars, fault>>

DisconnectFind(c) ==
  /\ pc[c] = "dc_find"
  /\ \/ FindRoom(c, name[c], "dc_leave")
     \/ /\ NoSuchRoom(name[c])
        /\ Goto(c, "dc_close")
        /\ UNCHANGED <<name, want, ptr, todo, roomVars, fault>>

DisconnectLeave(c) ==
  /\ pc[c] = "dc_leave"
  /\ Live(c) /\ RoomFree(ptr[c])
  /\ ClearSlot(c, ptr[c])
  /\ Point(c, "dc_close", NoRoom)
  /\ UNCHANGED <<name, want, todo, listLock, listed, rname, owner, fault>>

\* remove_client frees the client_info_t; the next login starts afresh.
DisconnectClose(c) ==
  /\ pc[c] = "dc_close"
  /\ Goto(c, "offline")
  /\ name' = [name EXCEPT ![c] = NoName]
  /\ UNCHANGED <<want, ptr, todo, roomVars, fault>>

-----------------------------------------------------------------------------
\* The next step of the handler would use a room that was freed.
UseAfterFree(c) ==
  /\ pc[c] \in UsesRoom
  /\ ~Live(c)
  /\ pc[c] = "rm_search" => ListFree
  /\ fault' = TRUE
  /\ UNCHANGED <<threadVars, roomVars>>

\* What the client (or its connection) makes a handler begin.
Input(c) ==
  \/ Login(c) \/ StartLeave(c) \/ StartBroadcast(c) \/ StartDisconnect(c)
  \/ \E n \in Name : StartJoin(c, n)

JoinStep(c) ==
  \/ JoinFindOld(c) \/ JoinLeaveOld(c) \/ JoinCheckOld(c) \/ RemoveSearch(c)
  \/ RemoveCheck(c) \/ RemoveFree(c) \/ JoinFind(c) \/ AddRoom(c)
  \/ JoinRefused(c) \/ JoinEnter(c) \/ JoinIndex(c) \/ JoinUnlock(c)
  \/ JoinAnnounce(c) \/ JoinLog(c)

OtherStep(c) ==
  \/ LeaveFind(c) \/ LeaveRoom(c)
  \/ BroadcastFind(c) \/ BroadcastLock(c) \/ BroadcastDeliver(c)
  \/ BroadcastUnlock(c) \/ BroadcastConfirm(c)
  \/ DisconnectFind(c) \/ DisconnectLeave(c) \/ DisconnectClose(c)

Step(c) == JoinStep(c) \/ OtherStep(c) \/ UseAfterFree(c)

Next == ~fault /\ \E c \in Client : Input(c) \/ Step(c)

Spec == Init /\ [][Next]_vars
-----------------------------------------------------------------------------
\* The types of the state, for client_info_t, room_info_t and the mutexes.
TypeOK ==
  /\ pc \in [Client -> Label]
  /\ name \in [Client -> Name \union {NoName}]
  /\ want \in [Client -> Name \union {NoName}]
  /\ ptr \in [Client -> Room \union {NoRoom}]
  /\ todo \in [Client -> SUBSET Client]
  /\ listLock \in Client \union {NoClient}
  /\ listed \subseteq Room
  /\ rname \in [Room -> Name \union {NoName}]
  /\ members \in [Room -> SUBSET Client]
  /\ count \in [Room -> Nat]
  /\ owner \in [Room -> Client \union {NoClient}]
  /\ fault \in BOOLEAN

\* client_count, which decides whether a room is full and whether it may be
\* freed, is the number of slots in use, although /join, /leave and the
\* cleanup of a connection each maintain it on their own.
CountMatchesSlots ==
  \A r \in listed : count[r] = Cardinality(members[r])

\* However /join commands race for the last slot, no room has more than
\* MAX_CLIENTS_PER_ROOM clients (server_helper.c:657).
CapacityRespected ==
  \A r \in listed : Cardinality(members[r]) <= MaxClientsPerRoom

\* Two threads that both found no room of a name and both call add_room do
\* not make two: a name always leads to one room (dynamic_room.c:57).
UniqueRoomNames ==
  \A r, s \in listed : rname[r] = rname[s] => r = s

\* A slot of a live room never points to a client that has disconnected (its
\* client_info_t is freed) nor to one that believes to be in another room.
SlotsAgreeWithClients ==
  \A r \in listed : \A c \in members[r] :
    pc[c] # "offline" /\ name[c] = rname[r]

\* The room of a client that is seated in it is not freed under the client:
\* only a joiner still waiting inside get_room_index can lose its room.
SeatedClientKeepsRoom ==
  \A r \in Room : \A c \in members[r] :
    r \in listed \/ (pc[c] \in {"join_index", "join_unlock"} /\ ptr[c] = r)

\* While a broadcast goes through the slots of a room, nobody joins or leaves
\* it: the recipients are those present when the mutex was taken.
BroadcastRoomsKept ==
  \A c \in Client : pc[c] = "bc_deliver" /\ Live(c) =>
    members'[ptr[c]] = members[ptr[c]] /\ count'[ptr[c]] = count[ptr[c]]
RoomFrozenByBroadcast == [][BroadcastRoomsKept]_vars

\* A handler inside remove_room waits for a room mutex whose owner waits,
\* inside get_room_index, for the list lock.
LockCycle ==
  \E c, d \in Client : /\ pc[c] = "rm_check"
                       /\ pc[d] = "join_index"
                       /\ owner[ptr[c]] = d

\* What a handler's next step has to wait for: a mutex that is not free.
Waits(c) ==
  \/ pc[c] \in NeedsList /\ ~ListFree
  \/ pc[c] \in NeedsRoom /\ Live(c) /\ ~RoomFree(ptr[c])

\* That cycle is the only way for the handlers to get stuck: as long as there
\* is none, some thread that has begun a command waits for no mutex.
OnlyLockCycleBlocks ==
  (\E c \in Client : Busy(c)) /\ ~LockCycle
    => \E c \in Client : Busy(c) /\ ~Waits(c)

\* And a command waits for nothing but these mutexes: for no count to change and
\* no other handler to move, whatever the lists have become under its pointers.
WaitsOnlyForMutexes ==
  \A c \in Client : Busy(c) /\ ~Waits(c) => ENABLED Step(c)

\* Rooms with their lists, locks and pointers keep the promise of ChatRooms.
Seat == [c \in Client |->
           IF \E r \in listed : c \in members[r]
             THEN rname[CHOOSE r \in listed : c \in members[r]]
             ELSE NoName]
Abstract == INSTANCE ChatRooms WITH seat <- Seat
ImplementsChatRooms == Abstract!Spec

-----------------------------------------------------------------------------
(***************************************************************************)
(* What the documentation says and the code does not keep.                 *)
(***************************************************************************)

\* README, MUTEX HIERARCHY: room_list_mutex is taken before any room_mutex,
\* so the handlers never wait for each other in a circle.
NoLockCycle == ~LockCycle

\* dynamic_room.c:122-127: remove_room checks that the room is empty and
\* refuses to remove a non-empty one.
OnlyEmptyRoomsFreed ==
  [][\A r \in listed \ listed' : members[r] = {}]_vars
=============================================================================
