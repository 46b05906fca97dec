---------------------------- MODULE RoomsProofs -----------------------------
(***************************************************************************)
(* Proofs about Rooms, for any number of clients, names and allocations.   *)
(*                                                                         *)
(* None of the safety properties is inductive alone: that a slot agrees    *)
(* with its client rests on unique names, unique names on the list lock,   *)
(* that a seated client keeps its room on what can happen between the two  *)
(* halves of remove_room.  IndInv joins what they rest on; each part is    *)
(* one reason, in terms of the locks and of the points a handler is at.    *)
(***************************************************************************)
EXTENDS Rooms, FiniteSetTheorems, TLAPS

\* The list lock is held exactly inside remove_room.
ListLockInv ==
  \A c \in Client : listLock = c <=> pc[c] \in HoldsList

\* A room mutex is held exactly by the handlers that are at a point where
\* they hold one, each for the room it points to.
RoomLockInv ==
  \A c \in Client : \A r \in Room :
    owner[r] = c <=> (pc[c] \in HoldsRoom /\ ptr[c] = r)

\* Handlers that are about to use a room point to one; the others do not.
PointerInv ==
  \A c \in Client : ptr[c] \in Room <=> pc[c] \in UsesRoom \union {"join_index"}

\* The names a handler works with are names, and those of live rooms too.
NamesInv ==
  /\ \A r \in listed : rname[r] \in Name
  /\ \A c \in Client : pc[c] \in Joining => want[c] \in Name
  /\ \A c \in Client :
       pc[c] \in {"join_find_old", "join_leave_old", "lv_find", "lv_leave",
                  "bc_find", "bc_lock", "bc_deliver", "dc_find", "dc_leave"}
         => name[c] \in Name

\* A pointer that is still good leads to the room that was asked for.
FoundInv ==
  \A c \in Client : Live(c) =>
    /\ pc[c] \in {"join_leave_old", "lv_leave", "bc_lock", "bc_deliver",
                  "dc_leave"} => rname[ptr[c]] = name[c]
    /\ pc[c] \in {"join_enter", "join_index", "join_unlock"}
         => rname[ptr[c]] = want[c]

\* A handler between two rooms, or past its cleanup, has no seat anywhere.
Seatless == {"offline", "join_check_old", "rm_search", "rm_check", "rm_free",
             "join_find", "join_add", "join_enter", "dc_close"}
SeatlessInv ==
  \A c \in Client : pc[c] \in Seatless => \A r \in Room : c \notin members[r]

\* Between the check and the free of remove_room the room is in the list, and
\* a client that slipped into it waits for the list lock.
WindowInv ==
  \A c \in Client :
    /\ pc[c] \in HoldsList => Live(c)
    /\ pc[c] = "rm_free" =>
         \A d \in members[ptr[c]] : pc[d] = "join_index" /\ ptr[d] = ptr[c]

\* client_count is right in every room, freed or not.
CountInv == \A r \in Room : count[r] = Cardinality(members[r])

\* No room, freed or not, holds more clients than it may.
CapacityInv == \A r \in Room : Cardinality(members[r]) <= MaxClientsPerRoom

HandlerInv == ListLockInv /\ RoomLockInv /\ PointerInv /\ NamesInv
SeatInv    == /\ UniqueRoomNames /\ FoundInv /\ SeatlessInv
              /\ SlotsAgreeWithClients /\ SeatedClientKeepsRoom /\ WindowInv
TallyInv   == CountInv /\ CapacityInv
IndInv     == TypeOK /\ HandlerInv /\ SeatInv /\ TallyInv

-----------------------------------------------------------------------------
\* Adding a client to, and taking it from, a set of slots changes the number
\* of them by one; no slots are in use exactly when that number is zero.
LEMMA SlotArithmetic ==
  ASSUME NEW S \in SUBSET Client, NEW c \in Client
  PROVE  /\ Cardinality(S) \in Nat
         /\ c \notin S => Cardinality(S \union {c}) = Cardinality(S) + 1
         /\ c \in S => Cardinality(S \ {c}) = Cardinality(S) - 1
         /\ Cardinality(S) = 0 <=> S = {}
<1>1. IsFiniteSet(S)
  BY FS_Subset, RoomsAssumption
<1> QED
  BY <1>1, FS_CardinalityType, FS_AddElement, FS_RemoveElement, FS_EmptySet

\* The loop that clears a slot keeps client_count equal to the slots in use,
\* and does nothing else.
LEMMA ClearSlotKeepsTally ==
  ASSUME TypeOK, TallyInv, NEW c \in Client, NEW r \in Room, ClearSlot(c, r)
  PROVE  /\ members' = [members EXCEPT ![r] = @ \ {c}]
         /\ count' \in [Room -> Nat]
         /\ TallyInv'
<1> USE DEF TypeOK, ClearSlot
<1>1. CASE c \notin members[r]
  <2>1. members' = members /\ count' = count
    BY <1>1
  <2>2. members[r] \ {c} = members[r]
    BY <1>1
  <2> QED
    BY <2>1, <2>2 DEF TallyInv, CountInv, CapacityInv
<1>2. CASE c \in members[r]
  <2>1. /\ members' = [members EXCEPT ![r] = @ \ {c}]
        /\ count' = [count EXCEPT ![r] = @ - 1]
    BY <1>2
  <2>2. /\ Cardinality(members[r] \ {c}) = Cardinality(members[r]) - 1
        /\ Cardinality(members[r] \ {c}) \in Nat
        /\ Cardinality(members[r]) \in Nat
    BY <1>2, SlotArithmetic
  <2>3. ASSUME NEW s \in Room
        PROVE  /\ count'[s] = Cardinality(members'[s])
               /\ Cardinality(members'[s]) <= MaxClientsPerRoom
    <3>1. CASE s = r
      <4>1. members'[s] = members[r] \ {c} /\ count'[s] = count[r] - 1
        BY <2>1, <3>1
      <4> QED
        BY <2>2, <4>1, RoomsAssumption DEF TallyInv, CountInv, CapacityInv
    <3>2. CASE s # r
      <4>1. members'[s] = members[s] /\ count'[s] = count[s]
        BY <2>1, <3>2
      <4> QED
        BY <4>1 DEF TallyInv, CountInv, CapacityInv
    <3> QED
      BY <3>1, <3>2
  <2>4. count' \in [Room -> Nat]
    BY <2>1, <2>2 DEF TallyInv, CountInv
  <2> QED
    BY <2>1, <2>3, <2>4 DEF TallyInv, CountInv, CapacityInv
<1> QED
  BY <1>1, <1>2

-----------------------------------------------------------------------------
\* The invariant holds when the server starts.
THEOREM InitInv == Init => IndInv
<1> SUFFICES ASSUME Init PROVE IndInv
  OBVIOUS
<1> USE RoomsAssumption DEF Init
<1>1. TypeOK
  BY DEF TypeOK, Label
<1>2. HandlerInv
  BY DEF HandlerInv, ListLockInv, RoomLockInv, PointerInv, NamesInv,
         HoldsList, HoldsRoom, UsesRoom, Joining
<1>3. SeatInv
  BY DEF SeatInv, UniqueRoomNames, FoundInv, SeatlessInv, Live,
         SlotsAgreeWithClients, SeatedClientKeepsRoom, WindowInv, HoldsList
<1>4. TallyInv
  BY FS_EmptySet DEF TallyInv, CountInv, CapacityInv
<1> QED
  BY <1>1, <1>2, <1>3, <1>4 DEF IndInv

\* What a client makes a handler begin moves only the handler.
LEMMA InputKeepsInv ==
  ASSUME IndInv, NEW c \in Client, Input(c)
  PROVE  IndInv'
<1> USE RoomsAssumption
    DEF IndInv, HandlerInv, ListLockInv, RoomLockInv, PointerInv, NamesInv,
        SeatInv, UniqueRoomNames, FoundInv, SeatlessInv,
        SlotsAgreeWithClients, SeatedClientKeepsRoom, WindowInv, TypeOK,
        threadVars, roomVars, Live, Matches, ListFree, RoomFree, NoSuchRoom,
        HoldsList, HoldsRoom, UsesRoom, Seatless, Joining, Leaving, Casting,
        Closing, Label
<1> USE DEF TallyInv, CountInv, CapacityInv
<1>1. CASE Login(c)
  BY <1>1 DEF Login, Goto
<1>2. CASE StartLeave(c)
  BY <1>2 DEF StartLeave, Goto
<1>3. CASE StartBroadcast(c)
  BY <1>3 DEF StartBroadcast, Goto
<1>4. CASE StartDisconnect(c)
  BY <1>4 DEF StartDisconnect, Goto
<1>5. ASSUME NEW n \in Name, StartJoin(c, n)
      PROVE  IndInv'
  BY <1>5 DEF StartJoin, Goto
<1> QED
  BY <1>1, <1>2, <1>3, <1>4, <1>5 DEF Input

\* The steps of /join that leave the slots alone: finding, checking and
\* removing rooms, and everything after the slot was taken.
LEMMA WalkKeepsInv ==
  ASSUME IndInv, NEW c \in Client,
         \/ JoinFindOld(c) \/ JoinCheckOld(c) \/ RemoveSearch(c)
         \/ RemoveFree(c) \/ JoinFind(c) \/ JoinRefused(c) \/ JoinIndex(c)
         \/ JoinUnlock(c) \/ JoinAnnounce(c) \/ JoinLog(c)
  PROVE  IndInv'
<1> USE RoomsAssumption
    DEF IndInv, HandlerInv, ListLockInv, RoomLockInv, PointerInv, NamesInv,
        SeatInv, UniqueRoomNames, FoundInv, SeatlessInv,
        SlotsAgreeWithClients, SeatedClientKeepsRoom, WindowInv, TypeOK,
        threadVars, roomVars, Live, Matches, ListFree, RoomFree, NoSuchRoom,
        HoldsList, HoldsRoom, UsesRoom, Seatless, Joining, Leaving, Casting,
        Closing, Label
<1> USE DEF TallyInv, CountInv, CapacityInv
<1>1. CASE JoinFindOld(c)
  <2> USE DEF JoinFindOld, FindRoom, Goto, Point
  <2>1. TypeOK' /\ TallyInv'
    BY <1>1
  <2>2. HandlerInv'
    BY <1>1
  <2>3. SeatInv'
    BY <1>1
  <2> QED
    BY <2>1, <2>2, <2>3
<1>2. CASE JoinCheckOld(c)
  <2>1. TypeOK' /\ HandlerInv' /\ TallyInv'
    BY <1>2 DEF JoinCheckOld, Point
  <2>2. SeatInv'
    BY <1>2 DEF JoinCheckOld, Point
  <2> QED
    BY <2>1, <2>2
<1>3. CASE RemoveSearch(c)
  BY <1>3 DEF RemoveSearch, Point
<1>4. CASE RemoveFree(c)
  BY <1>4 DEF RemoveFree, Point
<1>5. CASE JoinFind(c)
  BY SMTT(40), <1>5 DEF JoinFind, FindRoom, Goto, Point
<1>6. CASE JoinRefused(c)
  BY <1>6 DEF JoinRefused, Return, Point
<1>7. CASE JoinIndex(c)
  BY <1>7 DEF JoinIndex, Goto
<1>8. CASE JoinUnlock(c)
  BY <1>8 DEF JoinUnlock, Goto
<1>9. CASE JoinAnnounce(c)
  BY <1>9 DEF JoinAnnounce, Goto
<1>10. CASE JoinLog(c)
  BY <1>10 DEF JoinLog, Return, Point
<1> QED
  BY <1>1, <1>2, <1>3, <1>4, <1>5, <1>6, <1>7, <1>8, <1>9, <1>10

\* The steps that take or clear a slot: beside the tally, what is at stake is
\* that the client has exactly the slot its name and its handler stand for.
LEMMA SlotStepsKeepInv ==
  ASSUME IndInv, NEW c \in Client,
         JoinLeaveOld(c) \/ JoinEnter(c) \/ LeaveRoom(c) \/ DisconnectLeave(c)
  PROVE  IndInv'
<1> USE RoomsAssumption
    DEF IndInv, HandlerInv, ListLockInv, RoomLockInv, PointerInv, NamesInv,
        SeatInv, UniqueRoomNames, FoundInv, SeatlessInv,
        SlotsAgreeWithClients, SeatedClientKeepsRoom, WindowInv, TypeOK,
        threadVars, roomVars, Live, Matches, ListFree, RoomFree, NoSuchRoom,
        HoldsList, HoldsRoom, UsesRoom, Seatless, Joining, Leaving, Casting,
        Closing, Label
<1>1. CASE JoinLeaveOld(c)
  <2>1. /\ members' = [members EXCEPT ![ptr[c]] = @ \ {c}]
        /\ count' \in [Room -> Nat]
        /\ TallyInv'
    BY <1>1, ClearSlotKeepsTally DEF JoinLeaveOld
  <2>2. TypeOK' /\ HandlerInv'
    BY <1>1, <2>1 DEF JoinLeaveOld, Goto
  <2>3. SeatInv'
    BY <1>1, <2>1 DEF JoinLeaveOld, Goto
  <2> QED
    BY <2>1, <2>2, <2>3
<1>2. CASE LeaveRoom(c)
  <2>1. /\ members' = [members EXCEPT ![ptr[c]] = @ \ {c}]
        /\ count' \in [Room -> Nat]
        /\ TallyInv'
    BY <1>2, ClearSlotKeepsTally DEF LeaveRoom
  <2>2. TypeOK' /\ HandlerInv'
    BY <1>2, <2>1 DEF LeaveRoom, Return, Point
  <2>3. SeatInv'
    BY <1>2, <2>1 DEF LeaveRoom, Return, Point
  <2> QED
    BY <2>1, <2>2, <2>3
<1>3. CASE DisconnectLeave(c)
  <2>1. /\ members' = [members EXCEPT ![ptr[c]] = @ \ {c}]
        /\ count' \in [Room -> Nat]
        /\ TallyInv'
    BY <1>3, ClearSlotKeepsTally DEF DisconnectLeave
  <2>2. TypeOK' /\ HandlerInv'
    BY <1>3, <2>1 DEF DisconnectLeave, Point
  <2>3. SeatInv'
    BY <1>3, <2>1 DEF DisconnectLeave, Point
  <2> QED
    BY <2>1, <2>2, <2>3
<1>4. CASE JoinEnter(c)
  <2>1. TypeOK' /\ HandlerInv'
    BY <1>4 DEF JoinEnter, Goto
  <2>2. SeatInv'
    BY <1>4 DEF JoinEnter, Goto
  <2>3. c \notin members[ptr[c]] /\ ptr[c] \in Room
    BY <1>4 DEF JoinEnter
  <2>4. /\ Cardinality(members[ptr[c]] \union {c})
             = Cardinality(members[ptr[c]]) + 1
        /\ Cardinality(members[ptr[c]]) \in Nat
    BY <2>3, SlotArithmetic
  <2>5. Cardinality(members[ptr[c]]) < MaxClientsPerRoom
    BY <1>4, <2>4 DEF JoinEnter, Full
  <2>6. ASSUME NEW s \in Room
        PROVE  /\ count'[s] = Cardinality(members'[s])
               /\ Cardinality(members'[s]) <= MaxClientsPerRoom
    <3>1. CASE s = ptr[c]
      <4>1. /\ members'[s] = members[ptr[c]] \union {c}
            /\ count'[s] = count[ptr[c]] + 1
        BY <1>4, <2>3, <3>1 DEF JoinEnter
      <4> QED
        BY <2>3, <2>4, <2>5, <4>1 DEF TallyInv, CountInv
    <3>2. CASE s # ptr[c]
      <4>1. members'[s] = members[s] /\ count'[s] = count[s]
        BY <1>4, <2>3, <3>2 DEF JoinEnter
      <4> QED
        BY <4>1 DEF TallyInv, CountInv, CapacityInv
    <3> QED
      BY <3>1, <3>2
  <2> QED
    BY <2>1, <2>2, <2>6 DEF TallyInv, CountInv, CapacityInv
<1> QED
  BY <1>1, <1>2, <1>3, <1>4

\* remove_room goes on to the free only when client_count, and with it the
\* set of clients in the slots, was empty.
LEMMA RemoveCheckKeepsInv ==
  ASSUME IndInv, NEW c \in Client, RemoveCheck(c)
  PROVE  IndInv'
<1> USE RoomsAssumption
    DEF IndInv, HandlerInv, ListLockInv, RoomLockInv, PointerInv, NamesInv,
        SeatInv, UniqueRoomNames, FoundInv, SeatlessInv,
        SlotsAgreeWithClients, SeatedClientKeepsRoom, WindowInv, TypeOK,
        threadVars, roomVars, Live, Matches, ListFree, RoomFree, NoSuchRoom,
        HoldsList, HoldsRoom, UsesRoom, Seatless, Joining, Leaving, Casting,
        Closing, Label
<1> USE DEF RemoveCheck, Point
<1>1. ptr[c] \in Room /\ members[ptr[c]] \in SUBSET Client
  OBVIOUS
<1>2. Cardinality(members[ptr[c]]) = 0 <=> members[ptr[c]] = {}
  BY <1>1, SlotArithmetic
<1>3. ~(count[ptr[c]] > 0) => members[ptr[c]] = {}
  <2>1. count[ptr[c]] \in Nat /\ count[ptr[c]] = Cardinality(members[ptr[c]])
    BY <1>1 DEF TallyInv, CountInv
  <2> QED
    BY <1>2, <2>1
<1>4. TypeOK' /\ HandlerInv'
  BY SMTT(40)
<1>5. SeatInv'
  BY SMTT(40), <1>3
<1>6. TallyInv'
  BY DEF TallyInv, CountInv, CapacityInv
<1> QED
  BY <1>4, <1>5, <1>6

\* add_room: the list lock is held from the search to the insertion, so a new
\* room has a new name; its memory is not pointed to by anybody else.
LEMMA AddRoomKeepsInv ==
  ASSUME IndInv, NEW c \in Client, AddRoom(c)
  PROVE  IndInv'
<1> USE RoomsAssumption
    DEF IndInv, HandlerInv, ListLockInv, RoomLockInv, PointerInv, NamesInv,
        SeatInv, UniqueRoomNames, FoundInv, SeatlessInv,
        SlotsAgreeWithClients, SeatedClientKeepsRoom, WindowInv, TypeOK,
        threadVars, roomVars, Live, Matches, ListFree, RoomFree, NoSuchRoom,
        HoldsList, HoldsRoom, UsesRoom, Seatless, Joining, Leaving, Casting,
        Closing, Label
<1> USE DEF AddRoom, FindRoom, Return, Point, Reusable
<1>1. TypeOK'
  <2>1. /\ listed' \subseteq Room
        /\ rname' \in [Room -> Name \union {NoName}]
        /\ members' \in [Room -> SUBSET Client]
        /\ count' \in [Room -> Nat]
        /\ owner' \in [Room -> Client \union {NoClient}]
    BY SMTT(40)
  <2>2. /\ pc' \in [Client -> Label]
        /\ ptr' \in [Client -> Room \union {NoRoom}]
        /\ want' \in [Client -> Name \union {NoName}]
    BY SMTT(40)
  <2> QED
    BY <2>1, <2>2
<1>2. HandlerInv'
  OBVIOUS
<1>3. SeatInv'
  BY SMTT(40)
<1>4. Cardinality({}) = 0 /\ 0 <= MaxClientsPerRoom
  BY FS_EmptySet
<1>5. ASSUME NEW s \in Room
      PROVE  \/ members'[s] = members[s] /\ count'[s] = count[s]
             \/ members'[s] = {} /\ count'[s] = 0
  OBVIOUS
<1>6. TallyInv'
  BY <1>4, <1>5 DEF TallyInv, CountInv, CapacityInv
<1> QED
  BY <1>1, <1>2, <1>3, <1>6

\* /leave, /broadcast and the end of a connection, apart from the slots.
LEMMA OtherKeepsInv ==
  ASSUME IndInv, NEW c \in Client,
         \/ LeaveFind(c) \/ BroadcastFind(c) \/ BroadcastLock(c)
         \/ BroadcastDeliver(c) \/ BroadcastUnlock(c) \/ BroadcastConfirm(c)
         \/ DisconnectFind(c) \/ DisconnectClose(c) \/ UseAfterFree(c)
  PROVE  IndInv'
<1> USE RoomsAssumption
    DEF IndInv, HandlerInv, ListLockInv, RoomLockInv, PointerInv, NamesInv,
        SeatInv, UniqueRoomNames, FoundInv, SeatlessInv,
        SlotsAgreeWithClients, SeatedClientKeepsRoom, WindowInv, TypeOK,
        threadVars, roomVars, Live, Matches, ListFree, RoomFree, NoSuchRoom,
        HoldsList, HoldsRoom, UsesRoom, Seatless, Joining, Leaving, Casting,
        Closing, Label
<1> USE DEF TallyInv, CountInv, CapacityInv
<1>1. CASE LeaveFind(c)
  <2> USE DEF LeaveFind, FindRoom, RoomGone, Return, Point
  <2>1. TypeOK' /\ TallyInv'
    BY SMTT(40), <1>1
  <2>2. HandlerInv'
    BY <1>1
  <2>3. SeatInv'
    BY <1>1
  <2> QED
    BY <2>1, <2>2, <2>3
<1>2. CASE BroadcastFind(c)
  <2> USE DEF BroadcastFind, FindRoom, RoomGone, Return, Point
  <2>1. TypeOK' /\ TallyInv'
    BY SMTT(40), <1>2
  <2>2. HandlerInv'
    BY <1>2
  <2>3. SeatInv'
    BY <1>2
  <2> QED
    BY <2>1, <2>2, <2>3
<1>3. CASE BroadcastLock(c)
  BY <1>3 DEF BroadcastLock, Goto
<1>4. CASE BroadcastDeliver(c)
  BY <1>4 DEF BroadcastDeliver
<1>5. CASE BroadcastUnlock(c)
  BY <1>5 DEF BroadcastUnlock, Goto
<1>6. CASE BroadcastConfirm(c)
  BY <1>6 DEF BroadcastConfirm, Return, Point
<1>7. CASE DisconnectFind(c)
  <2> USE DEF DisconnectFind, FindRoom, Goto, Point
  <2>1. TypeOK' /\ TallyInv'
    BY <1>7
  <2>2. HandlerInv'
    BY SMTT(40), <1>7
  <2>3. SeatInv'
    BY SMTT(40), <1>7
  <2> QED
    BY <2>1, <2>2, <2>3
<1>8. CASE DisconnectClose(c)
  BY <1>8 DEF DisconnectClose, Goto
<1>9. CASE UseAfterFree(c)
  BY <1>9 DEF UseAfterFree
<1> QED
  BY <1>1, <1>2, <1>3, <1>4, <1>5, <1>6, <1>7, <1>8, <1>9

\* Every step of every handler keeps the invariant.
THEOREM StepInv == IndInv /\ [Next]_vars => IndInv'
<1> SUFFICES ASSUME IndInv, [Next]_vars PROVE IndInv'
  OBVIOUS
<1>1. CASE UNCHANGED vars
  BY <1>1 DEF vars, threadVars, roomVars, IndInv, HandlerInv, ListLockInv,
     RoomLockInv, PointerInv, NamesInv, SeatInv, UniqueRoomNames, FoundInv,
     SeatlessInv, SlotsAgreeWithClients, SeatedClientKeepsRoom, WindowInv,
     TallyInv, CountInv, CapacityInv, TypeOK, Live
<1>2. ASSUME NEW c \in Client, Input(c) \/ Step(c) PROVE IndInv'
  BY <1>2, InputKeepsInv, WalkKeepsInv, SlotStepsKeepInv, RemoveCheckKeepsInv,
     AddRoomKeepsInv, OtherKeepsInv DEF Step, JoinStep, OtherStep
<1> QED
  BY <1>1, <1>2 DEF Next

\* The invariant holds in every state the program reaches.
THEOREM Invariance == Spec => []IndInv
  BY InitInv, StepInv, PTL DEF Spec

-----------------------------------------------------------------------------
\* The state of the rooms and of their handlers keeps its types, client_count
\* never becoming negative among them.
THEOREM TypeCorrect == Spec => []TypeOK
  BY Invariance, PTL DEF IndInv

\* For any number of clients that join, leave, switch and disconnect at once,
\* client_count equals the number of slots in use.
THEOREM CountCorrect == Spec => []CountMatchesSlots
<1>1. IndInv => CountMatchesSlots
  BY DEF IndInv, TallyInv, CountInv, CountMatchesSlots, TypeOK
<1> QED
  BY <1>1, Invariance, PTL

\* No race of /join commands puts more than MAX_CLIENTS_PER_ROOM in a room.
THEOREM CapacityCorrect == Spec => []CapacityRespected
<1>1. IndInv => CapacityRespected
  BY DEF IndInv, TallyInv, CapacityInv, CapacityRespected, TypeOK
<1> QED
  BY <1>1, Invariance, PTL

\* There are never two live rooms of one name.
THEOREM NamesCorrect == Spec => []UniqueRoomNames
  BY Invariance, PTL DEF IndInv, SeatInv

\* No slot of a live room leads to a freed client_info_t, nor to a client
\* that believes to be in another room.
THEOREM SlotsCorrect == Spec => []SlotsAgreeWithClients
  BY Invariance, PTL DEF IndInv, SeatInv

\* A client that has got past get_room_index cannot lose its room: whatever
\* uses freed memory, it is not a member acting on its own room.
THEOREM SeatsCorrect == Spec => []SeatedClientKeepsRoom
  BY Invariance, PTL DEF IndInv, SeatInv

-----------------------------------------------------------------------------
\* Nobody enters or leaves a room while a broadcast goes through its slots:
\* the sender owns the mutex that every step which moves a slot waits for.
LEMMA FrozenStep ==
  ASSUME IndInv, [Next]_vars, NEW c \in Client, pc[c] = "bc_deliver", Live(c)
  PROVE  members'[ptr[c]] = members[ptr[c]] /\ count'[ptr[c]] = count[ptr[c]]
<1>1. ptr[c] \in Room /\ ptr[c] \in listed /\ owner[ptr[c]] = c
  BY DEF IndInv, TypeOK, HandlerInv, RoomLockInv, Live, HoldsRoom
<1>2. ~RoomFree(ptr[c])
  BY <1>1, RoomsAssumption DEF RoomFree
<1>3. ASSUME NEW d \in Client,
             JoinLeaveOld(d) \/ JoinEnter(d) \/ LeaveRoom(d) \/ DisconnectLeave(d)
      PROVE  members'[ptr[c]] = members[ptr[c]] /\ count'[ptr[c]] = count[ptr[c]]
  <2>1. ptr[d] # ptr[c]
    BY <1>2, <1>3 DEF JoinLeaveOld, JoinEnter, LeaveRoom, DisconnectLeave
  <2> QED
    BY <1>1, <1>3, <2>1 DEF JoinLeaveOld, JoinEnter, LeaveRoom,
       DisconnectLeave, ClearSlot, IndInv, TypeOK
<1>4. ASSUME NEW d \in Client, AddRoom(d)
      PROVE  members'[ptr[c]] = members[ptr[c]] /\ count'[ptr[c]] = count[ptr[c]]
  BY <1>1, <1>4 DEF AddRoom, FindRoom, Reusable, roomVars, IndInv, TypeOK
<1>5. ASSUME NEW d \in Client, Input(d) \/ Step(d),
             ~(JoinLeaveOld(d) \/ JoinEnter(d) \/ LeaveRoom(d)
                 \/ DisconnectLeave(d) \/ AddRoom(d))
      PROVE  members' = members /\ count' = count
  BY <1>5 DEF Input, Step, JoinStep, OtherStep, roomVars, FindRoom, RoomGone,
     Login, StartLeave, StartBroadcast, StartDisconnect, StartJoin,
     JoinFindOld, JoinCheckOld, RemoveSearch, RemoveCheck, RemoveFree,
     JoinFind, JoinRefused, JoinIndex, JoinUnlock, JoinAnnounce, JoinLog,
     LeaveFind, BroadcastFind, BroadcastLock, BroadcastDeliver,
     BroadcastUnlock, BroadcastConfirm, DisconnectFind, DisconnectClose,
     UseAfterFree
<1>6. CASE UNCHANGED vars
  BY <1>6 DEF vars, roomVars
<1> QED
  BY <1>3, <1>4, <1>5, <1>6 DEF Next

\* Nobody enters or leaves a room while a broadcast goes through its slots.
THEOREM FrozenCorrect == Spec => RoomFrozenByBroadcast
<1>1. IndInv /\ [Next]_vars => [BroadcastRoomsKept]_vars
  BY FrozenStep DEF BroadcastRoomsKept
<1> QED
  BY <1>1, Invariance, PTL DEF Spec, RoomFrozenByBroadcast

-----------------------------------------------------------------------------
\* The seat the refinement mapping gives a client is the room it has a slot
\* in; there is at most one.
SeatsAreSlots ==
  \A c \in Client :
    /\ \A r \in listed : c \in members[r] => Seat[c] = rname[r]
    /\ (\A r \in listed : c \notin members[r]) => Seat[c] = NoName

\* The seats of the abstract specification are the slots of the listed rooms.
LEMMA SeatIsRoom == IndInv => SeatsAreSlots
<1> SUFFICES ASSUME IndInv, NEW c \in Client
             PROVE  /\ \A r \in listed : c \in members[r] => Seat[c] = rname[r]
                    /\ (\A r \in listed : c \notin members[r]) => Seat[c] = NoName
  BY DEF SeatsAreSlots
<1>1. ASSUME NEW r \in listed, c \in members[r]
      PROVE  Seat[c] = rname[r]
  <2> DEFINE s == CHOOSE x \in listed : c \in members[x]
  <2>1. s \in listed /\ c \in members[s]
    BY <1>1
  <2>2. rname[s] = rname[r]
    BY <1>1, <2>1 DEF IndInv, SeatInv, SlotsAgreeWithClients
  <2> QED
    BY <1>1, <2>2 DEF Seat
<1> QED
  BY <1>1 DEF Seat

\* The same in the next state.
LEMMA NextSeatIsRoom == IndInv' => SeatsAreSlots'
  BY SeatIsRoom, PTL

\* A step that leaves the slots of a client in live rooms leaves its seat.
LEMMA SameSeat ==
  ASSUME IndInv, IndInv', NEW c \in Client,
         \A r \in Room : (r \in listed /\ c \in members[r])
                            <=> (r \in listed' /\ c \in members'[r]),
         \A r \in listed : c \in members[r] => rname'[r] = rname[r]
  PROVE  Seat'[c] = Seat[c]
<1>1. listed \subseteq Room /\ listed' \subseteq Room
  BY DEF IndInv, TypeOK
<1> QED
  BY <1>1, SeatIsRoom, NextSeatIsRoom DEF SeatsAreSlots

\* Entering a room takes a seat that is free, in a room that is not full.
LEMMA EnterTakesSeat ==
  ASSUME IndInv, IndInv', NEW c \in Client, JoinEnter(c)
  PROVE  Abstract!Enter(c, want[c])
<1> USE DEF IndInv, TypeOK
<1>1. /\ ptr[c] \in listed /\ rname[ptr[c]] = want[c] /\ want[c] \in Name
      /\ \A r \in Room : c \notin members[r]
  BY DEF JoinEnter, Live, HandlerInv, NamesInv, Joining, SeatInv, FoundInv,
     SeatlessInv, Seatless
<1>2. Seat[c] = NoName
  BY <1>1, SeatIsRoom DEF SeatsAreSlots
<1>3. \A d \in Client \ {c} : Seat'[d] = Seat[d]
  BY <1>1, SameSeat DEF JoinEnter
<1>4. Seat'[c] = want[c]
  <2>1. ptr[c] \in listed' /\ c \in members'[ptr[c]] /\ rname'[ptr[c]] = want[c]
    BY <1>1 DEF JoinEnter
  <2> QED
    BY <2>1, NextSeatIsRoom DEF SeatsAreSlots
<1>5. Seat' = [Seat EXCEPT ![c] = want[c]]
  BY <1>3, <1>4 DEF Seat
<1>6. Abstract!Occupants(want[c]) = members[ptr[c]]
  <2>1. ASSUME NEW d \in Client, Seat[d] = want[c]
        PROVE  d \in members[ptr[c]]
    <3>1. PICK r \in listed : d \in members[r]
      BY <1>1, <2>1, SeatIsRoom, RoomsAssumption DEF SeatsAreSlots
    <3>2. rname[r] = rname[ptr[c]]
      BY <1>1, <2>1, <3>1, SeatIsRoom DEF SeatsAreSlots
    <3> QED
      BY <1>1, <3>1, <3>2 DEF SeatInv, UniqueRoomNames
  <2>2. ASSUME NEW d \in members[ptr[c]]
        PROVE  d \in Client /\ Seat[d] = want[c]
    BY <1>1, SeatIsRoom DEF SeatsAreSlots
  <2> QED
    BY <2>1, <2>2 DEF Abstract!Occupants
<1>7. Cardinality(members[ptr[c]]) < MaxClientsPerRoom
  <2>1. Cardinality(members[ptr[c]]) \in Nat
    BY <1>1, SlotArithmetic
  <2> QED
    BY <2>1, RoomsAssumption DEF JoinEnter, Full
<1> QED
  BY <1>2, <1>5, <1>6, <1>7 DEF Abstract!Enter, Cardinality, Abstract!Cardinality

\* Clearing the slot of a client is giving up its seat, if it had one.
LEMMA ClearGivesUpSeat ==
  ASSUME IndInv, IndInv', NEW c \in Client,
         JoinLeaveOld(c) \/ LeaveRoom(c) \/ DisconnectLeave(c)
  PROVE  Abstract!Exit(c) \/ Seat' = Seat
<1> USE DEF IndInv, TypeOK
<1>1. /\ ptr[c] \in listed /\ listed' = listed /\ rname' = rname
      /\ members' = [members EXCEPT ![ptr[c]] = @ \ {c}]
  <2>1. ptr[c] \in listed /\ ClearSlot(c, ptr[c])
    BY DEF JoinLeaveOld, LeaveRoom, DisconnectLeave, Live
  <2> QED
    BY <2>1, ClearSlotKeepsTally DEF JoinLeaveOld, LeaveRoom, DisconnectLeave
<1>2. \A d \in Client \ {c} : Seat'[d] = Seat[d]
  BY <1>1, SameSeat
<1>3. CASE c \notin members[ptr[c]]
  <2>1. Seat'[c] = Seat[c]
    BY <1>1, <1>3, SameSeat
  <2> QED
    BY <1>2, <2>1 DEF Seat
<1>4. CASE c \in members[ptr[c]]
  <2>1. Seat[c] = rname[ptr[c]] /\ rname[ptr[c]] \in Name
    BY <1>1, <1>4, SeatIsRoom DEF SeatsAreSlots, HandlerInv, NamesInv
  <2>2. \A r \in listed : c \in members[r] => r = ptr[c]
    BY <1>1, <1>4 DEF SeatInv, SlotsAgreeWithClients, UniqueRoomNames
  <2>3. \A r \in listed' : c \notin members'[r]
    BY <1>1, <2>2
  <2>4. Seat'[c] = NoName
    BY <2>3, NextSeatIsRoom DEF SeatsAreSlots
  <2>5. Seat' = [Seat EXCEPT ![c] = NoName]
    BY <1>2, <2>4 DEF Seat
  <2> QED
    BY <2>1, <2>5, RoomsAssumption DEF Abstract!Exit
<1> QED
  BY <1>3, <1>4

\* Freeing a room takes the seat of at most one client, the joiner that holds
\* the room mutex and waits for the list lock.
LEMMA FreeTakesOneSeat ==
  ASSUME IndInv, IndInv', NEW c \in Client, RemoveFree(c)
  PROVE  (\E d \in Client : Abstract!Exit(d)) \/ Seat' = Seat
<1> USE DEF IndInv, TypeOK
<1>1. /\ ptr[c] \in listed /\ listed' = listed \ {ptr[c]}
      /\ rname' = rname /\ members' = members
  BY DEF RemoveFree, Live
<1>2. \A d \in members[ptr[c]] : owner[ptr[c]] = d
  <2>1. \A d \in members[ptr[c]] : pc[d] = "join_index" /\ ptr[d] = ptr[c]
    BY DEF RemoveFree, SeatInv, WindowInv
  <2> QED
    BY <1>1, <2>1 DEF HandlerInv, RoomLockInv, HoldsRoom
<1>3. \A d \in Client : d \notin members[ptr[c]] => Seat'[d] = Seat[d]
  BY <1>1, SameSeat
<1>4. CASE members[ptr[c]] = {}
  BY <1>3, <1>4 DEF Seat
<1>5. CASE members[ptr[c]] # {}
  <2>1. PICK d \in members[ptr[c]] : \A e \in members[ptr[c]] : e = d
    BY <1>2, <1>5
  <2>2. d \in Client
    BY <1>1
  <2>3. Seat[d] = rname[ptr[c]] /\ rname[ptr[c]] \in Name
    BY <1>1, <2>2, SeatIsRoom DEF SeatsAreSlots, HandlerInv, NamesInv
  <2>4. \A r \in listed' : d \notin members'[r]
    BY <1>1, <2>1 DEF SeatInv, SlotsAgreeWithClients, UniqueRoomNames
  <2>5. Seat'[d] = NoName
    BY <2>2, <2>4, NextSeatIsRoom DEF SeatsAreSlots
  <2>6. Seat' = [Seat EXCEPT ![d] = NoName]
    BY <1>3, <2>1, <2>5 DEF Seat
  <2> QED
    BY ZenonT(60), <2>2, <2>3, <2>6, RoomsAssumption DEF Abstract!Exit
<1> QED
  BY <1>4, <1>5

\* Every other step keeps all the seats.
LEMMA OtherStepsKeepSeats ==
  ASSUME IndInv, IndInv', NEW c \in Client, Input(c) \/ Step(c),
         ~(JoinEnter(c) \/ JoinLeaveOld(c) \/ LeaveRoom(c)
             \/ DisconnectLeave(c) \/ RemoveFree(c))
  PROVE  Seat' = Seat
<1>1. CASE AddRoom(c)
  <2>1. ASSUME NEW r \in Room
        PROVE  /\ r \in listed => /\ r \in listed' /\ members'[r] = members[r]
                                  /\ rname'[r] = rname[r]
               /\ r \in listed' /\ r \notin listed => members'[r] = {}
    BY <1>1 DEF AddRoom, FindRoom, Reusable, roomVars, IndInv, TypeOK
  <2>2. \A d \in Client : Seat'[d] = Seat[d]
    BY <2>1, SameSeat DEF IndInv, TypeOK
  <2> QED
    BY <2>2 DEF Seat
<1>2. CASE ~AddRoom(c)
  <2>1. listed' = listed /\ members' = members /\ rname' = rname
    BY <1>2 DEF Input, Step, JoinStep, OtherStep, roomVars, FindRoom, RoomGone,
       Login, StartLeave, StartBroadcast, StartDisconnect, StartJoin,
       JoinFindOld, JoinCheckOld, RemoveSearch, RemoveCheck, JoinFind,
       JoinRefused, JoinIndex, JoinUnlock, JoinAnnounce, JoinLog,
       LeaveFind, BroadcastFind, BroadcastLock, BroadcastDeliver,
       BroadcastUnlock, BroadcastConfirm, DisconnectFind, DisconnectClose,
       UseAfterFree
  <2> QED
    BY <2>1 DEF Seat
<1> QED
  BY <1>1, <1>2

\* Unless two handlers are in the lock cycle, one that is under way waits for no
\* mutex: the holder of the list lock, or of a room mutex, is one that goes on.
THEOREM CycleOnlyCorrect == Spec => []OnlyLockCycleBlocks
<1>1. IndInv => OnlyLockCycleBlocks
  <2> SUFFICES ASSUME IndInv, NEW b \in Client, Busy(b), ~LockCycle
               PROVE  \E c \in Client : Busy(c) /\ ~Waits(c)
    BY DEF OnlyLockCycleBlocks
  <2> USE DEF NeedsList, NeedsRoom, HoldsList, HoldsRoom, Busy, ListFree, RoomFree
  <2>1. TypeOK /\ ListLockInv /\ RoomLockInv /\ WindowInv
    BY DEF IndInv, HandlerInv, SeatInv
  <2>2. ASSUME NEW c \in Client, pc[c] \in NeedsRoom, Live(c), ~RoomFree(ptr[c]),
               pc[c] = "rm_check" \/ ListFree
        PROVE  \E d \in Client : Busy(d) /\ ~Waits(d)
    <3> DEFINE d == owner[ptr[c]]
    <3>1. ptr[c] \in Room
      BY <2>1, <2>2 DEF Live, TypeOK
    <3>2. d \in Client
      BY <2>1, <2>2, <3>1 DEF TypeOK
    <3>3. pc[d] \in HoldsRoom /\ ptr[d] = ptr[c]
      BY <2>1, <3>1, <3>2 DEF RoomLockInv
    <3>4. pc[d] = "join_index" => ListFree
      BY <2>2, <3>2 DEF LockCycle
    <3>5. Busy(d) /\ ~Waits(d)
      BY <3>3, <3>4 DEF Waits
    <3> QED BY <3>2, <3>5
  <2>3. CASE ~ListFree
    <3>1. listLock \in Client /\ pc[listLock] \in HoldsList
      BY <2>1, <2>3 DEF TypeOK, ListLockInv
    <3>2. CASE Waits(listLock)
      <4>1. pc[listLock] = "rm_check" /\ Live(listLock) /\ ~RoomFree(ptr[listLock])
        BY <3>1, <3>2 DEF Waits
      <4> QED BY <2>2, <3>1, <4>1
    <3>3. CASE ~Waits(listLock)
      BY <3>1, <3>3
    <3> QED BY <3>2, <3>3
  <2>4. CASE ListFree
    <3>1. CASE Waits(b)
      <4>1. pc[b] \in NeedsRoom /\ Live(b) /\ ~RoomFree(ptr[b])
        BY <2>4, <3>1 DEF Waits
      <4> QED BY <2>2, <2>4, <4>1
    <3>2. CASE ~Waits(b)
      BY <3>2
    <3> QED BY <3>1, <3>2
  <2> QED BY <2>3, <2>4
<1> QED
  BY <1>1, Invariance, PTL

\* The handlers with their locks and pointers implement ChatRooms: whatever
\* they do is, for the clients, taking one free seat or giving one up.
THEOREM Refinement == Spec => ImplementsChatRooms
<1>1. Init => Abstract!Init
  BY DEF Init, Abstract!Init, Seat
<1>2. IndInv /\ IndInv' /\ [Next]_vars => [Abstract!Next]_Seat
  <2> SUFFICES ASSUME IndInv, IndInv', [Next]_vars
               PROVE  Abstract!Next \/ Seat' = Seat
    OBVIOUS
  <2>1. CASE UNCHANGED vars
    BY <2>1 DEF vars, roomVars, Seat
  <2>2. ASSUME NEW c \in Client, JoinEnter(c)
        PROVE  Abstract!Next
    <3>1. want[c] \in Name
      BY <2>2 DEF JoinEnter, IndInv, HandlerInv, NamesInv, Joining
    <3> QED
      BY <2>2, <3>1, EnterTakesSeat DEF Abstract!Next
  <2>3. ASSUME NEW c \in Client, Input(c) \/ Step(c)
        PROVE  Abstract!Next \/ Seat' = Seat
    BY <2>2, <2>3, ClearGivesUpSeat, FreeTakesOneSeat, OtherStepsKeepSeats
       DEF Abstract!Next
  <2> QED
    BY <2>1, <2>3 DEF Next
<1> QED
  BY <1>1, <1>2, Invariance, PTL DEF Spec, ImplementsChatRooms, Abstract!Spec
=============================================================================
