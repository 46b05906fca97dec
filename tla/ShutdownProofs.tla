--------------------------- MODULE ShutdownProofs ---------------------------
(***************************************************************************)
(* Proofs of the safety invariants of Shutdown, for any number of          *)
(* connections and any length of the wait.                                 *)
(*                                                                         *)
(* Two things have to be known of every state: which record the main       *)
(* thread and the interrupt handler share (RecordInv), and whom the walk   *)
(* through the client list has still to tell (NoticeInv).                  *)
(***************************************************************************)
EXTENDS Shutdown, TLAPS

\* Between malloc and pthread_create, or the free after an error.
Making   == {"publish", "accept", "accepted", "create", "failed", "drop", "free"}
Shared   == {"created", "clear"}
SigEarly == {"off", "log", "lock", "pending"}
SigWaits == {"off", "log", "lock", "pending", "count", "notify", "tell", "wait"}

\* Nobody is half told while the list is not locked, and time is left as long
\* as the wait goes on.
WalkInv ==
  /\ sig \notin {"tell", "blocked"} => untold = {}
  /\ sig \in SigWaits => seconds < WaitSeconds

\* The record being made is the main thread's alone, until a handler thread has
\* it; current_thread_data is that record or none.  A handler thread misses its
\* record only when main was interrupted before it had cleared the pointer.
RecordInv ==
  /\ current \in {NoConn, conn}
  /\ main \in {"alloc", "publish", "free"} => current = NoConn
  /\ main \in Making => conn \in Conn /\ handler[conn] = "none"
  /\ main \in Making /\ sig \in SigEarly => conn \in pending
  /\ main \notin Making /\ conn \in pending => handler[conn] = "setup"
  /\ \A c \in Conn : handler[c] = "setup" /\ c \notin pending
                       => Interrupted /\ main \in Shared

\* Everybody counted is told or will be.
NoticeInv ==
  sig \in {"tell", "blocked", "wait", "free"} => listed \ late \subseteq told \union untold

IndInv ==
  /\ TypeOK /\ WalkInv /\ RecordInv /\ NoticeInv
  /\ RecordHasOwner /\ RecordFreedOnce /\ EntriesFreedLate

\* The invariant holds when the accept loop begins.
LEMMA InitIndInv == Init => IndInv
PROOF
<1> SUFFICES ASSUME Init PROVE IndInv
  OBVIOUS
<1> USE ShutdownAssumption DEF Init
<1>1. TypeOK
  <2>1. seconds \in 0 .. WaitSeconds
    OBVIOUS
  <2> QED BY <2>1 DEF TypeOK, MainPlaces, HandlerPlaces, SigPlaces
<1>2. WalkInv
  BY DEF WalkInv, SigWaits
<1>3. RecordInv
  BY DEF RecordInv, Making, Shared
<1>4. NoticeInv /\ RecordHasOwner /\ RecordFreedOnce /\ EntriesFreedLate
  BY DEF NoticeInv, RecordHasOwner, RecordFreedOnce, EntriesFreedLate
<1> QED BY <1>1, <1>2, <1>3, <1>4 DEF IndInv

-----------------------------------------------------------------------------
(***************************************************************************)
(* Types, and the walk through the list.                                   *)
(***************************************************************************)
LEMMA MainTypes == TypeOK /\ WalkInv /\ MainStep => TypeOK' /\ WalkInv'
PROOF
<1> SUFFICES ASSUME TypeOK, WalkInv, MainStep PROVE TypeOK' /\ WalkInv'
  OBVIOUS
<1> USE DEF TypeOK, MainPlaces, HandlerPlaces, MainAt
<1>1. UNCHANGED <<closing, fault>>
  BY DEF MainStep, Alloc, LockThread, Publish, Clear, Drop, SetCurrent, Accept,
         AcceptFails, Create, CreateFails, Advance, MainTakesLog, MainLogs, FreeRecord
<1>2. WalkInv'
  BY <1>1 DEF WalkInv, closing
<1> SUFFICES TypeOK'
  BY <1>2
<1>3. CASE Alloc
  BY <1>1, <1>3 DEF Alloc, threads, closing
<1>4. CASE LockThread
  BY <1>1, <1>4 DEF LockThread, threads, closing
<1>5. CASE Publish \/ Clear \/ Drop
  BY <1>1, <1>5 DEF Publish, Clear, Drop, SetCurrent, threads, closing
<1>6. CASE Accept \/ AcceptFails \/ CreateFails
  BY <1>1, <1>6 DEF Accept, AcceptFails, CreateFails, Advance, threads, closing
<1>7. CASE Create
  <2>1. handler' \in [Conn -> HandlerPlaces]
    <3>1. CASE conn \in Conn
      BY <1>7, <3>1 DEF Create
    <3>2. CASE conn \notin Conn
      BY <1>7, <3>2 DEF Create
    <3> QED BY <3>1, <3>2
  <2> QED BY <1>1, <1>7, <2>1 DEF Create, closing
<1>8. CASE MainTakesLog \/ MainLogs
  BY <1>1, <1>8 DEF MainTakesLog, MainLogs, loop, threads, closing
<1>9. CASE FreeRecord
  BY <1>1, <1>9 DEF FreeRecord, threads, closing
<1> QED BY <1>3, <1>4, <1>5, <1>6, <1>7, <1>8, <1>9 DEF MainStep

\* Steps of handler threads keep the types and leave the interrupt handler
\* where it is.
LEMMA HandlerTypes ==
  ASSUME TypeOK, WalkInv, NEW c \in Conn, HandlerStep(c)
  PROVE  TypeOK' /\ WalkInv'
PROOF
<1> USE DEF TypeOK, HandlerPlaces, HandlerAt, Move, Fault
<1>1. UNCHANGED <<sig, untold, seconds, listLock, roomsFreed, running>>
  BY DEF HandlerStep, Setup, LogIn, LoginFails, Begin, End, Leave, RemoveClient,
         TakeLog, Log, Wedge, closing
<1>2. WalkInv'
  BY <1>1 DEF WalkInv
<1> SUFFICES TypeOK'
  BY <1>2
<1>3. CASE Setup(c)
  BY <1>1, <1>3 DEF Setup, loop, threads, closing
<1>4. CASE LogIn(c)
  BY <1>1, <1>4 DEF LogIn, loop, closing
<1>5. CASE LoginFails(c)
  BY <1>1, <1>5 DEF LoginFails, loop, closing
<1>6. CASE Begin(c)
  BY <1>1, <1>6 DEF Begin, loop, closing
<1>7. ASSUME NEW d \in Conn, Wedge(c, d) PROVE TypeOK'
  BY <1>1, <1>7 DEF Wedge, loop, closing
<1>8. CASE End(c)
  BY <1>1, <1>8 DEF End, loop, threads, closing
<1>9. CASE Leave(c)
  BY <1>1, <1>9 DEF Leave, loop, closing
<1>10. CASE RemoveClient(c)
  <2>1. untold = {}
    BY <1>10 DEF RemoveClient, ListFree, WalkInv
  <2> QED BY <1>1, <1>10, <2>1 DEF RemoveClient, loop
<1>11. CASE TakeLog(c) \/ Log(c)
  BY <1>1, <1>11 DEF TakeLog, Log, loop, threads, closing
<1> QED BY <1>3, <1>4, <1>5, <1>6, <1>7, <1>8, <1>9, <1>10, <1>11 DEF HandlerStep

\* Steps of the interrupt handler keep the types.
LEMMA SigTypes ==
  ASSUME TypeOK, WalkInv, Interrupt \/ SigStep
  PROVE  TypeOK' /\ WalkInv'
PROOF
<1> USE DEF TypeOK, SigPlaces, WalkInv, SigWaits, SigAt
<1>1. CASE Interrupt
  BY <1>1 DEF Interrupt, loop, threads
<1>2. CASE SigLogs
  BY <1>2 DEF SigLogs, SigTo, loop, threads
<1>3. CASE SigLocks
  BY <1>3 DEF SigLocks, threads
<1>4. CASE DropPending
  BY <1>4 DEF DropPending, threads
<1>5. CASE Count
  BY <1>5 DEF Count, SigTo, loop, threads
<1>6. CASE LockList
  BY <1>6 DEF LockList, loop, threads
<1>7. CASE Tell
  BY <1>7 DEF Tell, loop, threads
<1>8. CASE UnlockList
  BY <1>8 DEF UnlockList, loop, threads
<1>9. CASE Wait
  BY <1>9, ShutdownAssumption DEF Wait, loop, threads
<1>10. CASE FreeClients
  BY <1>10 DEF FreeClients, loop
<1>11. CASE FreeRooms
  BY <1>11 DEF FreeRooms, loop, threads
<1>12. CASE CloseLog \/ Exit
  BY <1>12 DEF CloseLog, Exit, SigTo, loop, threads
<1> QED BY <1>1, <1>2, <1>3, <1>4, <1>5, <1>6, <1>7, <1>8, <1>9, <1>10, <1>11,
           <1>12 DEF SigStep

-----------------------------------------------------------------------------
(***************************************************************************)
(* The record of a connection in the making.                               *)
(***************************************************************************)
Records == RecordInv /\ RecordHasOwner /\ RecordFreedOnce

\* A step that does not touch the records nor who has them.
LEMMA RecordsKept ==
  ASSUME TypeOK, Records, UNCHANGED <<main, conn, current, pending, sig>>,
         \A c \in Conn : handler'[c] = "setup" <=> handler[c] = "setup",
         \A c \in Conn : handler[c] = "none" => handler'[c] = "none",
         fault' = "record" => fault = "record"
  PROVE  Records'
PROOF
<1>1. RecordInv'
  BY DEF TypeOK, Records, RecordInv, Interrupted
<1>2. RecordHasOwner'
  BY DEF Records, RecordHasOwner
<1>3. RecordFreedOnce'
  BY DEF Records, RecordFreedOnce, Interrupted
<1> QED BY <1>1, <1>2, <1>3 DEF Records

\* The accept loop makes, hands over and frees one record at a time.
LEMMA MainRecords == TypeOK /\ Records /\ MainStep => Records'
PROOF
<1> SUFFICES ASSUME TypeOK, Records, MainStep PROVE Records'
  OBVIOUS
<1>1. sig = "off" /\ sig' = "off" /\ fault' = fault
  BY DEF MainStep, Alloc, LockThread, Publish, Clear, Drop, SetCurrent, Accept,
         AcceptFails, Create, CreateFails, Advance, MainTakesLog, MainLogs, FreeRecord,
         MainAt, Interrupted, closing
<1>2. RecordFreedOnce'
  BY <1>1 DEF Records, RecordFreedOnce, Interrupted
<1> USE DEF Records, RecordInv, RecordHasOwner, MainAt, Interrupted, Making, Shared,
            SigEarly
<1>3. CASE Alloc
  <2> PICK c \in Conn \ pending : handler[c] = "none" /\ conn' = c
                                  /\ pending' = pending \union {c}
    BY <1>3 DEF Alloc
  <2>1. main = "alloc" /\ main' = "publish" /\ current' = current /\ handler' = handler
    BY <1>3 DEF Alloc, threads
  <2>2. RecordInv'
    BY <1>1, <2>1
  <2>3. RecordHasOwner'
    BY <2>1 DEF TypeOK
  <2> QED BY <1>2, <2>2, <2>3
<1>4. CASE LockThread \/ MainTakesLog
  BY <1>1, <1>4, RecordsKept DEF LockThread, MainTakesLog, loop, threads
<1>5. CASE Publish
  BY <1>1, <1>2, <1>5 DEF Publish, SetCurrent, threads
<1>6. CASE Clear
  BY <1>1, <1>2, <1>6 DEF Clear, SetCurrent, threads
<1>7. CASE Drop
  BY <1>1, <1>2, <1>7 DEF Drop, SetCurrent, threads
<1>8. CASE Accept \/ AcceptFails \/ CreateFails
  BY <1>1, <1>2, <1>8 DEF Accept, AcceptFails, CreateFails, Advance, threads
<1>9. CASE Create
  <2>1. /\ main = "create" /\ main' = "created" /\ UNCHANGED <<conn, current, pending>>
        /\ handler' = [handler EXCEPT ![conn] = "setup"]
    BY <1>9 DEF Create
  <2>2. conn \in Conn /\ conn \in pending /\ handler'[conn] = "setup"
        /\ \A c \in Conn \ {conn} : handler'[c] = handler[c]
    BY <1>1, <2>1 DEF TypeOK
  <2>3. RecordInv'
    BY <1>1, <2>1, <2>2
  <2>4. RecordHasOwner'
    BY <2>1, <2>2
  <2> QED BY <1>2, <2>3, <2>4
<1>10. CASE MainLogs
  BY <1>1, <1>2, <1>10 DEF MainLogs, threads
<1>11. CASE FreeRecord
  BY <1>1, <1>2, <1>11 DEF FreeRecord, threads
<1> QED BY <1>3, <1>4, <1>5, <1>6, <1>7, <1>8, <1>9, <1>10, <1>11 DEF MainStep

\* A handler thread frees the record it was given, once.
LEMMA HandlerRecords ==
  ASSUME TypeOK, Records, NEW c \in Conn, HandlerStep(c)
  PROVE  Records'
PROOF
<1> USE DEF HandlerAt, Move, Fault, TypeOK
<1>1. CASE Setup(c)
  <2>1. UNCHANGED <<main, conn, current, sig>> /\ handler[c] = "setup"
    BY <1>1 DEF Setup, loop, closing
  <2>2. CASE c \in pending
    <3>1. /\ pending' = pending \ {c} /\ fault' = fault
          /\ handler' = [handler EXCEPT ![c] = "login"]
      BY <1>1, <2>2 DEF Setup
    <3>2. RecordInv'
      BY <2>1, <2>2, <3>1 DEF Records, RecordInv, Interrupted, Making
    <3>3. RecordHasOwner'
      BY <2>1, <3>1 DEF Records, RecordHasOwner
    <3>4. RecordFreedOnce'
      BY <2>1, <3>1 DEF Records, RecordFreedOnce, Interrupted
    <3> QED BY <3>2, <3>3, <3>4 DEF Records
  <2>3. CASE c \notin pending
    <3>1. UNCHANGED <<pending, handler>> /\ Interrupted /\ main \in Shared
      BY <1>1, <2>1, <2>3 DEF Setup, threads, Records, RecordInv
    <3>2. RecordInv' /\ RecordHasOwner'
      BY <2>1, <3>1 DEF Records, RecordInv, RecordHasOwner, Interrupted
    <3>3. RecordFreedOnce'
      BY <2>1, <3>1 DEF RecordFreedOnce, Interrupted, Shared
    <3> QED BY <3>2, <3>3 DEF Records
  <2> QED BY <2>2, <2>3
<1>2. CASE LogIn(c) \/ LoginFails(c) \/ Begin(c) \/ Leave(c) \/ RemoveClient(c)
  <2>1. UNCHANGED <<main, conn, current, pending, sig, fault>>
    BY <1>2 DEF LogIn, LoginFails, Begin, Leave, RemoveClient, loop, closing
  <2>2. /\ handler[c] \notin {"none", "setup"}
        /\ \E l \in HandlerPlaces \ {"setup"} : handler' = [handler EXCEPT ![c] = l]
    BY <1>2 DEF LogIn, LoginFails, Begin, Leave, RemoveClient, HandlerPlaces
  <2> QED BY <2>1, <2>2, RecordsKept
<1>3. ASSUME NEW d \in Conn, Wedge(c, d) PROVE Records'
  <2>1. UNCHANGED <<main, conn, current, pending, sig, fault>>
    BY <1>3 DEF Wedge, loop, closing
  <2>2. /\ handler[c] = "command" /\ handler[d] = "command"
        /\ handler' = [handler EXCEPT ![c] = "wedged", ![d] = "wedged"]
    BY <1>3 DEF Wedge
  <2> QED BY <2>1, <2>2, RecordsKept
<1>4. CASE End(c)
  <2>1. UNCHANGED <<main, conn, current, pending, sig>> /\ fault' \in {fault, "entry"}
    BY <1>4 DEF End, loop, closing
  <2>2. /\ handler[c] \in {"command", "closing"}
        /\ handler' \in {handler, [handler EXCEPT ![c] = "loop"],
                         [handler EXCEPT ![c] = "removing"]}
    BY <1>4 DEF End, threads
  <2> QED BY <2>1, <2>2, RecordsKept
<1>5. CASE TakeLog(c) \/ Log(c)
  BY <1>5, RecordsKept DEF TakeLog, Log, loop, threads, closing
<1> QED BY <1>1, <1>2, <1>3, <1>4, <1>5 DEF HandlerStep

\* The interrupt handler frees a record only when current_thread_data names
\* one.
LEMMA SigRecords ==
  ASSUME TypeOK, Records, Interrupt \/ SigStep
  PROVE  Records'
PROOF
<1> USE DEF SigAt
<1>1. CASE DropPending
  <2>1. /\ sig = "pending" /\ sig' \in {"pending", "count"} /\ current' = NoConn
        /\ pending' = pending \ {current} /\ UNCHANGED <<main, conn, handler>>
        /\ current \in pending \union {NoConn} => sig' = "count" /\ fault' = fault
    BY <1>1 DEF DropPending, threads
  <2>2. RecordInv'
    <3>1. main \in Making => sig' = "count"
      BY <2>1 DEF Records, RecordInv, SigEarly
    <3>2. \A c \in Conn : handler'[c] = "setup" /\ c \notin pending'
                            => Interrupted' /\ main' \in Shared
      <4> SUFFICES ASSUME NEW c \in Conn, handler[c] = "setup", c \notin pending'
                   PROVE  main \in Shared
        BY <2>1 DEF Interrupted
      <4>1. CASE c \notin pending
        BY <4>1 DEF Records, RecordInv
      <4>2. CASE c \in pending
        <5>1. c = current /\ current # NoConn
          BY <2>1, <4>2, ShutdownAssumption
        <5>2. main \notin {"alloc"} \union Making
          BY <5>1 DEF Records, RecordInv
        <5> QED BY <5>2 DEF TypeOK, MainPlaces, Making, Shared
      <4> QED BY <4>1, <4>2
    <3>3. main' \notin Making /\ conn' \in pending' => handler'[conn'] = "setup"
      BY <2>1 DEF Records, RecordInv
    <3> QED BY <2>1, <3>1, <3>2, <3>3 DEF Records, RecordInv, SigEarly
  <2>3. RecordHasOwner'
    BY <2>1 DEF Records, RecordHasOwner
  <2>4. RecordFreedOnce'
    <3>1. CASE current \in pending \union {NoConn}
      BY <2>1, <3>1 DEF Records, RecordFreedOnce, Interrupted
    <3>2. CASE current \notin pending \union {NoConn}
      <4>1. current = conn /\ main \notin Making /\ main # "alloc"
        BY <2>1, <3>2 DEF Records, RecordInv, SigEarly
      <4>2. main \in Shared
        BY <4>1 DEF TypeOK, MainPlaces, Making, Shared
      <4> QED BY <2>1, <4>2 DEF RecordFreedOnce, Interrupted, Shared
    <3> QED BY <3>1, <3>2
  <2> QED BY <2>2, <2>3, <2>4 DEF Records
<1>2. CASE Interrupt \/ (SigStep /\ ~DropPending)
  <2>1. UNCHANGED <<main, conn, current, pending, handler, fault>>
    BY <1>2 DEF Interrupt, SigStep, SigLogs, SigLocks, Count, LockList, Tell,
                UnlockList, Wait, FreeClients, FreeRooms, CloseLog, Exit, SigTo,
                loop, threads
  <2>2. Interrupted' /\ (sig' \in SigEarly => sig \in SigEarly)
    BY <1>2 DEF Interrupt, SigStep, SigLogs, SigLocks, Count, LockList, Tell,
                UnlockList, Wait, FreeClients, FreeRooms, CloseLog, Exit, SigTo,
                Interrupted, SigEarly
  <2> QED BY <2>1, <2>2 DEF Records, RecordInv, RecordHasOwner, RecordFreedOnce
<1> QED BY <1>1, <1>2

-----------------------------------------------------------------------------
(***************************************************************************)
(* Who is told, and what is freed under whom.                              *)
(***************************************************************************)
Notices == NoticeInv /\ EntriesFreedLate

\* A client that logs in late is counted as late; one that leaves need not be
\* told.
LEMMA HandlerNotices ==
  ASSUME TypeOK, WalkInv, Notices, NEW c \in Conn, HandlerStep(c)
  PROVE  Notices'
PROOF
<1> USE DEF Notices, NoticeInv, EntriesFreedLate
<1>1. UNCHANGED <<sig, untold, seconds>>
  BY DEF HandlerStep, Setup, LogIn, LoginFails, Begin, End, Leave, RemoveClient,
         TakeLog, Log, Wedge, Move, Fault, closing
<1>2. CASE LogIn(c)
  BY <1>1, <1>2 DEF LogIn, HandlerAt, ListFree, TypeOK, closing
<1>3. CASE RemoveClient(c)
  BY <1>1, <1>3 DEF RemoveClient, HandlerAt, ListFree, TypeOK, WalkInv
<1>4. ASSUME UNCHANGED <<listed, late, told>> PROVE Notices'
  BY <1>1, <1>4
<1>5. CASE HandlerStep(c) /\ ~LogIn(c) /\ ~RemoveClient(c)
  BY <1>4, <1>5 DEF HandlerStep, Setup, LoginFails, Begin, End, Leave, TakeLog,
                    Log, Wedge, Move, Fault, threads, closing
<1> QED BY <1>2, <1>3, <1>5

\* Between the count and the end of the loop each client is told or still to be
\* told.
LEMMA SigNotices ==
  ASSUME TypeOK, WalkInv, Notices, Interrupt \/ SigStep
  PROVE  Notices'
PROOF
<1> USE DEF Notices, NoticeInv, EntriesFreedLate, SigAt
<1>1. CASE Interrupt \/ SigLogs \/ SigLocks \/ DropPending
  BY <1>1 DEF Interrupt, SigLogs, SigLocks, DropPending, SigTo
<1>2. CASE Count
  BY <1>2 DEF Count, SigTo, threads
<1>3. CASE LockList
  BY <1>3 DEF LockList, threads
<1>4. CASE Tell
  BY <1>4 DEF Tell, threads
<1>5. CASE UnlockList
  BY <1>5 DEF UnlockList, threads
<1>6. CASE Wait
  BY <1>6 DEF Wait, threads, WalkInv
<1>7. CASE FreeClients \/ FreeRooms \/ CloseLog \/ Exit
  BY <1>7 DEF FreeClients, FreeRooms, CloseLog, Exit, SigTo
<1> QED BY <1>1, <1>2, <1>3, <1>4, <1>5, <1>6, <1>7 DEF SigStep

-----------------------------------------------------------------------------
\* Every step of every thread keeps the invariant.
LEMMA NextIndInv == IndInv /\ [Next]_vars => IndInv'
PROOF
<1> SUFFICES ASSUME IndInv, [Next]_vars PROVE IndInv'
  OBVIOUS
<1>1. TypeOK /\ WalkInv /\ Records /\ Notices
  BY DEF IndInv, Records, Notices
<1>2. ASSUME TypeOK', WalkInv', Records', Notices' PROVE IndInv'
  BY <1>2 DEF IndInv, Records, Notices
<1>3. CASE MainStep
  <2>1. UNCHANGED <<closing, listed, late>>
    BY <1>3 DEF MainStep, Alloc, LockThread, Publish, Clear, Drop, SetCurrent,
                Accept, AcceptFails, Create, CreateFails, Advance, MainTakesLog,
                MainLogs, FreeRecord, threads
  <2>2. Notices'
    BY <1>1, <2>1 DEF Notices, NoticeInv, EntriesFreedLate, closing
  <2> QED BY <1>1, <1>2, <1>3, <2>2, MainTypes, MainRecords
<1>4. ASSUME NEW c \in Conn, HandlerStep(c) PROVE IndInv'
  BY <1>1, <1>2, <1>4, HandlerTypes, HandlerRecords, HandlerNotices
<1>5. CASE Interrupt \/ SigStep
  BY <1>1, <1>2, <1>5, SigTypes, SigRecords, SigNotices
<1>6. CASE UNCHANGED vars
  <2> USE <1>6 DEF vars, loop, threads, closing
  <2>1. TypeOK' /\ WalkInv'
    BY <1>1 DEF TypeOK, WalkInv
  <2>2. Records'
    BY <1>1, RecordsKept
  <2>3. Notices'
    BY <1>1 DEF Notices, NoticeInv, EntriesFreedLate
  <2> QED BY <1>2, <2>1, <2>2, <2>3
<1> QED BY <1>3, <1>4, <1>5, <1>6 DEF Next

\* The invariant holds in every state the program reaches, before and after
\* the interrupt.
THEOREM ShutdownInvariance == Spec => []IndInv
PROOF
<1>1. Init => IndInv
  BY InitIndInv
<1>2. IndInv /\ [Next]_vars => IndInv'
  BY NextIndInv
<1> QED BY <1>1, <1>2, PTL DEF Spec

\* The wait is one of at most wait_seconds seconds, and whoever the server has
\* told or still has to tell is in the client list.
THEOREM ShutdownTypeCorrect == Spec => []TypeOK
PROOF
<1>1. IndInv => TypeOK
  BY DEF IndInv
<1> QED BY <1>1, ShutdownInvariance, PTL

\* Every client_thread_data_t that is allocated has one owner who will free it.
THEOREM RecordOwned == Spec => []RecordHasOwner
PROOF
<1>1. IndInv => RecordHasOwner
  BY DEF IndInv
<1> QED BY <1>1, ShutdownInvariance, PTL

\* A record is freed twice only if the signal came between pthread_create and
\* the clearing of current_thread_data.
THEOREM RecordFreedOnceCorrect == Spec => []RecordFreedOnce
PROOF
<1>1. IndInv => RecordFreedOnce
  BY DEF IndInv
<1> QED BY <1>1, ShutdownInvariance, PTL

\* The server waits only for clients that have been told, whoever logs in or
\* leaves while it tells them.
THEOREM EverybodyTold == Spec => []ListedAreTold
PROOF
<1>1. IndInv => ListedAreTold
  BY DEF IndInv, NoticeInv, WalkInv, ListedAreTold
<1> QED BY <1>1, ShutdownInvariance, PTL

\* The list is freed when it holds nobody who was counted, or after the whole
\* wait.
THEOREM EntriesFreedLateCorrect == Spec => []EntriesFreedLate
PROOF
<1>1. IndInv => EntriesFreedLate
  BY DEF IndInv
<1> QED BY <1>1, ShutdownInvariance, PTL

-----------------------------------------------------------------------------
(***************************************************************************)
(* The way the interrupt handler goes.                                     *)
(***************************************************************************)
\* The other threads leave it where it is, and the list it walks through.
LEMMA OthersWait ==
  ASSUME TypeOK, WalkInv, MainStep \/ \E c \in Conn : HandlerStep(c)
  PROVE  UNCHANGED <<sig, untold, seconds>>
PROOF
<1>1. CASE MainStep
  BY <1>1 DEF MainStep, Alloc, LockThread, Publish, Clear, Drop, SetCurrent, Accept,
              AcceptFails, Create, CreateFails, Advance, MainTakesLog, MainLogs,
              FreeRecord, closing
<1>2. ASSUME NEW c \in Conn, HandlerStep(c) PROVE UNCHANGED <<sig, untold, seconds>>
  BY <1>2 DEF HandlerStep, Setup, LogIn, LoginFails, Begin, End, Leave, RemoveClient,
              TakeLog, Log, Wedge, Move, Fault, closing
<1> QED BY <1>1, <1>2

\* A step of the interrupt handler, unless it has used freed memory.
LEMMA SigAdvances ==
  ASSUME TypeOK, WalkInv, Interrupt \/ SigStep
  PROVE  Advances \/ UNCHANGED <<sig, untold, seconds>>
PROOF
<1> USE DEF SigAt, Advances, Stage
<1>1. CASE Interrupt \/ SigLogs \/ SigLocks
  BY <1>1 DEF Interrupt, SigLogs, SigLocks, SigTo
<1>2. CASE DropPending
  BY <1>2 DEF DropPending
<1>3. CASE Count \/ LockList
  BY <1>3 DEF Count, LockList, SigTo
<1>4. CASE Tell
  BY <1>4 DEF Tell
<1>5. CASE UnlockList
  BY <1>5 DEF UnlockList
<1>6. CASE Wait
  <2>1. seconds \in Nat /\ seconds < WaitSeconds
    BY <1>6, ShutdownAssumption DEF Wait, TypeOK, WalkInv, SigWaits
  <2> QED BY <1>6, <2>1, ShutdownAssumption DEF Wait
<1>7. CASE FreeClients \/ FreeRooms \/ CloseLog \/ Exit
  BY <1>7 DEF FreeClients, FreeRooms, CloseLog, Exit, SigTo
<1> QED BY <1>1, <1>2, <1>3, <1>4, <1>5, <1>6, <1>7 DEF SigStep

\* The interrupt handler comes to its end after at most as many steps as there
\* are stages, clients in the list when it is locked and seconds to wait, if it
\* is not kept from them: nobody can make it begin again (server_helper.c:23-108).
THEOREM HandlerAdvances == Spec => InterruptHandlerAdvances
PROOF
<1>1. IndInv /\ [Next]_vars => [Advances]_<<sig, untold, seconds>>
  <2> SUFFICES ASSUME IndInv, [Next]_vars
               PROVE  Advances \/ UNCHANGED <<sig, untold, seconds>>
    OBVIOUS
  <2>1. CASE MainStep \/ \E c \in Conn : HandlerStep(c)
    BY <2>1, OthersWait DEF IndInv
  <2>2. CASE Interrupt \/ SigStep
    BY <2>2, SigAdvances DEF IndInv
  <2>3. CASE UNCHANGED vars
    BY <2>3 DEF vars, closing
  <2> QED BY <2>1, <2>2, <2>3 DEF Next
<1> QED BY <1>1, ShutdownInvariance, PTL DEF Spec, InterruptHandlerAdvances
=============================================================================
