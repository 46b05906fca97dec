------------------------------ MODULE Shutdown ------------------------------
(***************************************************************************)
(* The accept loop of server.c and handle_sigint, the way the server ends. *)
(* The interrupt handler runs on the stack of the main thread, wherever    *)
(* that is in its loop, and never returns to it: it tells the clients,     *)
(* waits for them, frees everything and exits.  The handler threads go on  *)
(* meanwhile.  (The end of main, server.c:129-158, is never reached:       *)
(* nothing else clears server_running.)                                    *)
(*                                                                         *)
(* thread_mutex, log_mutex and client_list_mutex are held across steps     *)
(* where that matters; a mutex taken and given back within a step is a     *)
(* guard.  What the main thread holds when it is interrupted stays locked. *)
(* Commands are seen only as the time in which a handler has pointers into *)
(* the lists, or waits for ever in the lock cycle of Rooms.tla.            *)
(***************************************************************************)
EXTENDS Naturals, FiniteSets

CONSTANTS Conn,         \* connections, each with its handler thread
          NoConn,       \* a NULL pointer, an unlocked mutex
          Main,         \* the main thread, as an owner of mutexes
          WaitSeconds   \* wait_seconds (3)

ASSUME ShutdownAssumption ==
  /\ IsFiniteSet(Conn)
  /\ NoConn \notin Conn /\ Main \notin Conn /\ Main # NoConn
  /\ WaitSeconds \in Nat \ {0}

VARIABLES
  main,       \* where the main thread is (or was interrupted) in its loop
  conn,       \* the connection it deals with: thread_data
  current,    \* current_thread_data
  pending,    \* client_thread_data_t that are allocated
  handler,    \* where each handler thread is
  listed,     \* connections in the client list
  threadLock, \* owner of thread_mutex
  logLock,    \* owner of log_mutex
  listLock,   \* the interrupt handler holds client_list_mutex
  roomLock,   \* room_list_mutex is in a lock cycle
  roomsFreed, \* cleanup_rooms has run
  sig,        \* where the interrupt handler is
  running,    \* server_running
  untold,     \* clients the interrupt handler has still to notify
  told,       \* clients it has notified
  late,       \* clients that logged in after it had counted them
  seconds,    \* seconds it has waited
  fault       \* what was used after it was freed, if anything

loop    == <<main, conn, current, threadLock>>
threads == <<handler, listed, late, roomLock>>
closing == <<sig, running, untold, told, seconds, listLock, roomsFreed>>
vars    == <<loop, pending, threads, logLock, closing, fault>>

Interrupted == sig # "off"
Logging     == sig # "exit" \* logging_shutdown is not set
SigAt(l)    == sig = l /\ fault = "none"
Alive       == sig # "exited" /\ fault = "none"
ListFree    == ~listLock
LogFree     == logLock = NoConn

Init ==
  /\ main = "alloc" /\ conn = NoConn /\ current = NoConn
  /\ pending = {}
  /\ handler = [c \in Conn |-> "none"]
  /\ listed = {} /\ late = {}
  /\ threadLock = NoConn /\ logLock = NoConn
  /\ listLock = FALSE /\ roomLock = FALSE /\ roomsFreed = FALSE
  /\ sig = "off" /\ running = TRUE
  /\ untold = {} /\ told = {}
  /\ seconds = 0
  /\ fault = "none"

-----------------------------------------------------------------------------
(***************************************************************************)
(* The main thread.                                                        *)
(***************************************************************************)
MainAt(l) == main = l /\ ~Interrupted

\* malloc of the next client_thread_data_t, with client_socket -1.
Alloc ==
  /\ MainAt("alloc")
  /\ \E c \in Conn \ pending :
       /\ handler[c] = "none"
       /\ conn' = c
       /\ pending' = pending \union {c}
  /\ main' = "publish"
  /\ UNCHANGED <<current, threadLock, threads, logLock, closing, fault>>

LockThread ==
  /\ \E l \in {"publish", "clear", "drop"} : MainAt(l)
  /\ threadLock = NoConn
  /\ threadLock' = Main
  /\ UNCHANGED <<main, conn, current, pending, threads, logLock, closing, fault>>

\* current_thread_data is set, and cleared again, under thread_mutex.
SetCurrent(from, value, to) ==
  /\ MainAt(from) /\ threadLock = Main
  /\ current' = value
  /\ threadLock' = NoConn
  /\ main' = to
  /\ UNCHANGED <<conn, pending, threads, logLock, closing, fault>>

Publish == SetCurrent("publish", conn, "accept")

\* Mutant: the pointer is left to the next turn of the loop to overwrite.
ClearNothing == SetCurrent("clear", current, "alloc")

Clear == SetCurrent("clear", NoConn, "alloc")

Drop == SetCurrent("drop", NoConn, "free")

\* accept and pthread_create, or an error of either.
Advance(from, to) ==
  /\ MainAt(from)
  /\ main' = to
  /\ UNCHANGED <<conn, current, threadLock, pending, threads, logLock, closing,
                 fault>>

Accept       == Advance("accept", "accepted")
AcceptFails  == Advance("accept", "failed")
CreateFails  == Advance("create", "failed")
Create ==
  /\ MainAt("create")
  /\ handler' = [handler EXCEPT ![conn] = "setup"]
  /\ main' = "created"
  /\ UNCHANGED <<conn, current, threadLock, pending, listed, late, roomLock,
                 logLock, closing, fault>>

\* log_message, at the three places of the loop where it is called.
MainTakesLog ==
  /\ \E l \in {"accepted", "created", "failed"} : MainAt(l)
  /\ LogFree
  /\ logLock' = Main
  /\ UNCHANGED <<loop, pending, threads, closing, fault>>

MainLogs ==
  /\ logLock = Main
  /\ logLock' = NoConn
  /\ \/ MainAt("accepted") /\ main' = "create"
     \/ MainAt("created") /\ main' = "clear"
     \/ MainAt("failed") /\ main' = "drop"
  /\ UNCHANGED <<conn, current, threadLock, pending, threads, closing, fault>>

\* Mutant: an accept that fails leaves its record behind.
FreeRecordForgotten == Advance("free", "alloc")

FreeRecord ==
  /\ MainAt("free")
  /\ pending' = pending \ {conn}
  /\ main' = "alloc"
  /\ UNCHANGED <<conn, current, threadLock, threads, logLock, closing, fault>>

MainStep ==
  \/ Alloc \/ LockThread \/ Publish \/ Clear \/ Drop
  \/ Accept \/ AcceptFails \/ Create \/ CreateFails
  \/ MainTakesLog \/ MainLogs \/ FreeRecord

-----------------------------------------------------------------------------
(***************************************************************************)
(* The handler threads.  One that holds log_mutex does nothing else.       *)
(***************************************************************************)
HandlerAt(c, l) == Alive /\ handler[c] = l /\ logLock # c

Move(c, to) ==
  /\ handler' = [handler EXCEPT ![c] = to]
  /\ UNCHANGED <<loop, pending, listed, late, roomLock, logLock, closing, fault>>

Fault(what) ==
  /\ fault' = what
  /\ UNCHANGED <<loop, pending, threads, logLock, closing>>

\* setup_client_connection reads and frees the record.
Setup(c) ==
  /\ HandlerAt(c, "setup")
  /\ IF c \in pending
       THEN /\ pending' = pending \ {c}
            /\ handler' = [handler EXCEPT ![c] = "login"]
            /\ UNCHANGED <<loop, listed, late, roomLock, logLock, closing, fault>>
       ELSE Fault("record")

\* add_client.
LogIn(c) ==
  /\ HandlerAt(c, "login") /\ ListFree
  /\ listed' = listed \union {c}
  /\ late' = IF sig \in {"off", "log", "lock", "pending", "count"}
               THEN late ELSE late \union {c}
  /\ handler' = [handler EXCEPT ![c] = "loop"]
  /\ UNCHANGED <<loop, pending, roomLock, logLock, closing, fault>>

LoginFails(c) == HandlerAt(c, "login") /\ Move(c, "none")

\* A command begins when the client has been found, and ends with the last use
\* of the pointers it has obtained.
Begin(c) ==
  /\ HandlerAt(c, "loop") /\ ListFree
  /\ c \in listed
  /\ Move(c, "command")

\* Two commands have run into the lock cycle of Rooms.tla.
Wedge(c, d) ==
  /\ c # d /\ HandlerAt(c, "command") /\ HandlerAt(d, "command")
  /\ ~roomLock /\ ~roomsFreed /\ {c, d} \subseteq listed
  /\ roomLock' = TRUE
  /\ handler' = [handler EXCEPT ![c] = "wedged", ![d] = "wedged"]
  /\ UNCHANGED <<loop, pending, listed, late, logLock, closing, fault>>

End(c) ==
  \E l \in {"command", "closing"} :
    /\ HandlerAt(c, l)
    /\ IF c \in listed /\ ~roomsFreed
         THEN Move(c, IF l = "command" THEN "loop" ELSE "removing")
         ELSE Fault("entry")

\* The loop ends because server_running is clear, or the client has left;
\* cleanup_client_connection looks for the client.
Leave(c) ==
  /\ HandlerAt(c, "loop") /\ ListFree
  /\ Move(c, IF c \in listed THEN "closing" ELSE "removing")

RemoveClient(c) ==
  /\ HandlerAt(c, "removing") /\ ListFree
  /\ listed' = listed \ {c}
  /\ late' = late \ {c}
  /\ told' = told \ {c}
  /\ handler' = [handler EXCEPT ![c] = "none"]
  /\ UNCHANGED <<loop, pending, roomLock, logLock, sig, running, untold, seconds,
                 listLock, roomsFreed, fault>>

\* log_message may be called anywhere; after cleanup_logging it does nothing,
\* unless the mutex was taken before: then the file is written, or was.
TakeLog(c) ==
  /\ Alive /\ handler[c] \notin {"none", "setup", "wedged"}
  /\ LogFree /\ Logging
  /\ logLock' = c
  /\ UNCHANGED <<loop, pending, threads, closing, fault>>

Log(c) ==
  /\ Alive /\ logLock = c
  /\ \/ /\ logLock' = NoConn
        /\ UNCHANGED <<loop, pending, threads, closing, fault>>
     \/ ~Logging /\ Fault("log")

HandlerStep(c) ==
  \/ Setup(c) \/ LogIn(c) \/ LoginFails(c) \/ Begin(c) \/ End(c)
  \/ Leave(c) \/ RemoveClient(c) \/ TakeLog(c) \/ Log(c)
  \/ \E d \in Conn : Wedge(c, d)

-----------------------------------------------------------------------------
(***************************************************************************)
(* handle_sigint.                                                          *)
(***************************************************************************)
Interrupt ==
  /\ SigAt("off")
  /\ sig' = "log"
  /\ UNCHANGED <<loop, pending, threads, logLock, running, untold, told, seconds,
                 listLock, roomsFreed, fault>>

SigTo(l) ==
  /\ sig' = l
  /\ UNCHANGED <<loop, threads, logLock, untold, told, seconds, listLock,
                 roomsFreed, fault>>

SigLogs ==
  /\ SigAt("log") /\ LogFree
  /\ SigTo("lock")
  /\ running' = FALSE
  /\ UNCHANGED pending

SigLocks ==
  /\ SigAt("lock") /\ threadLock = NoConn
  /\ threadLock' = Main
  /\ sig' = "pending"
  /\ UNCHANGED <<main, conn, current, pending, threads, logLock, running, untold,
                 told, seconds, listLock, roomsFreed, fault>>

\* A connection in the making is closed and its record freed; thread_mutex is
\* held while two lines are logged.
DropPending ==
  /\ SigAt("pending")
  /\ current # NoConn => LogFree
  /\ current' = NoConn
  /\ threadLock' = NoConn
  /\ pending' = pending \ {current}
  /\ IF current \in pending \union {NoConn}
       THEN sig' = "count" /\ UNCHANGED fault
       ELSE fault' = "record" /\ UNCHANGED sig
  /\ UNCHANGED <<main, conn, threads, logLock, running, untold, told, seconds,
                 listLock, roomsFreed>>

\* Mutant: one client is not worth a notification.
CountOffByOne ==
  /\ SigAt("count")
  /\ Cardinality(listed) <= 1
  /\ SigTo("free")
  /\ UNCHANGED <<running, pending>>

\* Clients, or transfers in the queue, are reasons to notify and to wait.
Count ==
  /\ SigAt("count")
  /\ \/ SigTo("notify")
     \/ listed = {} /\ SigTo("free")
  /\ UNCHANGED <<running, pending>>

\* shutdown_all_clients walks through the list with its mutex held.
LockList ==
  /\ SigAt("notify") /\ LogFree
  /\ listLock' = TRUE
  /\ untold' = listed
  /\ sig' = "tell"
  /\ UNCHANGED <<loop, pending, threads, logLock, running, told, seconds,
                 roomsFreed, fault>>

\* send_message returns, or blocks: the client does not read what it is sent.
Tell ==
  /\ SigAt("tell")
  /\ \E c \in untold :
       \/ /\ untold' = untold \ {c}
          /\ told' = told \union {c}
          /\ UNCHANGED sig
       \/ /\ sig' = "blocked"
          /\ UNCHANGED <<untold, told>>
  /\ UNCHANGED <<loop, pending, threads, logLock, running, seconds, listLock,
                 roomsFreed, fault>>

UnlockList ==
  /\ SigAt("tell") /\ untold = {}
  /\ listLock' = FALSE
  /\ sig' = "wait"
  /\ UNCHANGED <<loop, pending, threads, logLock, running, untold, told, seconds,
                 roomsFreed, fault>>

\* Mutant: the wait ends when the clients have gone, and only then.
WaitForAll ==
  /\ SigAt("wait")
  /\ seconds' = IF seconds < WaitSeconds THEN seconds + 1 ELSE seconds
  /\ sig' = IF listed = {} THEN "free" ELSE "wait"
  /\ UNCHANGED <<loop, pending, threads, logLock, running, untold, told, listLock,
                 roomsFreed, fault>>

\* Mutant: a second is enough.
WaitOnce ==
  /\ SigAt("wait")
  /\ seconds' = seconds + 1
  /\ sig' = "free"
  /\ UNCHANGED <<loop, pending, threads, logLock, running, untold, told, listLock,
                 roomsFreed, fault>>

\* Mutant: one second too many.
WaitTooLong ==
  /\ SigAt("wait")
  /\ seconds' = seconds + 1
  /\ sig' = IF listed = {} \/ seconds' > WaitSeconds THEN "free" ELSE "wait"
  /\ UNCHANGED <<loop, pending, threads, logLock, running, untold, told, listLock,
                 roomsFreed, fault>>

\* Mutant: the clients that remain are told again, every second.
WaitAndTellAgain ==
  /\ SigAt("wait")
  /\ seconds' = seconds + 1
  /\ sig' = IF listed = {} \/ seconds' = WaitSeconds THEN "free" ELSE "notify"
  /\ UNCHANGED <<loop, pending, threads, logLock, running, untold, told, listLock,
                 roomsFreed, fault>>

\* One second of the wait, and the count after it.
Wait ==
  /\ SigAt("wait")
  /\ seconds' = seconds + 1
  /\ sig' = IF listed = {} \/ seconds' = WaitSeconds THEN "free" ELSE "wait"
  /\ UNCHANGED <<loop, pending, threads, logLock, running, untold, told, listLock,
                 roomsFreed, fault>>

\* cleanup_clients frees every entry, cleanup_rooms every room.
FreeClients ==
  /\ SigAt("free") /\ LogFree
  /\ listed' = {} /\ late' = {} /\ told' = {}
  /\ sig' = "rooms"
  /\ UNCHANGED <<loop, pending, handler, roomLock, logLock, running, untold,
                 seconds, listLock, roomsFreed, fault>>

FreeRooms ==
  /\ SigAt("rooms") /\ LogFree /\ ~roomLock
  /\ roomsFreed' = TRUE
  /\ sig' = "close_log"
  /\ UNCHANGED <<loop, pending, threads, logLock, running, untold, told, seconds,
                 listLock, fault>>

\* cleanup_logging: the file is closed whether or not the trylock succeeds.
CloseLog ==
  /\ SigAt("close_log")
  /\ SigTo("exit")
  /\ UNCHANGED <<running, pending>>

Exit ==
  /\ SigAt("exit")
  /\ SigTo("exited")
  /\ UNCHANGED <<running, pending>>

SigStep ==
  \/ SigLogs \/ SigLocks \/ DropPending \/ Count \/ LockList \/ Tell
  \/ UnlockList \/ Wait \/ FreeClients \/ FreeRooms \/ CloseLog \/ Exit

-----------------------------------------------------------------------------
Next ==
  \/ MainStep \/ Interrupt \/ SigStep
  \/ \E c \in Conn : HandlerStep(c)

\* A thread inside log_message leaves it, and the interrupt handler is not kept
\* from a mutex that is free again and again.  Neither clients nor commands
\* have to come to an end.
Fairness == SF_vars(SigStep) /\ \A c \in Conn : WF_vars(Log(c))

Spec == Init /\ [][Next]_vars /\ Fairness

-----------------------------------------------------------------------------
(***************************************************************************)
(* Properties.                                                             *)
(***************************************************************************)
MainPlaces    == {"alloc", "publish", "accept", "accepted", "create", "created",
                  "clear", "failed", "drop", "free"}
HandlerPlaces == {"none", "setup", "login", "loop", "command", "wedged", "closing",
                  "removing"}
SigPlaces     == {"off", "log", "lock", "pending", "count", "notify", "tell",
                  "blocked", "wait", "free", "rooms", "close_log", "exit", "exited"}

\* Every variable has its type; the wait is one of at most wait_seconds seconds
\* (server_helper.c:62), and client_list_mutex is held by the interrupt handler
\* only while it notifies.
TypeOK ==
  /\ main \in MainPlaces
  /\ conn \in Conn \union {NoConn} /\ current \in Conn \union {NoConn}
  /\ pending \subseteq Conn
  /\ handler \in [Conn -> HandlerPlaces]
  /\ listed \subseteq Conn /\ late \subseteq listed
  /\ threadLock \in {Main, NoConn}
  /\ logLock \in Conn \union {Main, NoConn}
  /\ listLock \in BOOLEAN /\ (listLock <=> sig \in {"tell", "blocked"})
  /\ roomLock \in BOOLEAN /\ roomsFreed \in BOOLEAN /\ running \in BOOLEAN
  /\ sig \in SigPlaces
  /\ untold \subseteq listed /\ told \subseteq listed
  /\ seconds \in 0 .. WaitSeconds
  /\ fault \in {"none", "record", "entry", "log"}

\* A client_thread_data_t that is still allocated is the one the main thread
\* deals with, or one a new handler thread has yet to read and free: a
\* connection that was refused, failed or served leaves none behind.
RecordHasOwner ==
  pending \subseteq {conn} \union {c \in Conn : handler[c] = "setup"}

\* The interrupt handler and the handler thread free one record between them,
\* except when the signal comes after pthread_create and before
\* current_thread_data is cleared (server.c:104-123): only then is a record
\* read or freed that has been freed.
RecordFreedOnce ==
  fault = "record" => Interrupted /\ main \in {"created", "clear"}

\* "Server notifies all clients before exit" (README.md:39): when the server
\* waits for its clients, or goes on to free them, every one that had logged in
\* when they were counted and is still there has been sent the notice.
ListedAreTold ==
  sig \in {"wait", "free"} => listed \ late \subseteq told

\* cleanup_clients finds a client in the list only if it did not leave in the
\* three seconds it was given, or logged in after the count: an entry is freed
\* under a handler thread that uses it in these cases only.
EntriesFreedLate ==
  sig = "free" => seconds = WaitSeconds \/ listed \subseteq late

\* The handler threads go on while the server shuts down: clients log in, leave
\* and log, and none of it gives the interrupt handler more to do.  Each
\* of its steps takes it to a later stage, tells one of the clients it found in
\* the list when it locked it, or ends one more of the wait_seconds seconds, and
\* no other thread's step undoes any of this.
Stage == [off |-> 0, log |-> 1, lock |-> 2, pending |-> 3, count |-> 4, notify |-> 5,
          tell |-> 6, blocked |-> 7, wait |-> 8, free |-> 9, rooms |-> 10,
          close_log |-> 11, exit |-> 12, exited |-> 13]
Advances ==
  \/ Stage[sig'] > Stage[sig]
  \/ sig' = sig /\ seconds' = seconds /\ \E c \in untold : untold' = untold \ {c}
  \/ sig' = sig /\ untold' = untold /\ seconds' = seconds + 1 /\ seconds' <= WaitSeconds
InterruptHandlerAdvances == [][Advances]_<<sig, untold, seconds>>

\* What the interrupt handler waits for can keep it for ever: a mutex the main
\* thread was interrupted with, a client that does not read, or a command that
\* holds room_list_mutex in a lock cycle.
Stuck ==
  \/ logLock = Main
  \/ threadLock = Main /\ sig = "lock"
  \/ sig = "blocked"
  \/ roomLock

\* After SIGINT the server exits, unless it is stuck for one of these reasons or
\* has used freed memory; clients that do not leave do not keep it.
ShutdownEnds ==
  Interrupted ~> (sig = "exited" \/ fault # "none" \/ Stuck)
=============================================================================
