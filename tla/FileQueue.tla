------------------------------ MODULE FileQueue ------------------------------
(***************************************************************************)
(* /sendfile (server/server_helper.c) and the queue of file_transfer.c.    *)
(* A handler checks that the queue has room, receives the file into a      *)
(* buffer of its own, adds the buffer to the queue, sends it to the        *)
(* receiver, and removes an entry of the queue by the index it was given.  *)
(* The interrupt handler frees everything queued, twice.                   *)
(*                                                                         *)
(* The queue mutex is held only inside one operation, so each operation is *)
(* one step.  What happens outside it, a step of its own, is the reading   *)
(* of count by add_to_file_queue for its result.                           *)
(***************************************************************************)
EXTENDS Integers, FiniteSets, Sequences, SequencesExt

CONSTANTS Client,          \* senders and receivers, one handler each
          Buffer,          \* allocations of file data
          NoClient,        \* no receiver
          NoBuffer,        \* a NULL file_data
          MaxUploadQueue   \* MAX_UPLOAD_QUEUE (5 in the code)

ASSUME FileQueueAssumption ==
  /\ IsFiniteSet(Client)
  /\ NoClient \notin Client
  /\ NoBuffer \notin Buffer
  /\ MaxUploadQueue \in Nat \ {0}

VARIABLES
  pc,        \* where the handler of each client is in /sendfile
  online,    \* clients with a client_info_t in the list
  rcv,       \* the receiver a sender has looked up
  rcvLive,   \* whether that client_info_t is still allocated
  buf,       \* the sender's file_data pointer
  index,     \* the sender's queue_index
  queue,     \* the file_data of items[0..count-1]
  heap,      \* file buffers that are allocated
  phase,     \* progress of the interrupt handler through the queue
  fault,     \* freed memory was used, or freed again
  overlapped \* entries of two transfers were queued at once (for the properties)

transfer == <<pc, rcv, buf, index>>
vars == <<transfer, online, rcvLive, queue, heap, phase, fault, overlapped>>

Queued   == {"indexing", "sending", "removing"}
Label    == {"idle", "uploading", "receiving", "adding"} \union Queued
Active   == {s \in Client : pc[s] \in Queued}
Entries  == {queue[i] : i \in DOMAIN queue}
Unused   == {b \in Buffer \ heap : \A s \in Client : buf[s] # b}

Goto(s, l) == pc' = [pc EXCEPT ![s] = l]

\* The handler returns to client_message_loop; its locals are gone.
Return(s) ==
  /\ Goto(s, "idle")
  /\ rcv' = [rcv EXCEPT ![s] = NoClient]
  /\ buf' = [buf EXCEPT ![s] = NoBuffer]
  /\ index' = [index EXCEPT ![s] = -1]

Init ==
  /\ pc = [s \in Client |-> "idle"]
  /\ online = {}
  /\ rcv = [s \in Client |-> NoClient]
  /\ rcvLive = [s \in Client |-> FALSE]
  /\ buf = [s \in Client |-> NoBuffer]
  /\ index = [s \in Client |-> -1]
  /\ queue = <<>>
  /\ heap = {}
  /\ phase = "running"
  /\ fault = FALSE
  /\ overlapped = FALSE

-----------------------------------------------------------------------------
Login(c) ==
  /\ c \notin online
  /\ online' = online \union {c}
  /\ UNCHANGED <<transfer, rcvLive, queue, heap, phase, fault, overlapped>>

\* remove_client frees the client_info_t, whoever still points to it.
Disconnect(c) ==
  /\ c \in online /\ pc[c] = "idle"
  /\ online' = online \ {c}
  /\ rcvLive' = [s \in Client |-> rcvLive[s] /\ rcv[s] # c]
  /\ UNCHANGED <<transfer, queue, heap, phase, fault, overlapped>>

\* The receiver is found and the queue has room: FILE_UPLOAD_REQUEST is sent.
\* Every refusal before that changes nothing.
StartSend(s, r) ==
  /\ s \in online /\ pc[s] = "idle"
  /\ r \in online \ {s}
  /\ Len(queue) < MaxUploadQueue
  /\ Goto(s, "uploading")
  /\ rcv' = [rcv EXCEPT ![s] = r]
  /\ rcvLive' = [rcvLive EXCEPT ![s] = TRUE]
  /\ UNCHANGED <<buf, index, online, queue, heap, phase, fault, overlapped>>

\* The size arrives and is acceptable: memory for the file is allocated.
StartReceive(s) ==
  /\ pc[s] = "uploading"
  /\ \E b \in Unused : /\ buf' = [buf EXCEPT ![s] = b]
                       /\ heap' = heap \union {b}
  /\ Goto(s, "receiving")
  /\ UNCHANGED <<rcv, index, online, rcvLive, queue, phase, fault, overlapped>>

\* No size, too large a file, or no memory.
RefuseReceive(s) ==
  /\ pc[s] = "uploading"
  /\ Return(s)
  /\ UNCHANGED <<online, rcvLive, queue, heap, phase, fault, overlapped>>

EndReceive(s) ==
  /\ pc[s] = "receiving"
  /\ Goto(s, "adding")
  /\ UNCHANGED <<rcv, buf, index, online, rcvLive, queue, heap, phase, fault, overlapped>>

\* The connection is lost during the upload: the buffer is freed.
LoseReceive(s) ==
  /\ pc[s] = "receiving"
  /\ heap' = heap \ {buf[s]}
  /\ Return(s)
  /\ UNCHANGED <<online, rcvLive, queue, phase, fault, overlapped>>

\* Mutant: the handler's own check for room is relied on.
AddUnchecked(s) ==
  /\ pc[s] = "adding" /\ rcvLive[s]
  /\ queue' = Append(queue, buf[s])
  /\ overlapped' = (Active # {} \/ (overlapped /\ queue # <<>>))
  /\ Goto(s, "indexing")
  /\ UNCHANGED <<rcv, buf, index, online, rcvLive, heap, phase, fault>>

\* add_to_file_queue, which checks again whether the queue is full.
Add(s) ==
  /\ pc[s] = "adding" /\ rcvLive[s]
  /\ Len(queue) < MaxUploadQueue
  /\ queue' = Append(queue, buf[s])
  /\ overlapped' = (Active # {} \/ (overlapped /\ queue # <<>>))
  /\ Goto(s, "indexing")
  /\ UNCHANGED <<rcv, buf, index, online, rcvLive, heap, phase, fault>>

AddRefused(s) ==
  /\ pc[s] = "adding" /\ rcvLive[s]
  /\ Len(queue) >= MaxUploadQueue
  /\ heap' = heap \ {buf[s]}
  /\ Return(s)
  /\ UNCHANGED <<online, rcvLive, queue, phase, fault, overlapped>>

\* Mutant: the result of add_to_file_queue is the new count.
ReadIndexOffByOne(s) ==
  /\ pc[s] = "indexing" /\ rcvLive[s]
  /\ Len(queue) > 0
  /\ index' = [index EXCEPT ![s] = Len(queue)]
  /\ Goto(s, "sending")
  /\ UNCHANGED <<rcv, buf, online, rcvLive, queue, heap, phase, fault, overlapped>>

\* The result of add_to_file_queue, count - 1, is read after the unlock.
ReadIndex(s) ==
  /\ pc[s] = "indexing" /\ rcvLive[s]
  /\ Len(queue) > 0
  /\ index' = [index EXCEPT ![s] = Len(queue) - 1]
  /\ Goto(s, "sending")
  /\ UNCHANGED <<rcv, buf, online, rcvLive, queue, heap, phase, fault, overlapped>>

\* Mutant: a failed transfer is removed here and again at the end.
EndSendRemoving(s) ==
  /\ pc[s] = "sending" /\ rcvLive[s]
  /\ index[s] < Len(queue)
  /\ heap' = heap \ {queue[index[s] + 1]}
  /\ queue' = RemoveAt(queue, index[s] + 1)
  /\ Goto(s, "removing")
  /\ UNCHANGED <<rcv, buf, index, online, rcvLive, phase, fault, overlapped>>

\* send_file_to_client ends, with the whole file sent or an error; either is
\* logged with the receiver's name.
EndSend(s) ==
  /\ pc[s] = "sending" /\ rcvLive[s]
  /\ Goto(s, "removing")
  /\ UNCHANGED <<rcv, buf, index, online, rcvLive, queue, heap, phase, fault, overlapped>>

\* Mutant: the remaining items are not shifted.
RemoveEntryUnshifted(s) ==
  /\ pc[s] = "removing"
  /\ IF index[s] < Len(queue)
       THEN /\ heap' = heap \ {queue[index[s] + 1]}
            /\ queue' = Front(queue)
       ELSE UNCHANGED <<heap, queue>>
  /\ Return(s)
  /\ UNCHANGED <<online, rcvLive, phase, fault, overlapped>>

\* remove_from_file_queue(queue_index): frees what is at that index now.
RemoveEntry(s) ==
  /\ pc[s] = "removing"
  /\ IF index[s] < Len(queue)
       THEN /\ heap' = heap \ {queue[index[s] + 1]}
            /\ queue' = RemoveAt(queue, index[s] + 1)
       ELSE UNCHANGED <<heap, queue>>
  /\ Return(s)
  /\ UNCHANGED <<online, rcvLive, phase, fault, overlapped>>

\* abort_all_file_transfers, then cleanup_file_queue, in the interrupt handler.
FreeAll(from, to) ==
  /\ phase = from
  /\ phase' = to
  /\ heap' = heap \ Entries
  /\ queue' = <<>>
  /\ UNCHANGED <<transfer, online, rcvLive, fault, overlapped>>

\* A freed client_info_t is read, a freed buffer is sent from, or a buffer is
\* freed for the second time: add_to_file_queue's count - 1 was negative.
UseAfterFree(s) ==
  /\ \/ pc[s] \in {"adding", "indexing", "sending"} /\ ~rcvLive[s]
     \/ pc[s] = "sending" /\ buf[s] \notin heap
     \/ pc[s] = "indexing" /\ Len(queue) = 0
  /\ fault' = TRUE
  /\ UNCHANGED <<transfer, online, rcvLive, queue, heap, phase, overlapped>>

Handler(s) ==
  \/ Login(s) \/ Disconnect(s)
  \/ \E r \in Client : StartSend(s, r)
  \/ StartReceive(s) \/ RefuseReceive(s) \/ EndReceive(s) \/ LoseReceive(s)
  \/ Add(s) \/ AddRefused(s) \/ ReadIndex(s) \/ EndSend(s) \/ RemoveEntry(s)
  \/ UseAfterFree(s)

Next ==
  /\ ~fault /\ phase # "exited"
  /\ \/ \E s \in Client : Handler(s)
     \/ FreeAll("running", "aborted")
     \/ FreeAll("aborted", "exited")

Spec == Init /\ [][Next]_vars

-----------------------------------------------------------------------------
\* The types of the handlers' locals and of the queue, which never has more
\* than MAX_UPLOAD_QUEUE entries (file_transfer.c:64) although the handlers'
\* own check for room (server_helper.c:1067) is long past when they add.
TypeOK ==
  /\ pc \in [Client -> Label]
  /\ online \subseteq Client
  /\ rcv \in [Client -> Client \union {NoClient}]
  /\ rcvLive \in [Client -> BOOLEAN]
  /\ buf \in [Client -> Buffer \union {NoBuffer}]
  /\ index \in [Client -> Nat \union {-1}]
  /\ queue \in Seq(Buffer) /\ Len(queue) <= MaxUploadQueue
  /\ heap \subseteq Buffer
  /\ phase \in {"running", "aborted", "exited"}
  /\ fault \in BOOLEAN
  /\ overlapped \in BOOLEAN

\* However wrong the indices are, the queue itself never holds a freed buffer
\* and never one buffer twice: what remove_from_file_queue frees is allocated.
QueueOwnsItsBuffers ==
  /\ Entries \subseteq heap
  /\ IsInjective(queue)

\* Every early return of /sendfile frees what it must: an allocated buffer is
\* in the queue or with the one handler that is receiving it.
EveryBufferHasAnOwner ==
  heap = Entries \union {buf[s] : s \in {t \in Client :
                                           pc[t] \in {"receiving", "adding"}}}

\* README, File Transfer: no more than MAX_UPLOAD_QUEUE transfers go on at a
\* time.  The entry removed may be another's, but never is more than one.
ActiveTransfersBounded ==
  phase = "running" => Cardinality(Active) <= Len(queue)

\* README, Memory, as far as the code keeps it: when no transfer is going on,
\* all file data is freed, unless one was queued while another had its entry
\* there, so that an index was wrong.  With one transfer at a time nothing is left,
\* however it ends, and one that starts with an empty queue begins afresh.
FreedUnlessOverlapped ==
  (\A s \in Client : pc[s] = "idle") /\ ~overlapped => heap = {}

\* What a handler has allocated is its own until it is queued or freed.
Own == [s \in Client |-> IF pc[s] \in {"receiving", "adding"} THEN buf[s] ELSE NoBuffer]

\* "Transfer ownership of allocated memory" (file_transfer.c:81): whatever index a
\* handler was given, each step of /sendfile moves at most one buffer from its
\* handler to the queue or from the queue to free, and nobody frees another's.
Ownership == INSTANCE FileBuffers WITH held <- Own, queued <- Entries, allocated <- heap
ImplementsFileBuffers == Ownership!Spec

-----------------------------------------------------------------------------
(***************************************************************************)
(* What the documentation says and the code does not keep.                 *)
(***************************************************************************)

\* README, Memory: file data is freed after transfer completion.
FreedAfterCompletion ==
  (\A s \in Client : pc[s] = "idle") => heap = {}
=============================================================================
