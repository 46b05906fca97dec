---------------------------- MODULE FileBuffers -----------------------------
(***************************************************************************)
(* What the file transfers promise about memory, with no indices, no       *)
(* receivers and no steps of a handler: a buffer belongs to the handler    *)
(* that allocated it, then perhaps to the queue ("Transfer ownership of    *)
(* allocated memory", file_transfer.c:81), and whoever has it last frees   *)
(* it, once.  FileQueue.tla is shown to implement it.                      *)
(***************************************************************************)
EXTENDS Naturals, FiniteSets

CONSTANTS Client,         \* handlers
          Buffer,         \* allocations of file data
          NoBuffer,       \* a NULL file_data
          MaxUploadQueue  \* MAX_UPLOAD_QUEUE

VARIABLES held,      \* the buffer that is a handler's own
          queued,    \* the buffers that are the queue's
          allocated  \* the buffers not freed

vars == <<held, queued, allocated>>

Init ==
  /\ held = [s \in Client |-> NoBuffer]
  /\ queued = {}
  /\ allocated = {}

LetGo(s) == held' = [held EXCEPT ![s] = NoBuffer]

Allocate(s) ==
  /\ held[s] = NoBuffer
  /\ \E b \in Buffer \ allocated : /\ held' = [held EXCEPT ![s] = b]
                                   /\ allocated' = allocated \union {b}
  /\ UNCHANGED queued

\* From the handler to the queue, which has room.
HandOver(s) ==
  /\ held[s] \in allocated \ queued
  /\ Cardinality(queued) < MaxUploadQueue
  /\ queued' = queued \union {held[s]}
  /\ LetGo(s)
  /\ UNCHANGED allocated

\* The handler frees what is its own.
GiveUp(s) ==
  /\ held[s] \in allocated \ queued
  /\ allocated' = allocated \ {held[s]}
  /\ LetGo(s)
  /\ UNCHANGED queued

\* One buffer leaves the queue, and it is the one that is freed.
Remove ==
  /\ \E b \in queued : /\ queued' = queued \ {b}
                       /\ allocated' = allocated \ {b}
  /\ UNCHANGED held

\* The queue is emptied, all its buffers freed.
Empty ==
  /\ queued' = {}
  /\ allocated' = allocated \ queued
  /\ UNCHANGED held

Next ==
  \/ \E s \in Client : Allocate(s) \/ HandOver(s) \/ GiveUp(s)
  \/ Remove \/ Empty

Spec == Init /\ [][Next]_vars
=============================================================================
