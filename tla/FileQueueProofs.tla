-------------------------- MODULE FileQueueProofs ---------------------------
(***************************************************************************)
(* Proofs about FileQueue, for any number of clients, any supply of        *)
(* buffers and any length of the queue.                                    *)
(*                                                                         *)
(* That the queue owns its buffers is not inductive alone: a step of       *)
(* /sendfile that frees a buffer must free one the queue does not have,    *)
(* and one that queues a buffer one that is not queued yet.  HoldersInv    *)
(* says so of every handler that still holds a buffer of its own.          *)
(***************************************************************************)
EXTENDS FileQueue, SequenceLemmas, FiniteSetTheorems, TLAPS

\* The handlers whose buffer is theirs to free.
Holds(s) == pc[s] \in {"receiving", "adding"}

\* Such a buffer is allocated, not queued, and no other handler's.
HoldersInv ==
  \A s \in Client : Holds(s) =>
    /\ buf[s] \in heap \ Entries
    /\ \A t \in Client \ {s} : Holds(t) => buf[t] # buf[s]

\* A handler at its removal has read an index.
IndexInv == \A s \in Client : pc[s] \in {"sending", "removing"} => index[s] \in Nat

IndInv ==
  /\ TypeOK
  /\ QueueOwnsItsBuffers
  /\ EveryBufferHasAnOwner
  /\ HoldersInv
  /\ IndexInv

-----------------------------------------------------------------------------
(***************************************************************************)
(* The invariant holds initially, and every step keeps it.                 *)
(***************************************************************************)
LEMMA InitIndInv == Init => IndInv
PROOF
<1> SUFFICES ASSUME Init PROVE IndInv
  OBVIOUS
<1>1. queue = <<>> /\ queue \in Seq(Buffer) /\ Len(queue) = 0 /\ DOMAIN queue = {}
  BY DEF Init
<1>2. Entries = {}
  BY <1>1 DEF Entries
<1>3. TypeOK
  <2>1. queue \in Seq(Buffer) /\ Len(queue) <= MaxUploadQueue
    BY <1>1, FileQueueAssumption
  <2> QED BY <2>1 DEF Init, TypeOK, Label
<1>4. QueueOwnsItsBuffers
  BY <1>1, <1>2 DEF QueueOwnsItsBuffers, IsInjective
<1>5. EveryBufferHasAnOwner
  BY <1>2 DEF Init, EveryBufferHasAnOwner
<1>6. HoldersInv /\ IndexInv
  BY DEF Init, HoldersInv, Holds, IndexInv
<1> QED BY <1>3, <1>4, <1>5, <1>6 DEF IndInv

\* A step that leaves the queue, the heap, the holders and their buffers alone.
LEMMA QuietStep ==
  ASSUME IndInv, TypeOK', IndexInv', UNCHANGED <<queue, heap, buf>>,
         \A s \in Client : Holds(s)' <=> Holds(s)
  PROVE  IndInv'
PROOF
<1>1. Entries' = Entries
  BY DEF Entries
<1>2. QueueOwnsItsBuffers'
  BY <1>1 DEF IndInv, QueueOwnsItsBuffers
<1>3. HoldersInv'
  BY <1>1 DEF IndInv, HoldersInv
<1>4. EveryBufferHasAnOwner'
  BY <1>1 DEF IndInv, EveryBufferHasAnOwner, Holds
<1> QED BY <1>2, <1>3, <1>4 DEF IndInv

\* The locals of a handler that returns, and of the others.
LEMMA ReturnProperties ==
  ASSUME TypeOK, NEW s \in Client, Return(s)
  PROVE  /\ pc' \in [Client -> Label]
         /\ rcv' \in [Client -> Client \union {NoClient}]
         /\ buf' \in [Client -> Buffer \union {NoBuffer}]
         /\ index' \in [Client -> Nat \union {-1}]
         /\ pc'[s] = "idle"
         /\ \A t \in Client \ {s} :
              pc'[t] = pc[t] /\ buf'[t] = buf[t] /\ index'[t] = index[t]
PROOF
  BY DEF Return, Goto, TypeOK, Label

\* A handler that holds a buffer frees it and returns.
LEMMA HolderFrees ==
  ASSUME IndInv, NEW s \in Client, Holds(s), heap' = heap \ {buf[s]}, Return(s),
         UNCHANGED <<online, rcvLive, queue, phase, fault, overlapped>>
  PROVE  IndInv'
PROOF
<1> USE DEF IndInv
<1>1. Entries' = Entries
  BY DEF Entries
<1>2. /\ ~Holds(s)'
      /\ \A t \in Client \ {s} : (Holds(t)' <=> Holds(t)) /\ buf'[t] = buf[t]
  BY ReturnProperties DEF Holds
<1>3. TypeOK'
  BY ReturnProperties DEF TypeOK
<1>4. QueueOwnsItsBuffers'
  BY <1>1 DEF QueueOwnsItsBuffers, HoldersInv
<1>5. HoldersInv'
  BY <1>1, <1>2 DEF HoldersInv
<1>6. EveryBufferHasAnOwner'
  <2>1. heap = Entries \union {buf[t] : t \in {u \in Client : Holds(u)}}
    BY DEF EveryBufferHasAnOwner, Holds
  <2>2. heap' = Entries' \union {buf'[t] : t \in {u \in Client : Holds(u)'}}
    BY <1>1, <1>2, <2>1 DEF HoldersInv
  <2> QED BY <2>2 DEF EveryBufferHasAnOwner, Holds
<1>7. IndexInv'
  BY ReturnProperties DEF IndexInv
<1> QED BY <1>3, <1>4, <1>5, <1>6, <1>7

\* malloc of a buffer nobody owns keeps the invariant.
LEMMA StartReceiveKeeps ==
  ASSUME IndInv, NEW s \in Client, StartReceive(s)
  PROVE  IndInv'
PROOF
<1> USE DEF IndInv
<1> PICK b \in Unused : buf' = [buf EXCEPT ![s] = b] /\ heap' = heap \union {b}
  BY DEF StartReceive
<1>1. b \in Buffer /\ b \notin heap /\ \A t \in Client : buf[t] # b
  BY DEF Unused
<1>2. Entries' = Entries /\ b \notin Entries
  BY <1>1 DEF StartReceive, Entries, QueueOwnsItsBuffers
<1>3. /\ ~Holds(s) /\ Holds(s)' /\ buf'[s] = b
      /\ \A t \in Client \ {s} : (Holds(t)' <=> Holds(t)) /\ buf'[t] = buf[t]
  BY DEF StartReceive, Goto, TypeOK, Holds
<1>4. TypeOK'
  BY <1>1 DEF TypeOK, StartReceive, Goto, Label
<1>5. QueueOwnsItsBuffers'
  BY <1>2 DEF StartReceive, QueueOwnsItsBuffers
<1>6. HoldersInv'
  BY <1>1, <1>2, <1>3 DEF HoldersInv
<1>7. EveryBufferHasAnOwner'
  <2>1. heap = Entries \union {buf[t] : t \in {u \in Client : Holds(u)}}
    BY DEF EveryBufferHasAnOwner, Holds
  <2>2. heap' = Entries' \union {buf'[t] : t \in {u \in Client : Holds(u)'}}
    BY <1>2, <1>3, <2>1
  <2> QED BY <2>2 DEF EveryBufferHasAnOwner, Holds
<1>8. IndexInv'
  BY DEF StartReceive, Goto, TypeOK, IndexInv
<1> QED BY <1>4, <1>5, <1>6, <1>7, <1>8

\* A buffer that passes from a handler to the queue has one owner all along.
LEMMA AddKeeps ==
  ASSUME IndInv, NEW s \in Client, Add(s)
  PROVE  IndInv'
PROOF
<1> USE DEF IndInv
<1>1. Holds(s) /\ buf[s] \in heap \ Entries /\ heap \subseteq Buffer
  BY DEF Add, Holds, HoldersInv, TypeOK
<1>2. queue \in Seq(Buffer) /\ IsInjective(queue)
  BY DEF TypeOK, QueueOwnsItsBuffers
<1>3. /\ queue' \in Seq(Buffer) /\ Len(queue') = Len(queue) + 1
      /\ IsInjective(queue') /\ Entries' = Entries \union {buf[s]}
  BY <1>1, <1>2, AppendElements DEF Add, Entries
<1>4. /\ ~Holds(s)' /\ buf' = buf /\ heap' = heap
      /\ \A t \in Client \ {s} : Holds(t)' <=> Holds(t)
  BY DEF Add, Goto, TypeOK, Holds
<1>5. TypeOK'
  <2>1. Len(queue') <= MaxUploadQueue
    BY <1>2, <1>3, FileQueueAssumption DEF Add
  <2>2. overlapped' \in BOOLEAN
    BY Zenon DEF Add
  <2>3. pc' \in [Client -> Label]
    BY DEF TypeOK, Add, Goto, Label, Queued
  <2>4. UNCHANGED <<rcv, buf, index, online, rcvLive, heap, phase, fault>>
    BY DEF Add
  <2> QED BY <2>1, <2>2, <2>3, <2>4, <1>3 DEF TypeOK
<1>6. QueueOwnsItsBuffers'
  BY <1>1, <1>3, <1>4 DEF QueueOwnsItsBuffers
<1>7. HoldersInv'
  BY <1>1, <1>3, <1>4 DEF HoldersInv
<1>8. EveryBufferHasAnOwner'
  <2>1. heap = Entries \union {buf[t] : t \in {u \in Client : Holds(u)}}
    BY DEF EveryBufferHasAnOwner, Holds
  <2>2. heap' = Entries' \union {buf'[t] : t \in {u \in Client : Holds(u)'}}
    BY <1>1, <1>3, <1>4, <2>1
  <2> QED BY <2>2 DEF EveryBufferHasAnOwner, Holds
<1>9. IndexInv'
  BY DEF Add, Goto, TypeOK, IndexInv
<1> QED BY <1>5, <1>6, <1>7, <1>8, <1>9

\* remove_from_file_queue, with whatever index, frees one queued buffer or
\* none.
LEMMA RemoveEntryKeeps ==
  ASSUME IndInv, NEW s \in Client, RemoveEntry(s)
  PROVE  IndInv'
PROOF
<1> USE DEF IndInv
<1>1. Return(s) /\ index[s] \in Nat /\ ~Holds(s) /\ pc[s] = "removing"
  BY DEF RemoveEntry, IndexInv, Holds
<1>2. /\ ~Holds(s)'
      /\ \A t \in Client : Holds(t)' <=> Holds(t)
      /\ \A t \in Client : Holds(t) => buf'[t] = buf[t]
  BY <1>1, ReturnProperties DEF Holds
<1>3. IndexInv'
  BY <1>1, ReturnProperties DEF IndexInv
<1>4. queue \in Seq(Buffer) /\ IsInjective(queue) /\ Entries \subseteq heap
  BY DEF TypeOK, QueueOwnsItsBuffers
<1>5. heap = Entries \union {buf[t] : t \in {u \in Client : Holds(u)}}
  BY DEF EveryBufferHasAnOwner, Holds
<1>6. CASE index[s] < Len(queue)
  <2> DEFINE k == index[s] + 1
  <2>1. k \in 1 .. Len(queue) /\ k \in DOMAIN queue
    BY <1>1, <1>4, <1>6
  <2>2. queue' = RemoveAt(queue, k) /\ heap' = heap \ {queue[k]}
    BY <1>6 DEF RemoveEntry
  <2> HIDE DEF k
  <2>3. /\ queue' \in Seq(Buffer) /\ Len(queue') = Len(queue) - 1
        /\ IsInjective(queue') /\ Entries' = Entries \ {queue[k]}
    <3> DEFINE r == RemoveAt(queue, k)
    <3>1. /\ r \in Seq(Buffer) /\ Len(r) = Len(queue) - 1 /\ IsInjective(r)
          /\ {r[i] : i \in DOMAIN r} = {queue[i] : i \in DOMAIN queue} \ {queue[k]}
      BY <1>4, <2>1, RemoveAtProperties
    <3>2. queue' = r
      BY <2>2
    <3> HIDE DEF r
    <3> QED BY <3>1, <3>2 DEF Entries
  <2>4. queue[k] \in Entries
    BY <2>1 DEF Entries
  <2>5. TypeOK'
    <3>1. Len(queue') <= MaxUploadQueue
      BY <1>4, <2>3, FileQueueAssumption DEF TypeOK
    <3>2. heap' \subseteq Buffer
      BY <2>2 DEF TypeOK
    <3> QED BY <1>1, <2>3, <3>1, <3>2, ReturnProperties DEF TypeOK, RemoveEntry
  <2>6. QueueOwnsItsBuffers'
    BY <1>4, <2>2, <2>3 DEF QueueOwnsItsBuffers
  <2>7. HoldersInv'
    BY <1>2, <2>2, <2>3, <2>4 DEF HoldersInv
  <2>8. EveryBufferHasAnOwner'
    <3>1. heap' = Entries' \union {buf'[t] : t \in {u \in Client : Holds(u)'}}
      BY <1>2, <1>5, <2>2, <2>3, <2>4 DEF HoldersInv
    <3> QED BY <3>1 DEF EveryBufferHasAnOwner, Holds
  <2> QED BY <1>3, <2>5, <2>6, <2>7, <2>8
<1>7. CASE ~(index[s] < Len(queue))
  <2>1. queue' = queue /\ heap' = heap /\ Entries' = Entries
    BY <1>7 DEF RemoveEntry, Entries
  <2>2. TypeOK'
    BY <1>1, <2>1, ReturnProperties DEF TypeOK, RemoveEntry
  <2>3. QueueOwnsItsBuffers' /\ HoldersInv'
    BY <1>2, <2>1 DEF QueueOwnsItsBuffers, HoldersInv
  <2>4. EveryBufferHasAnOwner'
    <3>1. heap' = Entries' \union {buf'[t] : t \in {u \in Client : Holds(u)'}}
      BY <1>2, <1>5, <2>1
    <3> QED BY <3>1 DEF EveryBufferHasAnOwner, Holds
  <2> QED BY <1>3, <2>2, <2>3, <2>4
<1> QED BY <1>6, <1>7

\* abort_all_file_transfers and cleanup_file_queue free what is queued, and all
\* of it.
LEMMA FreeAllKeeps ==
  ASSUME IndInv, NEW from, NEW to \in {"aborted", "exited"}, FreeAll(from, to)
  PROVE  IndInv'
PROOF
<1> USE DEF IndInv
<1>1. queue' = <<>> /\ heap' = heap \ Entries /\ pc' = pc /\ buf' = buf
  BY DEF FreeAll, transfer
<1>2. queue' \in Seq(Buffer) /\ Len(queue') = 0 /\ DOMAIN queue' = {}
  BY <1>1
<1>3. Entries' = {}
  BY <1>2 DEF Entries
<1>4. TypeOK'
  <2>1. Len(queue') <= MaxUploadQueue
    BY <1>2, FileQueueAssumption
  <2>2. heap' \subseteq Buffer
    BY <1>1 DEF TypeOK
  <2> QED BY <1>2, <2>1, <2>2 DEF TypeOK, FreeAll, transfer
<1>5. QueueOwnsItsBuffers'
  BY <1>2, <1>3 DEF QueueOwnsItsBuffers, IsInjective
<1>6. HoldersInv'
  BY <1>1, <1>3 DEF HoldersInv, Holds
<1>7. EveryBufferHasAnOwner'
  BY <1>1, <1>3 DEF EveryBufferHasAnOwner, HoldersInv, Holds
<1>8. IndexInv'
  BY DEF IndexInv, FreeAll, transfer
<1> QED BY <1>4, <1>5, <1>6, <1>7, <1>8

\* Every step keeps the invariant: one step per operation of /sendfile.
LEMMA NextIndInv == IndInv /\ [Next]_vars => IndInv'
PROOF
<1> SUFFICES ASSUME IndInv, [Next]_vars PROVE IndInv'
  OBVIOUS
<1> USE DEF IndInv
<1>1. ASSUME NEW s \in Client, Login(s) PROVE IndInv'
  <2>1. TypeOK' /\ IndexInv' /\ UNCHANGED <<queue, heap, buf, pc>>
    BY <1>1 DEF Login, transfer, TypeOK, IndexInv
  <2> QED BY <2>1, QuietStep DEF Holds
<1>2. ASSUME NEW s \in Client, Disconnect(s) PROVE IndInv'
  <2>1. TypeOK' /\ IndexInv' /\ UNCHANGED <<queue, heap, buf, pc>>
    BY <1>2 DEF Disconnect, transfer, TypeOK, IndexInv
  <2> QED BY <2>1, QuietStep DEF Holds
<1>3. ASSUME NEW s \in Client, NEW r \in Client, StartSend(s, r) PROVE IndInv'
  <2>1. TypeOK' /\ UNCHANGED <<queue, heap, buf>>
    BY <1>3 DEF StartSend, Goto, TypeOK, Label
  <2>2. IndexInv' /\ \A t \in Client : Holds(t)' <=> Holds(t)
    BY <1>3 DEF StartSend, Goto, TypeOK, IndexInv, Holds
  <2> QED BY <2>1, <2>2, QuietStep
<1>4. ASSUME NEW s \in Client, RefuseReceive(s) PROVE IndInv'
  <2>1. /\ UNCHANGED <<online, rcvLive, queue, heap, phase, fault, overlapped>>
        /\ Return(s) /\ ~Holds(s)
    BY <1>4 DEF RefuseReceive, Holds
  <2>2. /\ TypeOK' /\ IndexInv' /\ ~Holds(s)'
        /\ \A t \in Client \ {s} : (Holds(t)' <=> Holds(t)) /\ buf'[t] = buf[t]
    BY <2>1, ReturnProperties DEF TypeOK, IndexInv, Holds
  <2>3. Entries' = Entries
    BY <2>1 DEF Entries
  <2>4. QueueOwnsItsBuffers' /\ HoldersInv'
    BY <2>1, <2>2, <2>3 DEF QueueOwnsItsBuffers, HoldersInv
  <2>5. EveryBufferHasAnOwner'
    <3>1. heap = Entries \union {buf[t] : t \in {u \in Client : Holds(u)}}
      BY DEF EveryBufferHasAnOwner, Holds
    <3>2. heap' = Entries' \union {buf'[t] : t \in {u \in Client : Holds(u)'}}
      BY <2>1, <2>2, <2>3, <3>1
    <3> QED BY <3>2 DEF EveryBufferHasAnOwner, Holds
  <2> QED BY <2>2, <2>4, <2>5
<1>5. ASSUME NEW s \in Client, EndReceive(s) PROVE IndInv'
  <2>1. TypeOK' /\ UNCHANGED <<queue, heap, buf>>
    BY <1>5 DEF EndReceive, Goto, TypeOK, Label
  <2>2. IndexInv' /\ \A t \in Client : Holds(t)' <=> Holds(t)
    BY <1>5 DEF EndReceive, Goto, TypeOK, IndexInv, Holds
  <2> QED BY <2>1, <2>2, QuietStep
<1>6. ASSUME NEW s \in Client, LoseReceive(s) \/ AddRefused(s) PROVE IndInv'
  BY <1>6, HolderFrees DEF LoseReceive, AddRefused, Holds
<1>7. ASSUME NEW s \in Client, ReadIndex(s) PROVE IndInv'
  <2>1. Len(queue) - 1 \in Nat
    BY <1>7 DEF ReadIndex, TypeOK
  <2>2. TypeOK' /\ UNCHANGED <<queue, heap, buf>>
    BY <1>7, <2>1 DEF ReadIndex, Goto, TypeOK, Label, Queued
  <2>3. IndexInv' /\ \A t \in Client : Holds(t)' <=> Holds(t)
    BY <1>7, <2>1 DEF ReadIndex, Goto, TypeOK, IndexInv, Holds
  <2> QED BY <2>2, <2>3, QuietStep
<1>8. ASSUME NEW s \in Client, EndSend(s) PROVE IndInv'
  <2>1. TypeOK' /\ UNCHANGED <<queue, heap, buf>>
    BY <1>8 DEF EndSend, Goto, TypeOK, Label, Queued
  <2>2. IndexInv' /\ \A t \in Client : Holds(t)' <=> Holds(t)
    BY <1>8 DEF EndSend, Goto, TypeOK, IndexInv, Holds
  <2> QED BY <2>1, <2>2, QuietStep
<1>9. ASSUME NEW s \in Client, UseAfterFree(s) PROVE IndInv'
  <2>1. TypeOK' /\ IndexInv' /\ UNCHANGED <<queue, heap, buf, pc>>
    BY <1>9 DEF UseAfterFree, transfer, TypeOK, IndexInv
  <2> QED BY <2>1, QuietStep DEF Holds
<1>10. CASE UNCHANGED vars
  <2>1. TypeOK' /\ IndexInv' /\ UNCHANGED <<queue, heap, buf, pc>>
    BY <1>10 DEF vars, transfer, TypeOK, IndexInv
  <2> QED BY <2>1, QuietStep DEF Holds
<1> QED BY <1>1, <1>2, <1>3, <1>4, <1>5, <1>6, <1>7, <1>8, <1>9, <1>10,
           StartReceiveKeeps, AddKeeps, RemoveEntryKeeps, FreeAllKeeps
        DEF Next, Handler

\* The invariant holds in every state the program reaches.
THEOREM QueueInvariance == Spec => []IndInv
PROOF
<1>1. Init => IndInv
  BY InitIndInv
<1>2. IndInv /\ [Next]_vars => IndInv'
  BY NextIndInv
<1> QED BY <1>1, <1>2, PTL DEF Spec

\* The queue never has more than MAX_UPLOAD_QUEUE entries, whatever the
\* handlers saw when they checked for room.
THEOREM QueueTypeCorrect == Spec => []TypeOK
PROOF
<1>1. IndInv => TypeOK
  BY DEF IndInv
<1> QED BY <1>1, QueueInvariance, PTL

\* remove_from_file_queue never frees a buffer twice and never leaves a freed
\* one queued, although it is called with stale indices.
THEOREM OwnershipCorrect == Spec => []QueueOwnsItsBuffers
PROOF
<1>1. IndInv => QueueOwnsItsBuffers
  BY DEF IndInv
<1> QED BY <1>1, QueueInvariance, PTL

\* No early return of /sendfile loses a buffer.
THEOREM OwnersCorrect == Spec => []EveryBufferHasAnOwner
PROOF
<1>1. IndInv => EveryBufferHasAnOwner
  BY DEF IndInv
<1> QED BY <1>1, QueueInvariance, PTL

-----------------------------------------------------------------------------
(***************************************************************************)
(* The number of transfers.  An entry is added for every handler that      *)
(* becomes active, and a handler removes at most one as it ends.           *)
(***************************************************************************)
\* A step that keeps the handlers' places and the queue's length.
LEMMA SameActive ==
  ASSUME ActiveTransfersBounded, Active' = Active, queue' = queue, phase' = phase
  PROVE  ActiveTransfersBounded'
PROOF
  BY DEF ActiveTransfersBounded

\* No step starts more transfers than the queue has entries for.
LEMMA NextActive ==
  IndInv /\ ActiveTransfersBounded /\ [Next]_vars => ActiveTransfersBounded'
PROOF
<1> SUFFICES ASSUME IndInv, ActiveTransfersBounded, [Next]_vars
             PROVE  ActiveTransfersBounded'
  OBVIOUS
<1>1. TypeOK /\ IndexInv
  BY DEF IndInv
<1>2. IsFiniteSet(Active) /\ Cardinality(Active) \in Nat
  BY FileQueueAssumption, FS_Subset, FS_CardinalityType DEF Active
<1>3. queue \in Seq(Buffer) /\ Len(queue) \in Nat
  BY <1>1 DEF TypeOK
<1>4. ASSUME NEW s \in Client, Login(s) \/ Disconnect(s) \/ UseAfterFree(s)
      PROVE  ActiveTransfersBounded'
  <2>1. UNCHANGED <<pc, queue, phase>>
    BY <1>4 DEF Login, Disconnect, UseAfterFree, transfer
  <2> QED BY <2>1, SameActive DEF Active
<1>5. ASSUME NEW s \in Client,
             \/ \E r \in Client : StartSend(s, r)
             \/ StartReceive(s) \/ RefuseReceive(s) \/ EndReceive(s)
             \/ LoseReceive(s) \/ AddRefused(s) \/ ReadIndex(s) \/ EndSend(s)
      PROVE  ActiveTransfersBounded'
  <2>1. /\ queue' = queue /\ phase' = phase
        /\ \E l \in Label : /\ pc' = [pc EXCEPT ![s] = l]
                            /\ l \in Queued <=> pc[s] \in Queued
    BY <1>5 DEF StartSend, StartReceive, RefuseReceive, EndReceive, LoseReceive,
                AddRefused, ReadIndex, EndSend, Return, Goto, Label, Queued
  <2>2. Active' = Active
    BY <1>1, <2>1 DEF Active, TypeOK
  <2> QED BY <2>1, <2>2, SameActive
<1>6. ASSUME NEW s \in Client, Add(s) PROVE ActiveTransfersBounded'
  <2>1. s \notin Active /\ Active' = Active \union {s} /\ phase' = phase
    BY <1>1, <1>6 DEF Add, Goto, Active, TypeOK, Queued
  <2>2. buf[s] \in Buffer
    BY <1>6 DEF Add, IndInv, HoldersInv, Holds, TypeOK
  <2>3. Len(queue') = Len(queue) + 1
    BY <1>3, <1>6, <2>2, AppendProperties DEF Add
  <2>4. Cardinality(Active') = Cardinality(Active) + 1
    BY <1>2, <2>1, FS_AddElement
  <2> QED BY <1>2, <1>3, <2>1, <2>3, <2>4 DEF ActiveTransfersBounded
<1>7. ASSUME NEW s \in Client, RemoveEntry(s) PROVE ActiveTransfersBounded'
  <2>1. s \in Active /\ Active' = Active \ {s} /\ phase' = phase
    BY <1>1, <1>7 DEF RemoveEntry, Return, Goto, Active, TypeOK, Queued
  <2>2. Cardinality(Active') = Cardinality(Active) - 1
    BY <1>2, <2>1, FS_RemoveElement
  <2>3. Len(queue') >= Len(queue) - 1
    <3>1. CASE index[s] < Len(queue)
      <4>1. index[s] \in Nat
        BY <1>1, <1>7 DEF RemoveEntry, IndexInv
      <4>2. index[s] + 1 \in 1 .. Len(queue) /\ IsInjective(queue)
        BY <1>3, <3>1, <4>1 DEF IndInv, QueueOwnsItsBuffers
      <4>3. Len(queue') = Len(queue) - 1
        BY <1>3, <1>7, <3>1, <4>2, RemoveAtProperties DEF RemoveEntry
      <4> QED BY <1>3, <4>3
    <3>2. CASE ~(index[s] < Len(queue))
      BY <1>3, <1>7, <3>2 DEF RemoveEntry
    <3> QED BY <3>1, <3>2
  <2>4. Len(queue') \in Nat
    BY NextIndInv DEF IndInv, TypeOK
  <2> QED BY <1>2, <1>3, <2>1, <2>2, <2>3, <2>4 DEF ActiveTransfersBounded
<1>8. ASSUME NEW from, NEW to \in {"aborted", "exited"}, FreeAll(from, to)
      PROVE  ActiveTransfersBounded'
  BY <1>8 DEF FreeAll, ActiveTransfersBounded
<1>9. CASE UNCHANGED vars
  <2>1. UNCHANGED <<pc, queue, phase>>
    BY <1>9 DEF vars, transfer
  <2> QED BY <2>1, SameActive DEF Active
<1> QED BY <1>4, <1>5, <1>6, <1>7, <1>8, <1>9 DEF Next, Handler

\* While the server runs there are never more transfers under way than entries
\* in the queue, hence never more than MAX_UPLOAD_QUEUE.
THEOREM ActiveCorrect == Spec => []ActiveTransfersBounded
PROOF
<1>1. Init => ActiveTransfersBounded
  <2> SUFFICES ASSUME Init PROVE Cardinality(Active) <= Len(queue)
    BY DEF ActiveTransfersBounded
  <2>1. Active = {} /\ Len(queue) = 0
    BY DEF Init, Active, Queued
  <2> QED BY <2>1, FS_EmptySet
<1>2. IndInv /\ ActiveTransfersBounded /\ [Next]_vars => ActiveTransfersBounded'
  BY NextActive
<1> QED BY <1>1, <1>2, QueueInvariance, PTL DEF Spec

-----------------------------------------------------------------------------
(***************************************************************************)
(* FileQueue implements FileBuffers.  What makes each operation a step of  *)
(* its own there is IndInv: the buffer that is queued was in nobody's      *)
(* hands but its handler's, and the one an index leads to is queued once.  *)
(***************************************************************************)
\* Own is the buffer of a handler that holds one, and NULL for the others.
LEMMA OwnValues ==
  /\ Own \in [Client -> {buf[s] : s \in Client} \union {NoBuffer}]
  /\ \A s \in Client : Own[s] = IF Holds(s) THEN buf[s] ELSE NoBuffer
PROOF
  BY DEF Own, Holds

\* A step that leaves the holders and their buffers alone.
LEMMA SameOwn ==
  ASSUME \A s \in Client : (Holds(s)' <=> Holds(s)) /\ (Holds(s) => buf'[s] = buf[s])
  PROVE  Own' = Own
PROOF
  BY DEF Own, Holds

\* A step of one handler that makes v its own, or nothing.
LEMMA OneOwn ==
  ASSUME NEW s \in Client, NEW v, v = IF Holds(s)' THEN buf'[s] ELSE NoBuffer,
         \A t \in Client \ {s} :
           (Holds(t)' <=> Holds(t)) /\ (Holds(t) => buf'[t] = buf[t])
  PROVE  Own' = [Own EXCEPT ![s] = v]
PROOF
<1>1. ASSUME NEW t \in Client PROVE Own'[t] = IF t = s THEN v ELSE Own[t]
  <2>1. Own'[t] = IF Holds(t)' THEN buf'[t] ELSE NoBuffer
    BY DEF Own, Holds
  <2>2. Own[t] = IF Holds(t) THEN buf[t] ELSE NoBuffer
    BY DEF Own, Holds
  <2> QED BY <2>1, <2>2
<1>2. Own' = [t \in Client |-> Own'[t]] /\ Own = [t \in Client |-> Own[t]]
  BY DEF Own
<1> HIDE DEF Own
<1> QED BY <1>1, <1>2

\* The queue has no more different buffers than entries.
LEMMA EntriesBounded ==
  ASSUME NEW S, queue \in Seq(S)
  PROVE  Cardinality(Entries) <= Len(queue) /\ Cardinality(Entries) \in Nat
PROOF
<1>1. IsFiniteSet(1 .. Len(queue)) /\ Cardinality(1 .. Len(queue)) = Len(queue)
  <2> DEFINE n == Len(queue)
  <2>1. n \in Nat
    BY LenProperties
  <2> HIDE DEF n
  <2>2. IsFiniteSet(1 .. n) /\ Cardinality(1 .. n) = IF 1 > n THEN 0 ELSE n - 1 + 1
    BY <2>1, FS_Interval
  <2> QED BY <2>1, <2>2 DEF n
<1>2. queue \in [1 .. Len(queue) -> S] /\ DOMAIN queue = 1 .. Len(queue)
  BY LenProperties
<1>3. Entries = {queue[i] : i \in 1 .. Len(queue)}
  BY <1>2 DEF Entries
<1>4. queue \in Surjection(1 .. Len(queue), Entries)
  BY <1>2, <1>3 DEF Surjection
<1>5. IsFiniteSet(Entries) /\ Cardinality(Entries) <= Cardinality(1 .. Len(queue))
  BY <1>1, <1>4, FS_Surjection
<1> QED BY <1>1, <1>5, FS_CardinalityType

\* A buffer that a handler holds is no NULL.
LEMMA HeldBuffer ==
  ASSUME IndInv, NEW s \in Client, Holds(s)
  PROVE  Own[s] = buf[s] /\ buf[s] \in heap \ Entries
PROOF
  BY OwnValues DEF IndInv, HoldersInv

\* The steps that neither allocate, queue nor free.
LEMMA QuietOwnership ==
  ASSUME UNCHANGED <<queue, heap>>, Own' = Own
  PROVE  UNCHANGED Ownership!vars
PROOF
  BY DEF Ownership!vars, Entries

\* malloc of the file's size.
LEMMA ReceiveAllocates ==
  ASSUME IndInv, NEW s \in Client, StartReceive(s)
  PROVE  Ownership!Allocate(s)
PROOF
<1> PICK b \in Unused : buf' = [buf EXCEPT ![s] = b] /\ heap' = heap \union {b}
  BY DEF StartReceive
<1>1. b \in Buffer \ heap
  BY DEF Unused
<1>2. TypeOK
  BY DEF IndInv
<1>3. /\ ~Holds(s) /\ Holds(s)' /\ buf'[s] = b
      /\ \A t \in Client \ {s} : (Holds(t)' <=> Holds(t)) /\ buf'[t] = buf[t]
  BY <1>2 DEF StartReceive, Goto, TypeOK, Holds
<1>4. Own' = [Own EXCEPT ![s] = b]
  BY <1>3, OneOwn
<1>5. Own[s] = NoBuffer
  BY <1>3, OwnValues
<1>6. Entries' = Entries
  BY DEF StartReceive, Entries
<1> QED BY <1>1, <1>4, <1>5, <1>6 DEF Ownership!Allocate

\* add_to_file_queue takes the buffer over.
LEMMA AddHandsOver ==
  ASSUME IndInv, NEW s \in Client, Add(s)
  PROVE  Ownership!HandOver(s)
PROOF
<1>1. Holds(s) /\ TypeOK /\ queue \in Seq(Buffer) /\ IsInjective(queue)
  BY DEF Add, Holds, IndInv, TypeOK, QueueOwnsItsBuffers
<1>2. Own[s] = buf[s] /\ buf[s] \in heap \ Entries
  BY <1>1, HeldBuffer
<1>3. buf[s] \in Buffer
  BY <1>1, <1>2 DEF TypeOK
<1>4. Entries' = Entries \union {buf[s]}
  BY <1>1, <1>2, <1>3, AppendElements DEF Add, Entries
<1>5. /\ ~Holds(s)' /\ buf' = buf /\ heap' = heap
      /\ \A t \in Client \ {s} : Holds(t)' <=> Holds(t)
  BY <1>1 DEF Add, Goto, TypeOK, Holds
<1>6. Own' = [Own EXCEPT ![s] = NoBuffer]
  BY <1>5, OneOwn
<1>7. Cardinality(Entries) < MaxUploadQueue
  <2>1. Len(queue) < MaxUploadQueue /\ Len(queue) \in Nat
    BY <1>1, LenProperties DEF Add
  <2> QED BY <1>1, <2>1, EntriesBounded, FileQueueAssumption
<1>8. Own[s] \in heap \ Entries /\ Entries' = Entries \union {Own[s]} /\ heap' = heap
  BY <1>2, <1>4, <1>5
<1>9. Ownership!Cardinality(Entries) = Cardinality(Entries)
  BY DEF Cardinality, Ownership!Cardinality
<1> QED BY Zenon, <1>6, <1>7, <1>8, <1>9 DEF Ownership!HandOver, Ownership!LetGo

\* The early returns behind the allocation free the handler's own buffer.
LEMMA HolderGivesUp ==
  ASSUME IndInv, NEW s \in Client, LoseReceive(s) \/ AddRefused(s)
  PROVE  Ownership!GiveUp(s)
PROOF
<1>1. Holds(s) /\ Return(s) /\ heap' = heap \ {buf[s]} /\ queue' = queue /\ TypeOK
  BY DEF LoseReceive, AddRefused, Holds, IndInv
<1>2. Own[s] = buf[s] /\ buf[s] \in heap \ Entries
  BY <1>1, HeldBuffer
<1>3. /\ ~Holds(s)'
      /\ \A t \in Client \ {s} : (Holds(t)' <=> Holds(t)) /\ buf'[t] = buf[t]
  BY <1>1, ReturnProperties DEF Holds
<1>4. Own' = [Own EXCEPT ![s] = NoBuffer]
  BY <1>3, OneOwn
<1>5. Entries' = Entries
  BY <1>1 DEF Entries
<1> QED BY <1>1, <1>2, <1>4, <1>5 DEF Ownership!GiveUp, Ownership!LetGo

\* remove_from_file_queue, whosever entry the index leads to.
LEMMA RemoveEntryRemoves ==
  ASSUME IndInv, NEW s \in Client, RemoveEntry(s)
  PROVE  Ownership!Remove \/ UNCHANGED Ownership!vars
PROOF
<1>1. /\ Return(s) /\ index[s] \in Nat /\ ~Holds(s) /\ TypeOK
      /\ queue \in Seq(Buffer) /\ IsInjective(queue)
  BY DEF RemoveEntry, IndexInv, Holds, IndInv, TypeOK, QueueOwnsItsBuffers
<1>2. Own' = Own
  <2>1. \A t \in Client : (Holds(t)' <=> Holds(t)) /\ (Holds(t) => buf'[t] = buf[t])
    BY <1>1, ReturnProperties DEF Holds
  <2> QED BY <2>1, SameOwn
<1>3. CASE index[s] < Len(queue)
  <2> DEFINE k == index[s] + 1
  <2>1. k \in 1 .. Len(queue) /\ k \in DOMAIN queue
    BY <1>1, <1>3
  <2>2. queue' = RemoveAt(queue, k) /\ heap' = heap \ {queue[k]}
    BY <1>3 DEF RemoveEntry
  <2> HIDE DEF k
  <2>3. Entries' = Entries \ {queue[k]}
    <3> DEFINE r == RemoveAt(queue, k)
    <3>1. /\ r \in Seq(Buffer) /\ Len(r) = Len(queue) - 1 /\ IsInjective(r)
          /\ {r[i] : i \in DOMAIN r} = {queue[i] : i \in DOMAIN queue} \ {queue[k]}
      BY <1>1, <2>1, RemoveAtProperties
    <3>2. queue' = r
      BY <2>2
    <3> HIDE DEF r
    <3> QED BY <3>1, <3>2 DEF Entries
  <2>4. queue[k] \in Entries
    BY <2>1 DEF Entries
  <2> QED BY <1>2, <2>2, <2>3, <2>4 DEF Ownership!Remove
<1>4. CASE ~(index[s] < Len(queue))
  <2>1. queue' = queue /\ heap' = heap
    BY <1>4 DEF RemoveEntry
  <2> QED BY <1>2, <2>1, QuietOwnership
<1> QED BY <1>3, <1>4

\* abort_all_file_transfers and cleanup_file_queue.
LEMMA FreeAllEmpties ==
  ASSUME NEW from, NEW to, FreeAll(from, to)
  PROVE  Ownership!Empty
PROOF
<1>1. queue' = <<>> /\ heap' = heap \ Entries /\ pc' = pc /\ buf' = buf
  BY DEF FreeAll, transfer
<1>2. Entries' = {}
  <2>1. DOMAIN queue' = {}
    BY <1>1
  <2> QED BY <2>1 DEF Entries
<1>3. Own' = Own
  BY <1>1, SameOwn DEF Holds
<1> QED BY <1>1, <1>2, <1>3 DEF Ownership!Empty

\* Each step of the handlers is one operation on the buffers, or none: every
\* buffer has one owner from its allocation on, which frees it or hands it over
\* to the queue, and it is freed once, although the indices handlers remove
\* entries by may be stale (file_transfer.c:60-118, server_helper.c:1097-1106).
THEOREM BuffersRefinement == Spec => ImplementsFileBuffers
PROOF
<1>1. Init => Ownership!Init
  <2> SUFFICES ASSUME Init PROVE Ownership!Init
    OBVIOUS
  <2>1. Entries = {}
    <3>1. DOMAIN queue = {}
      BY DEF Init
    <3> QED BY <3>1 DEF Entries
  <2>2. Own = [s \in Client |-> NoBuffer]
    BY DEF Init, Own
  <2> QED BY <2>1, <2>2 DEF Init, Ownership!Init
<1>2. IndInv /\ [Next]_vars => [Ownership!Next]_(Ownership!vars)
  <2> SUFFICES ASSUME IndInv, [Next]_vars
               PROVE  Ownership!Next \/ UNCHANGED Ownership!vars
    OBVIOUS
  <2>0. TypeOK
    BY DEF IndInv
  <2>1. ASSUME NEW s \in Client,
               \/ Login(s) \/ Disconnect(s) \/ UseAfterFree(s)
               \/ \E r \in Client : StartSend(s, r)
               \/ EndReceive(s) \/ ReadIndex(s) \/ EndSend(s)
        PROVE  UNCHANGED Ownership!vars
    <3>1. queue' = queue /\ heap' = heap /\ buf' = buf
      BY <2>1 DEF Login, Disconnect, UseAfterFree, StartSend, EndReceive, ReadIndex,
                  EndSend, transfer
    <3>2. \A t \in Client : Holds(t)' <=> Holds(t)
      BY <2>0, <2>1 DEF Login, Disconnect, UseAfterFree, StartSend, EndReceive,
                        ReadIndex, EndSend, transfer, Goto, Holds, TypeOK
    <3>3. Own' = Own
      BY <3>1, <3>2, SameOwn
    <3> QED BY <3>1, <3>3, QuietOwnership
  <2>2. ASSUME NEW s \in Client, RefuseReceive(s) PROVE UNCHANGED Ownership!vars
    <3>1. queue' = queue /\ heap' = heap /\ Return(s) /\ ~Holds(s)
      BY <2>2 DEF RefuseReceive, Holds
    <3>2. \A t \in Client : (Holds(t)' <=> Holds(t)) /\ (Holds(t) => buf'[t] = buf[t])
      BY <2>0, <3>1, ReturnProperties DEF Holds
    <3>3. Own' = Own
      BY <3>2, SameOwn
    <3> QED BY <3>1, <3>3, QuietOwnership
  <2>3. ASSUME NEW s \in Client, StartReceive(s) PROVE Ownership!Next
    BY <2>3, ReceiveAllocates DEF Ownership!Next
  <2>4. ASSUME NEW s \in Client, Add(s) PROVE Ownership!Next
    BY <2>4, AddHandsOver DEF Ownership!Next
  <2>5. ASSUME NEW s \in Client, LoseReceive(s) \/ AddRefused(s) PROVE Ownership!Next
    BY <2>5, HolderGivesUp DEF Ownership!Next
  <2>6. ASSUME NEW s \in Client, RemoveEntry(s)
        PROVE  Ownership!Next \/ UNCHANGED Ownership!vars
    BY <2>6, RemoveEntryRemoves DEF Ownership!Next
  <2>7. ASSUME NEW from, NEW to, FreeAll(from, to) PROVE Ownership!Next
    BY <2>7, FreeAllEmpties DEF Ownership!Next
  <2>8. CASE UNCHANGED vars
    <3>1. UNCHANGED <<queue, heap, buf, pc>>
      BY <2>8 DEF vars, transfer
    <3>2. Own' = Own
      BY <3>1 DEF Own
    <3> QED BY <3>1, <3>2, QuietOwnership
  <2> QED
    BY <2>1, <2>2, <2>3, <2>4, <2>5, <2>6, <2>7, <2>8 DEF Next, Handler
<1> QED
  BY <1>1, <1>2, QueueInvariance, PTL
     DEF Spec, ImplementsFileBuffers, Ownership!Spec

-----------------------------------------------------------------------------
(***************************************************************************)
(* One transfer at a time.                                                 *)
(***************************************************************************)
\* While no two transfers have overlapped, the one that is queued has the only
\* entry, at index 0, and takes it away when it ends.
LoneInv ==
  ~overlapped =>
    /\ Active = {} => queue = <<>>
    /\ \A s, t \in Active : s = t
    /\ Len(queue) <= 1
    /\ \A s \in Client :
         pc[s] \in {"sending", "removing"} /\ queue # <<>> => index[s] = 0

\* A step that leaves the queue alone, and the transfers that are in it.
LEMMA QuietLone ==
  ASSUME LoneInv, UNCHANGED <<queue, overlapped>>, Active' = Active,
         \A s \in Client : pc'[s] \in {"sending", "removing"} =>
           pc[s] \in {"sending", "removing"} /\ index'[s] = index[s]
  PROVE  LoneInv'
PROOF
  BY DEF LoneInv

\* The transfer that is queued next finds the queue empty, or overlaps.
LEMMA AddLone ==
  ASSUME IndInv, LoneInv, NEW s \in Client, Add(s)
  PROVE  LoneInv'
PROOF
<1> SUFFICES ASSUME ~overlapped'
             PROVE  /\ Active' = {} => queue' = <<>>
                    /\ \A u, v \in Active' : u = v
                    /\ Len(queue') <= 1
                    /\ \A t \in Client :
                         pc'[t] \in {"sending", "removing"} /\ queue' # <<>>
                           => index'[t] = 0
  BY DEF LoneInv
<1>1. Active = {} /\ (overlapped => queue = <<>>)
  BY Zenon DEF Add
<1>2. queue = <<>>
  BY <1>1, Zenon DEF LoneInv
<1>3. pc' = [pc EXCEPT ![s] = "indexing"] /\ queue' = Append(queue, buf[s])
  BY DEF Add, Goto
<1>4. pc'[s] = "indexing" /\ \A t \in Client \ {s} : pc'[t] = pc[t] /\ pc[t] \notin Queued
  BY <1>1, <1>3 DEF IndInv, TypeOK, Active
<1>5. Active' = {s}
  BY <1>4 DEF Active, Queued
<1>6. Len(queue') = 1
  BY <1>2, <1>3
<1>7. \A t \in Client : pc'[t] \notin {"sending", "removing"}
  BY <1>4 DEF Queued
<1> QED BY <1>5, <1>6, <1>7

\* The index a lone transfer reads is that of its entry.
LEMMA ReadIndexLone ==
  ASSUME IndInv, LoneInv, NEW s \in Client, ReadIndex(s)
  PROVE  LoneInv'
PROOF
<1>1. /\ pc[s] = "indexing" /\ Len(queue) > 0 /\ pc' = [pc EXCEPT ![s] = "sending"]
      /\ index' = [index EXCEPT ![s] = Len(queue) - 1]
      /\ UNCHANGED <<queue, overlapped>>
  BY DEF ReadIndex, Goto
<1>2. /\ pc'[s] = "sending" /\ index'[s] = Len(queue) - 1 /\ Len(queue) \in Nat
      /\ \A t \in Client \ {s} : pc'[t] = pc[t] /\ index'[t] = index[t]
  BY <1>1 DEF IndInv, TypeOK
<1>3. Active' = Active
  BY <1>1, <1>2 DEF Active, Queued
<1>4. Len(queue) <= 1 => index'[s] = 0
  <2> DEFINE n == Len(queue)
  <2>1. n \in Nat /\ n > 0 /\ index'[s] = n - 1
    BY <1>1, <1>2
  <2> HIDE DEF n
  <2>2. n <= 1 => index'[s] = 0
    BY <2>1
  <2> QED BY <2>2 DEF n
<1> QED BY <1>1, <1>2, <1>3, <1>4 DEF LoneInv

\* A lone transfer takes its entry away, and the queue is empty again.
LEMMA RemoveEntryLone ==
  ASSUME IndInv, LoneInv, NEW s \in Client, RemoveEntry(s)
  PROVE  LoneInv'
PROOF
<1>1. /\ pc[s] = "removing" /\ Return(s) /\ overlapped' = overlapped
      /\ queue \in Seq(Buffer) /\ TypeOK
  BY DEF RemoveEntry, IndInv, TypeOK
<1>2. pc'[s] = "idle" /\ \A t \in Client \ {s} : pc'[t] = pc[t] /\ index'[t] = index[t]
  BY <1>1, ReturnProperties
<1> SUFFICES ASSUME ~overlapped PROVE LoneInv'
  BY <1>1 DEF LoneInv
<1>3. s \in Active /\ Active = {s}
  BY <1>1 DEF LoneInv, Active, Queued
<1>4. Active' = {}
  BY <1>2, <1>3 DEF Active, Queued
<1>5. queue' = <<>>
  <2>1. CASE queue = <<>>
    <3>1. Len(queue) = 0
      BY <2>1
    <3>2. index[s] \in Nat
      BY <1>1 DEF IndInv, IndexInv
    <3> QED BY <2>1, <3>1, <3>2 DEF RemoveEntry
  <2>2. CASE queue # <<>>
    <3>1. index[s] = 0
      BY <1>1, <2>2 DEF LoneInv
    <3>2. Len(queue) = 1
      <4> DEFINE n == Len(queue)
      <4>1. n <= 1 /\ n \in Nat
        BY <1>1 DEF LoneInv
      <4>2. n # 0
        BY <1>1, <2>2
      <4> HIDE DEF n
      <4>3. n = 1
        BY <4>1, <4>2
      <4> QED BY <4>3 DEF n
    <3>3. queue' = RemoveAt(queue, 1)
      BY <3>1, <3>2 DEF RemoveEntry
    <3>4. RemoveAt(queue, 1) \in Seq(Buffer) /\ Len(RemoveAt(queue, 1)) = 0
      BY <1>1, <3>2, RemoveAtProperties DEF IndInv, QueueOwnsItsBuffers
    <3> DEFINE r == RemoveAt(queue, 1)
    <3> HIDE DEF r
    <3>5. r \in Seq(Buffer) /\ Len(r) = 0
      BY <3>4 DEF r
    <3> QED BY <3>3, <3>5 DEF r
  <2> QED BY <2>1, <2>2
<1>6. Len(queue') <= 1 /\ \A u, v \in Active' : u = v
  BY <1>4, <1>5
<1>7. \A t \in Client : pc'[t] \notin {"sending", "removing"}
  BY <1>4 DEF Active, Queued
<1> QED BY <1>4, <1>5, <1>6, <1>7 DEF LoneInv

\* Every step keeps a lone transfer's entry its own.
LEMMA NextLone == IndInv /\ LoneInv /\ [Next]_vars => LoneInv'
PROOF
<1> SUFFICES ASSUME IndInv, LoneInv, [Next]_vars PROVE LoneInv'
  OBVIOUS
<1>0. TypeOK
  BY DEF IndInv
<1>1. ASSUME NEW s \in Client,
             \/ Login(s) \/ Disconnect(s) \/ UseAfterFree(s)
             \/ \E r \in Client : StartSend(s, r)
             \/ StartReceive(s) \/ EndReceive(s) \/ EndSend(s)
      PROVE  LoneInv'
  <2>1. queue' = queue /\ overlapped' = overlapped /\ index' = index
    BY <1>1 DEF Login, Disconnect, UseAfterFree, StartSend, StartReceive, EndReceive,
                EndSend, transfer
  <2>2. \/ pc' = pc
        \/ \E l \in {"uploading", "receiving", "adding"} :
             pc[s] \notin Queued /\ pc' = [pc EXCEPT ![s] = l]
        \/ pc[s] = "sending" /\ pc' = [pc EXCEPT ![s] = "removing"]
    <3>1. CASE Login(s) \/ Disconnect(s) \/ UseAfterFree(s)
      BY <3>1 DEF Login, Disconnect, UseAfterFree, transfer
    <3>2. CASE StartReceive(s) \/ EndReceive(s) \/ \E r \in Client : StartSend(s, r)
      BY <3>2 DEF StartSend, StartReceive, EndReceive, Goto, Queued
    <3>3. CASE EndSend(s)
      BY <3>3 DEF EndSend, Goto
    <3> QED BY <1>1, <3>1, <3>2, <3>3
  <2>3. \A t \in Client :
          /\ pc'[t] \in Queued <=> pc[t] \in Queued
          /\ pc'[t] \in {"sending", "removing"} => pc[t] \in {"sending", "removing"}
    BY <1>0, <2>2 DEF Queued, TypeOK
  <2>4. Active' = Active
    BY <2>3 DEF Active
  <2> QED BY <2>1, <2>3, <2>4, QuietLone
<1>2. ASSUME NEW s \in Client, RefuseReceive(s) \/ LoseReceive(s) \/ AddRefused(s)
      PROVE  LoneInv'
  <2>1. /\ Return(s) /\ pc[s] \notin Queued /\ queue' = queue
        /\ overlapped' = overlapped
    BY <1>2 DEF RefuseReceive, LoseReceive, AddRefused, Queued
  <2>2. pc'[s] = "idle" /\ \A t \in Client \ {s} : pc'[t] = pc[t] /\ index'[t] = index[t]
    BY <1>0, <2>1, ReturnProperties
  <2>3. Active' = Active
    BY <2>1, <2>2 DEF Active, Queued
  <2> QED BY <2>1, <2>2, <2>3, QuietLone
<1>3. ASSUME NEW from, NEW to, FreeAll(from, to) PROVE LoneInv'
  <2>1. queue' = <<>> /\ UNCHANGED <<pc, index, overlapped>> /\ Active' = Active
    BY <1>3 DEF FreeAll, transfer, Active
  <2>2. Len(queue') = 0
    BY <2>1
  <2> QED BY <2>1, <2>2 DEF LoneInv
<1>4. CASE UNCHANGED vars
  BY <1>4, QuietLone DEF vars, transfer, Active
<1> QED BY <1>1, <1>2, <1>3, <1>4, AddLone, ReadIndexLone, RemoveEntryLone
        DEF Next, Handler

\* With one transfer at a time no file data is left when it ends; only the
\* indices of transfers that overlap lose a buffer.
THEOREM FreedCorrect == Spec => []FreedUnlessOverlapped
PROOF
<1>1. Init => LoneInv
  <2> SUFFICES ASSUME Init PROVE LoneInv
    OBVIOUS
  <2>1. queue = <<>> /\ Len(queue) = 0 /\ Active = {}
    BY DEF Init, Active, Queued
  <2>2. \A s, t \in Active : s = t
    BY <2>1
  <2> QED BY <2>1, <2>2 DEF LoneInv
<1>2. IndInv /\ LoneInv /\ [Next]_vars => LoneInv'
  BY NextLone
<1>3. IndInv /\ LoneInv => FreedUnlessOverlapped
  <2> SUFFICES ASSUME IndInv, LoneInv, ~overlapped,
                      \A s \in Client : pc[s] = "idle"
               PROVE  heap = {}
    BY DEF FreedUnlessOverlapped
  <2>1. Active = {}
    BY DEF Active, Queued
  <2>2. DOMAIN queue = {}
    <3>1. queue = <<>>
      BY <2>1 DEF LoneInv
    <3> QED BY <3>1
  <2>3. Entries = {}
    BY <2>2 DEF Entries
  <2> QED BY <2>3 DEF IndInv, EveryBufferHasAnOwner
<1> QED BY <1>1, <1>2, <1>3, QueueInvariance, PTL DEF Spec
=============================================================================
