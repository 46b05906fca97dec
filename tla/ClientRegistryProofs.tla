------------------------ MODULE ClientRegistryProofs ------------------------
(***************************************************************************)
(* Proofs about ClientRegistry, for any number of threads, names,          *)
(* descriptors and allocations.                                            *)
(*                                                                         *)
(* That a search by socket leads a session to its own entry rests on three *)
(* facts: no two connected threads have one descriptor (SocketsInv), an    *)
(* entry keeps the descriptor of the thread that added it (OwnInv), and an *)
(* entry that an earlier connection has left under the same descriptor is  *)
(* further down in the list (OrderInv).  That only logins that met can lead *)
(* to one name twice rests on what a login knows between its search and    *)
(* add_client (NamesInv).                                                  *)
(***************************************************************************)
EXTENDS ClientRegistry, SequenceLemmas, FiniteSetTheorems, TLAPS

PlacesInv ==
  \A t \in Thread :
    /\ pc[t] \in {"none", "login", "adding"} => own[t] = NoInfo
    /\ pc[t] \in {"looping", "whispering", "removing"} => own[t] # NoInfo
    /\ pc[t] # "none" => fd[t] \in Fd

SocketsInv ==
  /\ \A t \in Thread : Connected(t) => fd[t] \in open
  /\ \A t, v \in Thread : Connected(t) /\ Connected(v) /\ fd[t] = fd[v] => t = v

OwnInv ==
  /\ \A t, v \in Thread : Registered(t) /\ own[t] = own[v] => t = v
  /\ \A t \in Thread : own[t] \in Listed => ufd[own[t]] = fd[t]

OrderInv ==
  \A t \in Thread : Connected(t) =>
    \A j, k \in DOMAIN clients :
      clients[j] = own[t] /\ ufd[clients[k]] = fd[t] => j <= k

EntriesAt(f)  == {i \in Listed : ufd[i] = f}
SessionsAt(f) == {t \in Thread : Registered(t) /\ fd[t] = f}
Sessions      == {t \in Thread : Registered(t)}

CountInv ==
  /\ IsFiniteSet(Listed)
  /\ OneEntryPerSession
  /\ ActiveCountIsSessions

IndInv == TypeOK /\ PlacesInv /\ SocketsInv /\ OwnInv /\ OrderInv /\ CountInv

-----------------------------------------------------------------------------
(***************************************************************************)
(* Counting.                                                               *)
(***************************************************************************)
\* The sets that are counted are finite.
LEMMA CountedSets ==
  ASSUME IndInv
  PROVE  /\ IsFiniteSet(Sessions) /\ Cardinality(Sessions) \in Nat
         /\ \A f \in Fd :
              /\ IsFiniteSet(EntriesAt(f)) /\ Cardinality(EntriesAt(f)) \in Nat
              /\ IsFiniteSet(SessionsAt(f)) /\ Cardinality(SessionsAt(f)) \in Nat
              /\ Cardinality(EntriesAt(f)) = Cardinality(SessionsAt(f))
         /\ active = Cardinality(Sessions)
PROOF
<1>1. IsFiniteSet(Thread) /\ IsFiniteSet(Listed)
  BY RegistryAssumption DEF IndInv, CountInv
<1>2. IsFiniteSet(Sessions) /\ Cardinality(Sessions) \in Nat
  BY <1>1, FS_Subset, FS_CardinalityType DEF Sessions
<1>3. ASSUME NEW f \in Fd
      PROVE  /\ IsFiniteSet(EntriesAt(f)) /\ Cardinality(EntriesAt(f)) \in Nat
             /\ IsFiniteSet(SessionsAt(f)) /\ Cardinality(SessionsAt(f)) \in Nat
             /\ Cardinality(EntriesAt(f)) = Cardinality(SessionsAt(f))
  <2>1. IsFiniteSet(EntriesAt(f)) /\ IsFiniteSet(SessionsAt(f))
    BY <1>1, FS_Subset DEF EntriesAt, SessionsAt
  <2>2. Cardinality(EntriesAt(f)) = Cardinality(SessionsAt(f))
    BY DEF IndInv, CountInv, OneEntryPerSession, EntriesAt, SessionsAt
  <2> QED BY <2>1, <2>2, FS_CardinalityType
<1>4. active = Cardinality(Sessions)
  BY DEF IndInv, CountInv, ActiveCountIsSessions, Sessions
<1> QED BY <1>2, <1>3, <1>4

\* An entry with the thread's descriptor is there to be removed.
LEMMA EntryToRemove ==
  ASSUME IndInv, NEW t \in Thread, Registered(t), fd[t] \in Fd
  PROVE  Matches(ufd, fd[t]) # {}
PROOF
<1>1. t \in SessionsAt(fd[t])
  BY DEF SessionsAt
<1>2. Cardinality(SessionsAt(fd[t])) # 0
  BY <1>1, CountedSets, FS_EmptySet
<1>3. EntriesAt(fd[t]) # {}
  BY <1>2, CountedSets, FS_EmptySet
<1> QED BY <1>3 DEF EntriesAt, Listed, ToSet, Matches

-----------------------------------------------------------------------------
(***************************************************************************)
(* The invariant holds initially, and every step keeps it.                 *)
(***************************************************************************)
LEMMA InitIndInv == Init => IndInv
PROOF
<1> SUFFICES ASSUME Init PROVE IndInv
  OBVIOUS
<1>1. /\ clients \in Seq(Info) /\ DOMAIN clients = {} /\ Listed = {}
      /\ IsInjective(clients)
  BY DEF Init, Listed, ToSet, IsInjective
<1>2. TypeOK
  <2>1. 0 \in 0 .. MaxFd /\ 0 \in Nat
    BY RegistryAssumption
  <2>2. clients \in Seq(Info) /\ IsInjective(clients)
    BY <1>1
  <2> QED BY <2>1, <2>2, Zenon DEF Init, TypeOK, Label
<1>3. PlacesInv /\ SocketsInv
  BY DEF Init, PlacesInv, SocketsInv, Connected
<1>4. OwnInv /\ OrderInv
  BY <1>1 DEF Init, OwnInv, OrderInv, Registered
<1>5. CountInv
  <2>1. \A f \in Fd : EntriesAt(f) = {} /\ SessionsAt(f) = {}
    BY <1>1 DEF Init, EntriesAt, SessionsAt, Registered
  <2>2. Sessions = {}
    BY DEF Init, Sessions, Registered
  <2>3. OneEntryPerSession
    BY <2>1 DEF OneEntryPerSession, EntriesAt, SessionsAt
  <2>4. ActiveCountIsSessions
    BY <2>2, FS_EmptySet DEF Init, ActiveCountIsSessions, Sessions
  <2> QED BY <1>1, <2>3, <2>4, FS_EmptySet DEF CountInv
<1> QED BY <1>2, <1>3, <1>4, <1>5 DEF IndInv

\* A step that leaves the list and the sessions alone.
LEMMA QuietStep ==
  ASSUME IndInv, TypeOK', PlacesInv', SocketsInv', UNCHANGED <<own, listVars>>,
         \A t \in Thread : own[t] # NoInfo =>
           fd'[t] = fd[t] /\ (Connected(t)' => Connected(t))
  PROVE  IndInv'
PROOF
<1>1. UNCHANGED <<clients, uname, ufd, active>> /\ Listed' = Listed
  BY DEF listVars, Listed
<1>2. clients \in Seq(Info) /\ NoInfo \notin Info /\ NoInfo \notin Listed
  BY RegistryAssumption DEF IndInv, TypeOK, Listed, ToSet
<1>3. OwnInv'
  BY <1>1, <1>2 DEF IndInv, OwnInv, Registered
<1>4. OrderInv'
  BY <1>1, <1>2 DEF IndInv, OrderInv
<1>5. CountInv'
  <2>1. \A f \in Fd : EntriesAt(f)' = EntriesAt(f) /\ SessionsAt(f)' = SessionsAt(f)
    BY <1>1 DEF EntriesAt, SessionsAt, Registered
  <2>2. OneEntryPerSession'
    BY <2>1 DEF IndInv, CountInv, OneEntryPerSession, EntriesAt, SessionsAt
  <2>3. ActiveCountIsSessions'
    BY <1>1 DEF IndInv, CountInv, ActiveCountIsSessions, Registered
  <2> QED BY <1>1, <2>2, <2>3 DEF IndInv, CountInv
<1> QED BY <1>3, <1>4, <1>5 DEF IndInv

\* add_client puts the newest entry before all others.
LEMMA AddClientKeeps ==
  ASSUME IndInv, NEW t \in Thread, AddClient(t)
  PROVE  IndInv'
PROOF
<1> DEFINE i == Allocated
<1>1. i \in Unused
  BY DEF AddClient, Allocated
<1>2. /\ pc[t] = "adding" /\ UNCHANGED <<fd, open, sender, target, fault, raced>>
      /\ own' = [own EXCEPT ![t] = i]
      /\ clients' = <<i>> \o clients
      /\ uname' = [uname EXCEPT ![i] = wanted[t]]
      /\ ufd' = [ufd EXCEPT ![i] = fd[t]]
      /\ active' = active + 1
      /\ wanted' = [wanted EXCEPT ![t] = NoUser]
      /\ pc' = [pc EXCEPT ![t] = "looping"]
  BY DEF AddClient, Goto
<1> HIDE DEF i
<1>3. i \in Info /\ i \notin Listed /\ \A v \in Thread : own[v] # i
  BY <1>1 DEF Unused
<1>4. clients \in Seq(Info) /\ IsInjective(clients) /\ NoInfo \notin Info
  BY RegistryAssumption DEF IndInv, TypeOK
<1>5. /\ clients' \in Seq(Info) /\ Len(clients') = Len(clients) + 1
      /\ clients'[1] = i
      /\ \A k \in 2 .. Len(clients) + 1 : clients'[k] = clients[k - 1]
      /\ IsInjective(clients') /\ Listed' = Listed \union {i}
  <2>1. i \notin ToSet(clients)
    BY <1>3 DEF Listed
  <2>2. clients' = <<i>> \o clients /\ i \in Info
    BY <1>2, <1>3
  <2>3. clients' \in Seq(Info) /\ Len(clients') = Len(clients) + 1
    BY <2>1, <2>2, <1>4, PrependElements
  <2>4. /\ clients'[1] = i
        /\ \A k \in 2 .. Len(clients) + 1 : clients'[k] = clients[k - 1]
    BY <2>1, <2>2, <1>4, PrependElements
  <2>5. IsInjective(clients')
    BY <2>1, <2>2, <1>4, PrependElements
  <2>6. Listed' \subseteq Listed \union {i}
    BY <2>3, <2>4, <1>4 DEF Listed, ToSet
  <2>7. ASSUME NEW k \in DOMAIN clients PROVE clients[k] \in Listed'
    <3>1. k + 1 \in DOMAIN clients' /\ clients'[k + 1] = clients[k]
      BY <2>3, <2>4, <1>4
    <3> QED BY <3>1 DEF Listed, ToSet
  <2>8. i \in Listed'
    BY <2>3, <2>4, <1>4 DEF Listed, ToSet
  <2> QED BY <2>3, <2>4, <2>5, <2>6, <2>7, <2>8 DEF Listed, ToSet
<1>6. /\ own[t] = NoInfo /\ own'[t] = i /\ fd[t] \in Fd /\ ufd'[i] = fd[t]
      /\ \A v \in Thread \ {t} : own'[v] = own[v] /\ pc'[v] = pc[v]
      /\ \A j \in Info \ {i} : ufd'[j] = ufd[j]
      /\ pc'[t] = "looping"
  BY <1>2, <1>3 DEF IndInv, TypeOK, PlacesInv
<1>7. TypeOK'
  <2>1. /\ pc' \in [Thread -> Label] /\ wanted' \in [Thread -> User \union {NoUser}]
        /\ own' \in [Thread -> Info \union {NoInfo}]
    BY <1>2, <1>3 DEF IndInv, TypeOK, Label
  <2>2. uname' \in [Info -> User \union {NoUser}] /\ ufd' \in [Info -> 0 .. MaxFd]
    BY <1>2, <1>3 DEF IndInv, TypeOK
  <2>3. active' \in Nat
    BY <1>2 DEF IndInv, TypeOK
  <2> QED BY <1>2, <1>5, <2>1, <2>2, <2>3 DEF IndInv, TypeOK
<1>8. PlacesInv'
  BY <1>2, <1>3, <1>4, <1>6 DEF IndInv, PlacesInv
<1>9. \A v \in Thread : Connected(v)' <=> Connected(v)
  BY <1>2, <1>6 DEF Connected
<1>10. SocketsInv'
  BY <1>2, <1>9 DEF IndInv, SocketsInv
<1>11. OwnInv'
  <2>1. \A u, v \in Thread : Registered(u)' /\ own'[u] = own'[v] => u = v
    BY <1>3, <1>6 DEF IndInv, OwnInv, Registered
  <2>2. \A v \in Thread : own'[v] \in Listed' => ufd'[own'[v]] = fd'[v]
    <3> SUFFICES ASSUME NEW v \in Thread, own'[v] \in Listed'
                 PROVE  ufd'[own'[v]] = fd'[v]
      OBVIOUS
    <3>1. CASE v = t
      BY <3>1, <1>2, <1>6
    <3>2. CASE v # t
      <4>1. own[v] \in Listed
        BY <3>2, <1>3, <1>5, <1>6
      <4>2. own[v] \in Info \ {i}
        BY <4>1, <1>3, <1>4 DEF Listed, ToSet
      <4> QED BY <3>2, <4>1, <4>2, <1>2, <1>6 DEF IndInv, OwnInv
    <3> QED BY <3>1, <3>2
  <2> QED BY <2>1, <2>2 DEF OwnInv
<1>12. OrderInv'
  <2> SUFFICES ASSUME NEW v \in Thread, Connected(v)',
                      NEW j \in DOMAIN clients', NEW k \in DOMAIN clients',
                      clients'[j] = own'[v], ufd'[clients'[k]] = fd'[v]
               PROVE  j <= k
    BY DEF OrderInv
  <2>1. j \in 1 .. Len(clients) + 1 /\ k \in 1 .. Len(clients) + 1 /\ 1 \in DOMAIN clients'
    BY <1>4, <1>5
  <2>2. CASE v = t
    <3>1. j = 1
      BY <2>1, <2>2, <1>5, <1>6 DEF IsInjective
    <3> QED BY <2>1, <3>1
  <2>3. CASE v # t
    <3>1. clients'[j] = own[v] /\ fd'[v] = fd[v] /\ own[v] # i
      BY <2>3, <1>2, <1>3, <1>6
    <3>2. fd[v] # fd[t]
      BY <2>3, <1>2, <1>9 DEF IndInv, SocketsInv, Connected
    <3>3. j # 1 /\ k # 1
      BY <3>1, <3>2, <1>5, <1>6
    <3>4. /\ j - 1 \in DOMAIN clients /\ clients'[j] = clients[j - 1]
          /\ k - 1 \in DOMAIN clients /\ clients'[k] = clients[k - 1]
      <4>1. /\ j \in 2 .. Len(clients) + 1 /\ k \in 2 .. Len(clients) + 1
            /\ j - 1 \in 1 .. Len(clients) /\ k - 1 \in 1 .. Len(clients)
        BY <2>1, <3>3, <1>4
      <4> QED BY <4>1, <1>4, <1>5
    <3>5. clients[k - 1] \in Info \ {i}
      BY <3>4, <1>3, <1>4 DEF Listed, ToSet
    <3>6. clients[j - 1] = own[v] /\ ufd[clients[k - 1]] = fd[v]
      BY <3>1, <3>4, <3>5, <1>6
    <3>7. j - 1 <= k - 1
      BY <3>4, <3>6, <1>9 DEF IndInv, OrderInv
    <3> QED BY <2>1, <3>7
  <2> QED BY <2>2, <2>3
<1>13. CountInv'
  <2>1. IsFiniteSet(Listed')
    BY <1>5, FS_AddElement DEF IndInv, CountInv
  <2>2. Sessions' = Sessions \union {t} /\ t \notin Sessions
    BY <1>3, <1>4, <1>6 DEF Sessions, Registered
  <2>3. ActiveCountIsSessions'
    <3>1. Cardinality(Sessions') = active'
      BY <1>2, <2>2, CountedSets, FS_AddElement
    <3> QED BY <3>1 DEF ActiveCountIsSessions, Sessions
  <2>4. ASSUME NEW f \in Fd
        PROVE  Cardinality(EntriesAt(f)') = Cardinality(SessionsAt(f)')
    <3>1. Listed \subseteq Info \ {i}
      BY <1>3, <1>4 DEF Listed, ToSet
    <3>2. CASE f = fd[t]
      <4>1. EntriesAt(f)' = EntriesAt(f) \union {i} /\ i \notin EntriesAt(f)
        BY <3>1, <3>2, <1>3, <1>5, <1>6 DEF EntriesAt
      <4>2. SessionsAt(f)' = SessionsAt(f) \union {t} /\ t \notin SessionsAt(f)
        BY <3>2, <1>2, <1>3, <1>4, <1>6 DEF SessionsAt, Registered
      <4>3. Cardinality(EntriesAt(f)') = Cardinality(EntriesAt(f)) + 1
        BY <4>1, CountedSets, FS_AddElement
      <4>4. Cardinality(SessionsAt(f)') = Cardinality(SessionsAt(f)) + 1
        BY <4>2, CountedSets, FS_AddElement
      <4> QED BY <4>3, <4>4, CountedSets
    <3>3. CASE f # fd[t]
      <4>1. EntriesAt(f)' = EntriesAt(f)
        BY <3>1, <3>3, <1>5, <1>6 DEF EntriesAt
      <4>2. SessionsAt(f)' = SessionsAt(f)
        BY <3>3, <1>2, <1>6 DEF SessionsAt, Registered
      <4> QED BY <4>1, <4>2, CountedSets
    <3> QED BY <3>2, <3>3
  <2>5. OneEntryPerSession'
    BY <2>4 DEF OneEntryPerSession, EntriesAt, SessionsAt
  <2> QED BY <2>1, <2>3, <2>5 DEF CountInv
<1> QED BY <1>7, <1>8, <1>10, <1>11, <1>12, <1>13 DEF IndInv

\* remove_client takes away one entry with the thread's descriptor, and the
\* thread is none of the sessions any more.
LEMMA RemoveClientKeeps ==
  ASSUME IndInv, NEW t \in Thread, RemoveClient(t)
  PROVE  IndInv'
PROOF
<1> DEFINE m == Min(Matches(ufd, fd[t]))
           i == clients[m]
<1>1. pc[t] = "removing" /\ Registered(t) /\ fd[t] \in Fd
  BY DEF RemoveClient, IndInv, PlacesInv, Registered
<1>2. m \in Matches(ufd, fd[t])
  <2>1. clients \in Seq(Info)
    BY DEF IndInv, TypeOK
  <2>2. Matches(ufd, fd[t]) \subseteq Nat
    BY <2>1 DEF Matches
  <2> QED BY <1>1, <2>2, EntryToRemove, MinOfPositions
<1>3. /\ UNCHANGED <<open, wanted, sender, target, fault, raced>>
      /\ clients' = RemoveAt(clients, m)
      /\ active' = active - 1
      /\ uname' = [uname EXCEPT ![i] = NoUser]
      /\ ufd' = [ufd EXCEPT ![i] = 0]
      /\ fd' = [fd EXCEPT ![t] = 0]
      /\ own' = [own EXCEPT ![t] = NoInfo]
      /\ pc' = [pc EXCEPT ![t] = "none"]
  BY <1>1, EntryToRemove DEF RemoveClient, Goto
<1>4. clients \in Seq(Info) /\ IsInjective(clients) /\ NoInfo \notin Info
      /\ 0 \notin Fd
  BY RegistryAssumption DEF IndInv, TypeOK, Fd
<1> HIDE DEF m
<1>5. m \in 1 .. Len(clients) /\ i \in Listed /\ i \in Info /\ ufd[i] = fd[t]
  <2>1. m \in DOMAIN clients /\ ufd[clients[m]] = fd[t]
    BY <1>2 DEF Matches
  <2>2. clients[m] \in Listed
    BY <2>1 DEF Listed, ToSet
  <2> QED BY <2>1, <2>2, <1>4
<1>6. /\ clients' \in Seq(Info) /\ Len(clients') = Len(clients) - 1
      /\ \A k \in 1 .. Len(clients') :
           clients'[k] = IF k < m THEN clients[k] ELSE clients[k + 1]
      /\ IsInjective(clients') /\ Listed' = Listed \ {i}
  <2> DEFINE r == RemoveAt(clients, m)
  <2>1. /\ r \in Seq(Info) /\ Len(r) = Len(clients) - 1
        /\ \A k \in 1 .. Len(r) : r[k] = IF k < m THEN clients[k] ELSE clients[k + 1]
        /\ IsInjective(r)
        /\ {r[k] : k \in DOMAIN r} = {clients[k] : k \in DOMAIN clients} \ {i}
    <3>1. m \in 1 .. Len(clients)
      BY <1>5
    <3> QED BY <3>1, <1>4, RemoveAtProperties, Zenon
  <2>2. clients' = r
    BY <1>3
  <2> HIDE DEF r, i
  <2> QED BY <2>1, <2>2 DEF Listed, ToSet
<1> HIDE DEF i
<1>7. /\ own'[t] = NoInfo /\ pc'[t] = "none"
      /\ \A v \in Thread \ {t} : own'[v] = own[v] /\ pc'[v] = pc[v] /\ fd'[v] = fd[v]
      /\ \A j \in Info \ {i} : ufd'[j] = ufd[j]
  BY <1>3 DEF IndInv, TypeOK
<1>8. Sessions' = Sessions \ {t} /\ t \in Sessions
  BY <1>1, <1>7 DEF Sessions, Registered
<1>9. Cardinality(Sessions') = active' /\ active' \in Nat
  <2>1. IsFiniteSet(Sessions')
    BY <1>8, CountedSets, FS_RemoveElement
  <2> QED BY <1>3, <1>8, <2>1, CountedSets, FS_RemoveElement, FS_CardinalityType
<1>10. TypeOK'
  <2>1. /\ pc' \in [Thread -> Label] /\ fd' \in [Thread -> 0 .. MaxFd]
        /\ own' \in [Thread -> Info \union {NoInfo}]
    BY <1>3, RegistryAssumption DEF IndInv, TypeOK, Label
  <2>2. uname' \in [Info -> User \union {NoUser}] /\ ufd' \in [Info -> 0 .. MaxFd]
    <3>1. 0 \in 0 .. MaxFd
      BY RegistryAssumption
    <3> HIDE DEF i
    <3> QED BY <3>1, <1>3, <1>5 DEF IndInv, TypeOK
  <2> QED BY <1>3, <1>6, <1>9, <2>1, <2>2 DEF IndInv, TypeOK
<1>11. PlacesInv'
  BY <1>7 DEF IndInv, PlacesInv
<1>12. \A v \in Thread : Connected(v)' => Connected(v) /\ v # t
  BY <1>7 DEF Connected
<1>13. SocketsInv'
  BY <1>3, <1>7, <1>12 DEF IndInv, SocketsInv
<1>14. OwnInv'
  <2>1. \A u, v \in Thread : Registered(u)' /\ own'[u] = own'[v] => u = v
    BY <1>7 DEF IndInv, OwnInv, Registered
  <2>2. \A v \in Thread : own'[v] \in Listed' => ufd'[own'[v]] = fd'[v]
    <3> SUFFICES ASSUME NEW v \in Thread, own'[v] \in Listed'
                 PROVE  ufd'[own'[v]] = fd'[v]
      OBVIOUS
    <3>1. Listed \subseteq Info
      BY <1>4 DEF Listed, ToSet
    <3>2. v # t
      BY <3>1, <1>4, <1>6, <1>7
    <3>3. own[v] \in Listed /\ own[v] \in Info \ {i}
      BY <3>1, <3>2, <1>6, <1>7
    <3> QED BY <3>2, <3>3, <1>7 DEF IndInv, OwnInv
  <2> QED BY <2>1, <2>2 DEF OwnInv
<1>15. OrderInv'
  <2> SUFFICES ASSUME NEW v \in Thread, Connected(v)',
                      NEW j \in DOMAIN clients', NEW k \in DOMAIN clients',
                      clients'[j] = own'[v], ufd'[clients'[k]] = fd'[v]
               PROVE  j <= k
    BY DEF OrderInv
  <2> DEFINE old(n) == IF n < m THEN n ELSE n + 1
  <2>1. j \in 1 .. Len(clients') /\ k \in 1 .. Len(clients')
    BY <1>6
  <2>2. /\ old(j) \in DOMAIN clients /\ clients'[j] = clients[old(j)]
        /\ old(k) \in DOMAIN clients /\ clients'[k] = clients[old(k)]
    BY <2>1, <1>4, <1>5, <1>6
  <2>3. clients'[k] \in Info \ {i}
    <3>1. clients'[k] \in Listed' /\ clients'[k] \in Info
      BY <2>1, <1>6 DEF Listed, ToSet
    <3> QED BY <3>1, <1>6
  <2>4. v # t /\ Connected(v) /\ own'[v] = own[v] /\ fd'[v] = fd[v]
    BY <1>7, <1>12
  <2>5. clients[old(j)] = own[v] /\ ufd[clients[old(k)]] = fd[v]
    BY <2>2, <2>3, <2>4, <1>7
  <2>6. old(j) <= old(k)
    BY <2>2, <2>4, <2>5 DEF IndInv, OrderInv
  <2> QED BY <2>1, <2>6, <1>4, <1>5, <1>6
<1>16. CountInv'
  <2>1. IsFiniteSet(Listed')
    BY <1>6, FS_RemoveElement DEF IndInv, CountInv
  <2>2. ActiveCountIsSessions'
    BY <1>9 DEF ActiveCountIsSessions, Sessions
  <2>3. ASSUME NEW f \in Fd
        PROVE  Cardinality(EntriesAt(f)') = Cardinality(SessionsAt(f)')
    <3>1. Listed \subseteq Info
      BY <1>4 DEF Listed, ToSet
    <3>2. CASE f = fd[t]
      <4>1. EntriesAt(f)' = EntriesAt(f) \ {i} /\ i \in EntriesAt(f)
        BY <3>1, <3>2, <1>5, <1>6, <1>7 DEF EntriesAt
      <4>2. SessionsAt(f)' = SessionsAt(f) \ {t} /\ t \in SessionsAt(f)
        BY <3>2, <1>1, <1>7 DEF SessionsAt, Registered
      <4>3. Cardinality(EntriesAt(f)') = Cardinality(EntriesAt(f)) - 1
        BY <4>1, CountedSets, FS_RemoveElement
      <4>4. Cardinality(SessionsAt(f)') = Cardinality(SessionsAt(f)) - 1
        BY <4>2, CountedSets, FS_RemoveElement
      <4> QED BY <4>3, <4>4, CountedSets
    <3>3. CASE f # fd[t]
      <4>1. EntriesAt(f)' = EntriesAt(f)
        BY <3>1, <3>3, <1>5, <1>6, <1>7 DEF EntriesAt
      <4>2. SessionsAt(f)' = SessionsAt(f)
        BY <3>3, <1>7 DEF SessionsAt, Registered
      <4> QED BY <4>1, <4>2, CountedSets
    <3> QED BY <3>2, <3>3
  <2>4. OneEntryPerSession'
    BY <2>3 DEF OneEntryPerSession, EntriesAt, SessionsAt
  <2> QED BY <2>1, <2>2, <2>4 DEF CountInv
<1> QED BY <1>10, <1>11, <1>13, <1>14, <1>15, <1>16 DEF IndInv

\* What the searches return: an entry or nothing.
LEMMA SearchType ==
  ASSUME TypeOK, NEW field, NEW v
  PROVE  First(Matches(field, v)) \in Info \union {NoInfo}
PROOF
<1>1. clients \in Seq(Info)
  BY DEF TypeOK
<1>2. Matches(field, v) \subseteq Nat
  BY <1>1 DEF Matches
<1>3. CASE Matches(field, v) = {}
  BY <1>3 DEF First
<1>4. CASE Matches(field, v) # {}
  <2>1. Min(Matches(field, v)) \in DOMAIN clients
    BY <1>2, <1>4, MinOfPositions DEF Matches
  <2> QED BY <1>1, <1>4, <2>1 DEF First
<1> QED BY <1>3, <1>4

\* Every step keeps the invariant: one step per action.
LEMMA NextIndInv == IndInv /\ [Next]_vars => IndInv'
PROOF
<1> SUFFICES ASSUME IndInv, [Next]_vars PROVE IndInv'
  OBVIOUS
<1> USE DEF IndInv
<1>1. ASSUME NEW t \in Thread, Accept(t) PROVE IndInv'
  <2> PICK f \in Fd \ open : fd' = [fd EXCEPT ![t] = f] /\ open' = open \union {f}
    BY <1>1 DEF Accept
  <2>1. /\ pc[t] = "none" /\ pc' = [pc EXCEPT ![t] = "login"]
        /\ UNCHANGED <<wanted, sender, target, own, listVars, fault, raced>>
    BY <1>1 DEF Accept, Goto
  <2>2. own[t] = NoInfo
    BY <2>1 DEF PlacesInv
  <2>3. TypeOK'
    BY <2>1 DEF TypeOK, Label, Fd, listVars
  <2>4. PlacesInv'
    BY <2>1, <2>2 DEF TypeOK, PlacesInv
  <2>5. SocketsInv'
    BY <2>1 DEF TypeOK, SocketsInv, Connected
  <2>6. \A v \in Thread : own[v] # NoInfo =>
          fd'[v] = fd[v] /\ (Connected(v)' => Connected(v))
    BY <2>1, <2>2 DEF TypeOK, Connected
  <2> QED BY <2>1, <2>3, <2>4, <2>5, <2>6, QuietStep
<1>2. ASSUME NEW t \in Thread, NEW n \in User, CheckName(t, n) PROVE IndInv'
  <2> USE <1>2 DEF CheckName, FoundFree, Goto
  <2>1. TypeOK' /\ PlacesInv'
    BY DEF TypeOK, Label, PlacesInv, listVars
  <2>2. SocketsInv' /\ UNCHANGED <<fd, own, listVars>>
        /\ \A v \in Thread : Connected(v)' => Connected(v)
    BY DEF TypeOK, SocketsInv, Connected
  <2> QED BY <2>1, <2>2, QuietStep
<1>3. ASSUME NEW t \in Thread, AddFails(t) PROVE IndInv'
  <2> USE <1>3 DEF AddFails, Goto
  <2>1. TypeOK' /\ PlacesInv'
    BY DEF TypeOK, Label, PlacesInv, listVars
  <2>2. SocketsInv' /\ UNCHANGED <<fd, own, listVars>>
        /\ \A v \in Thread : Connected(v)' => Connected(v)
    BY DEF TypeOK, SocketsInv, Connected
  <2> QED BY <2>1, <2>2, QuietStep
<1>4. ASSUME NEW t \in Thread, NEW n \in User, WhisperFind(t, n) PROVE IndInv'
  <2>1. BySocket(fd[t]) \in Info \union {NoInfo} /\ ByName(n) \in Info \union {NoInfo}
    BY SearchType DEF BySocket, ByName
  <2> USE <1>4 DEF WhisperFind, Goto
  <2>2. TypeOK' /\ PlacesInv'
    BY <2>1 DEF TypeOK, Label, PlacesInv, listVars
  <2>3. SocketsInv' /\ UNCHANGED <<fd, own, listVars>>
        /\ \A v \in Thread : Connected(v)' => Connected(v)
    BY DEF TypeOK, SocketsInv, Connected
  <2> QED BY <2>2, <2>3, QuietStep
<1>5. ASSUME NEW t \in Thread, WhisperSend(t) PROVE IndInv'
  <2> USE <1>5 DEF WhisperSend, Goto
  <2>1. TypeOK' /\ PlacesInv'
    BY DEF TypeOK, Label, PlacesInv, listVars
  <2>2. SocketsInv' /\ UNCHANGED <<fd, own, listVars>>
        /\ \A v \in Thread : Connected(v)' => Connected(v)
    BY DEF TypeOK, SocketsInv, Connected
  <2> QED BY <2>1, <2>2, QuietStep
<1>6. ASSUME NEW t \in Thread, CleanupFind(t) PROVE IndInv'
  <2>1. BySocket(fd[t]) \in Info \union {NoInfo}
    BY SearchType DEF BySocket
  <2> USE <1>6 DEF CleanupFind, Goto
  <2>2. TypeOK' /\ PlacesInv'
    BY <2>1 DEF TypeOK, Label, PlacesInv, listVars
  <2>3. SocketsInv' /\ UNCHANGED <<fd, own, listVars>>
        /\ \A v \in Thread : Connected(v)' => Connected(v)
    BY DEF TypeOK, SocketsInv, Connected
  <2> QED BY <2>2, <2>3, QuietStep
<1>7. ASSUME NEW t \in Thread, CleanupClose(t) PROVE IndInv'
  <2>1. /\ pc[t] = "closing" /\ open' = open \ {fd[t]}
        /\ sender' = [sender EXCEPT ![t] = NoInfo]
        /\ UNCHANGED <<wanted, target, own, listVars, fault, raced>>
        /\ IF own[t] # NoInfo
             THEN pc' = [pc EXCEPT ![t] = "removing"] /\ fd' = fd
             ELSE pc' = [pc EXCEPT ![t] = "none"] /\ fd' = [fd EXCEPT ![t] = 0]
    BY <1>7 DEF CleanupClose, Goto, Registered
  <2>2. TypeOK'
    <3>1. 0 \in 0 .. MaxFd
      BY RegistryAssumption
    <3>2. pc' \in [Thread -> Label] /\ fd' \in [Thread -> 0 .. MaxFd]
      BY <2>1, <3>1 DEF TypeOK, Label
    <3> QED BY <2>1, <3>2 DEF TypeOK, listVars
  <2>3. PlacesInv'
    BY <2>1 DEF TypeOK, PlacesInv
  <2>4. SocketsInv'
    BY <2>1 DEF TypeOK, SocketsInv, Connected
  <2>5. \A v \in Thread : own[v] # NoInfo =>
          fd'[v] = fd[v] /\ (Connected(v)' => Connected(v))
    BY <2>1 DEF TypeOK, Connected
  <2> QED BY <2>1, <2>2, <2>3, <2>4, <2>5, QuietStep
<1>8. CASE \/ UNCHANGED vars
           \/ \E t \in Thread : UseAfterFree(t)
  <2>1. UNCHANGED <<threadVars, open, listVars, raced>> /\ fault' \in BOOLEAN
    BY <1>8 DEF vars, UseAfterFree, TypeOK
  <2> USE <2>1 DEF threadVars
  <2>2. TypeOK' /\ PlacesInv'
    BY DEF TypeOK, PlacesInv, listVars
  <2>3. SocketsInv' /\ \A v \in Thread : Connected(v)' => Connected(v)
    BY DEF SocketsInv, Connected
  <2> QED BY <2>2, <2>3, QuietStep
<1> QED BY <1>1, <1>2, <1>3, <1>4, <1>5, <1>6, <1>7, <1>8, AddClientKeeps,
           RemoveClientKeeps DEF Next, Step

-----------------------------------------------------------------------------
\* The invariant holds in every state the program reaches.
THEOREM RegistryInvariance == Spec => []IndInv
PROOF
<1>1. Init => IndInv
  BY InitIndInv
<1>2. IndInv /\ [Next]_vars => IndInv'
  BY NextIndInv
<1> QED BY <1>1, <1>2, PTL DEF Spec

\* A client_info_t is in the list once, and active_client_count is never
\* negative.
THEOREM RegistryTypeCorrect == Spec => []TypeOK
PROOF
<1>1. IndInv => TypeOK
  BY DEF IndInv
<1> QED BY <1>1, RegistryInvariance, PTL

\* remove_client always finds an entry with the descriptor of the session that
\* ends, and leaves as many as there are other sessions with it.
THEOREM EntriesCorrect == Spec => []OneEntryPerSession
PROOF
<1>1. IndInv => OneEntryPerSession
  BY DEF IndInv, CountInv
<1> QED BY <1>1, RegistryInvariance, PTL

\* The count the shutdown waits for is the number of sessions.
THEOREM ActiveCountCorrect == Spec => []ActiveCountIsSessions
PROOF
<1>1. IndInv => ActiveCountIsSessions
  BY DEF IndInv, CountInv
<1> QED BY <1>1, RegistryInvariance, PTL

\* find_client_by_socket leads a session to its own entry while that is listed.
THEOREM OwnEntryFound == Spec => []SocketLeadsToOwnEntry
PROOF
<1>1. IndInv => SocketLeadsToOwnEntry
  <2> SUFFICES ASSUME IndInv, NEW t \in Thread,
                      pc[t] \in {"looping", "whispering", "closing"},
                      own[t] \in Listed
               PROVE  BySocket(fd[t]) = own[t]
    BY DEF SocketLeadsToOwnEntry
  <2> DEFINE K == Matches(ufd, fd[t])
  <2>1. clients \in Seq(Info) /\ Connected(t) /\ ufd[own[t]] = fd[t]
    BY DEF IndInv, TypeOK, Connected, OwnInv
  <2>2. PICK j \in DOMAIN clients : clients[j] = own[t]
    BY DEF Listed, ToSet
  <2>3. K \subseteq Nat /\ j \in K
    BY <2>1, <2>2 DEF Matches
  <2>4. Min(K) \in K /\ Min(K) <= j
    BY <2>3, MinOfPositions
  <2>5. Min(K) \in DOMAIN clients /\ ufd[clients[Min(K)]] = fd[t]
    BY <2>4 DEF Matches
  <2>6. j <= Min(K)
    BY <2>1, <2>2, <2>5 DEF IndInv, OrderInv
  <2>7. Min(K) = j
    BY <2>3, <2>4, <2>6
  <2> QED BY <2>2, <2>3, <2>7 DEF BySocket, First
<1> QED BY <1>1, RegistryInvariance, PTL

\* A whisper reaches the connection of the entry it has found and no other, as
\* long as that connection is open.
THEOREM AddresseeReached == Spec => []ConnectedAddresseeReached
PROOF
<1>1. IndInv => ConnectedAddresseeReached
  BY DEF IndInv, OwnInv, SocketsInv, ConnectedAddresseeReached
<1> QED BY <1>1, RegistryInvariance, PTL

-----------------------------------------------------------------------------
(***************************************************************************)
(* Names.                                                                  *)
(***************************************************************************)
\* A login that is about to add its name is alone with it, among the entries
\* and among the logins, unless the name has been raced for.
NamesInv ==
  /\ DuplicatesRaced
  /\ \A t \in Thread : pc[t] = "adding" =>
       \A i \in Listed : uname[i] = wanted[t] => wanted[t] \in raced
  /\ \A t, v \in Thread :
       t # v /\ pc[t] = "adding" /\ pc[v] = "adding" /\ wanted[t] = wanted[v]
         => wanted[t] \in raced

\* The search by name says "nobody" only when nobody has the name.
LEMMA NobodyHasIt ==
  ASSUME TypeOK, NEW n, ByName(n) = NoInfo, NEW i \in Listed
  PROVE  uname[i] # n
PROOF
<1> SUFFICES ASSUME uname[i] = n PROVE FALSE
  OBVIOUS
<1>1. clients \in Seq(Info) /\ NoInfo \notin Info
  BY RegistryAssumption DEF TypeOK
<1>2. PICK k \in DOMAIN clients : clients[k] = i
  BY DEF Listed, ToSet
<1>3. Matches(uname, n) \subseteq Nat /\ k \in Matches(uname, n)
  BY <1>1, <1>2 DEF Matches
<1>4. Min(Matches(uname, n)) \in Matches(uname, n)
  BY <1>3, MinOfPositions
<1>5. First(Matches(uname, n)) \in Info
  BY <1>1, <1>3, <1>4 DEF First, Matches
<1> QED BY <1>1, <1>5 DEF ByName

\* add_client brings in one entry, with the name of the login.
LEMMA AddClientNames ==
  ASSUME IndInv, NamesInv, NEW t \in Thread, AddClient(t)
  PROVE  NamesInv'
PROOF
<1> DEFINE i == Allocated
<1>1. i \in Unused
  BY DEF AddClient, Allocated
<1>2. /\ pc[t] = "adding" /\ UNCHANGED raced
      /\ clients' = <<i>> \o clients
      /\ uname' = [uname EXCEPT ![i] = wanted[t]]
      /\ wanted' = [wanted EXCEPT ![t] = NoUser]
      /\ pc' = [pc EXCEPT ![t] = "looping"]
  BY DEF AddClient, Goto
<1> HIDE DEF i
<1>3. i \in Info /\ i \notin Listed
  BY <1>1 DEF Unused
<1>4. clients \in Seq(Info) /\ IsInjective(clients)
  BY DEF IndInv, TypeOK
<1>5. Listed' \subseteq Listed \union {i} /\ Listed \subseteq Info
  <2>1. /\ Len(clients') = Len(clients) + 1 /\ clients' \in Seq(Info)
        /\ clients'[1] = i
        /\ \A k \in 2 .. Len(clients) + 1 : clients'[k] = clients[k - 1]
    <3>1. i \notin ToSet(clients)
      BY <1>3 DEF Listed
    <3> QED BY <3>1, <1>2, <1>3, <1>4, PrependElements
  <2>2. Listed' \subseteq Listed \union {i}
    BY <2>1, <1>4 DEF Listed, ToSet
  <2> QED BY <2>2, <1>4 DEF Listed, ToSet
<1>6. /\ uname'[i] = wanted[t] /\ \A j \in Listed : uname'[j] = uname[j]
      /\ \A v \in Thread \ {t} : pc'[v] = pc[v] /\ wanted'[v] = wanted[v]
      /\ pc'[t] = "looping"
  BY <1>2, <1>3, <1>5 DEF IndInv, TypeOK
<1>7. \A j \in Listed : uname[j] = wanted[t] => wanted[t] \in raced
  BY <1>2 DEF NamesInv
<1>8. DuplicatesRaced'
  <2> SUFFICES ASSUME NEW j \in Listed', NEW k \in Listed',
                      uname'[j] = uname'[k], j # k
               PROVE  uname'[j] \in raced
    BY <1>2 DEF DuplicatesRaced
  <2>1. CASE j = i
    BY <2>1, <1>5, <1>6, <1>7
  <2>2. CASE k = i
    BY <2>2, <1>5, <1>6, <1>7
  <2>3. CASE j # i /\ k # i
    <3>1. j \in Listed /\ k \in Listed /\ uname[j] = uname[k] /\ uname'[j] = uname[j]
      BY <2>3, <1>5, <1>6
    <3> QED BY <3>1 DEF NamesInv, DuplicatesRaced
  <2> QED BY <2>1, <2>2, <2>3
<1>9. ASSUME NEW v \in Thread, pc'[v] = "adding", NEW j \in Listed',
             uname'[j] = wanted'[v]
      PROVE  wanted'[v] \in raced
  <2>1. v # t /\ pc[v] = "adding" /\ wanted'[v] = wanted[v]
    BY <1>6, <1>9
  <2>2. CASE j = i
    BY <2>1, <2>2, <1>2, <1>6, <1>9 DEF NamesInv
  <2>3. CASE j # i
    <3>1. j \in Listed /\ uname[j] = wanted[v]
      BY <2>1, <2>3, <1>5, <1>6, <1>9
    <3> QED BY <2>1, <3>1 DEF NamesInv
  <2> QED BY <2>2, <2>3
<1>10. ASSUME NEW u \in Thread, NEW v \in Thread, u # v, pc'[u] = "adding",
              pc'[v] = "adding", wanted'[u] = wanted'[v]
       PROVE  wanted'[u] \in raced
  BY <1>6, <1>10 DEF NamesInv
<1> QED BY <1>2, <1>8, <1>9, <1>10 DEF NamesInv

\* A step that adds no entry and starts no login; entries that stay keep their
\* names.
LEMMA FewerNames ==
  ASSUME NamesInv, Listed' \subseteq Listed,
         \A i \in Listed' : uname'[i] = uname[i], UNCHANGED raced,
         \A t \in Thread : pc'[t] = "adding" =>
           pc[t] = "adding" /\ wanted'[t] = wanted[t]
  PROVE  NamesInv'
PROOF
<1>1. DuplicatesRaced'
  BY DEF NamesInv, DuplicatesRaced
<1>2. \A t \in Thread : pc'[t] = "adding" =>
        \A i \in Listed' : uname'[i] = wanted'[t] => wanted'[t] \in raced'
  BY DEF NamesInv
<1>3. \A t, v \in Thread :
        t # v /\ pc'[t] = "adding" /\ pc'[v] = "adding" /\ wanted'[t] = wanted'[v]
          => wanted'[t] \in raced'
  BY DEF NamesInv
<1> QED BY <1>1, <1>2, <1>3 DEF NamesInv

\* remove_client takes one entry away and leaves the names of the others.
LEMMA RemoveClientNames ==
  ASSUME IndInv, NamesInv, NEW t \in Thread, RemoveClient(t)
  PROVE  NamesInv'
PROOF
<1> DEFINE m == Min(Matches(ufd, fd[t]))
           i == clients[m]
           r == RemoveAt(clients, m)
<1>1. Registered(t) /\ fd[t] \in Fd
  BY DEF RemoveClient, IndInv, PlacesInv, Registered
<1>2. clients \in Seq(Info) /\ IsInjective(clients)
  BY DEF IndInv, TypeOK
<1>3. m \in 1 .. Len(clients)
  <2>1. Matches(ufd, fd[t]) \subseteq Nat
    BY <1>2 DEF Matches
  <2>2. m \in Matches(ufd, fd[t])
    BY <1>1, <2>1, EntryToRemove, MinOfPositions
  <2> QED BY <1>2, <2>2 DEF Matches
<1>4. /\ pc' = [pc EXCEPT ![t] = "none"] /\ UNCHANGED <<wanted, raced>>
      /\ clients' = r /\ uname' = [uname EXCEPT ![i] = NoUser]
  BY <1>1, EntryToRemove DEF RemoveClient, Goto
<1>5. {r[k] : k \in DOMAIN r} = {clients[k] : k \in DOMAIN clients} \ {i}
  BY <1>2, <1>3, RemoveAtProperties, Zenon
<1> HIDE DEF m, i, r
<1>6. Listed' = Listed \ {i} /\ Listed \subseteq Info
  <2>1. Listed = {clients[k] : k \in DOMAIN clients} /\ Listed' = {r[k] : k \in DOMAIN r}
    BY <1>4 DEF Listed, ToSet
  <2>2. Listed \subseteq Info
    BY <1>2 DEF Listed, ToSet
  <2> QED BY <2>1, <2>2, <1>5
<1>7. \A j \in Listed' : uname'[j] = uname[j]
  BY <1>4, <1>6 DEF IndInv, TypeOK
<1>8. \A v \in Thread : pc'[v] = "adding" => pc[v] = "adding" /\ wanted'[v] = wanted[v]
  BY <1>4 DEF IndInv, TypeOK
<1> QED BY <1>4, <1>6, <1>7, <1>8, FewerNames

\* A login that has found the name free knows that no entry has it: no race that
\* is over matters, and one with a login that has found it free, too, is marked.
LEMMA CheckNameNames ==
  ASSUME IndInv, NamesInv, NEW t \in Thread, NEW n \in User, CheckName(t, n)
  PROVE  NamesInv'
PROOF
<1>1. /\ pc[t] = "login" /\ ByName(n) = NoInfo
      /\ pc' = [pc EXCEPT ![t] = "adding"] /\ wanted' = [wanted EXCEPT ![t] = n]
      /\ raced' = IF Racing(t, n) THEN raced \union {n} ELSE raced \ {n}
      /\ UNCHANGED <<clients, uname>> /\ Listed' = Listed
  BY DEF CheckName, FoundFree, Goto, listVars, Listed
<1>2. \A i \in Listed : uname[i] # n
  BY <1>1, NobodyHasIt DEF IndInv
<1>3. /\ \A k \in raced : k # n => k \in raced'
      /\ Racing(t, n) => n \in raced'
      /\ pc'[t] = "adding" /\ wanted'[t] = n
      /\ \A v \in Thread \ {t} : pc'[v] = pc[v] /\ wanted'[v] = wanted[v]
  BY <1>1 DEF IndInv, TypeOK
<1>4. DuplicatesRaced'
  BY <1>1, <1>2, <1>3 DEF NamesInv, DuplicatesRaced
<1>5. \A v \in Thread : pc'[v] = "adding" =>
        \A i \in Listed' : uname'[i] = wanted'[v] => wanted'[v] \in raced'
  BY <1>1, <1>2, <1>3 DEF NamesInv
<1>6. ASSUME NEW v \in Thread, v # t, pc[v] = "adding", wanted[v] = n
      PROVE  n \in raced'
  <2>1. Racing(t, n)
    BY <1>6 DEF Racing
  <2> QED BY <2>1, <1>3
<1>7. ASSUME NEW u \in Thread, NEW v \in Thread, u # v, pc'[u] = "adding",
             pc'[v] = "adding", wanted'[u] = wanted'[v]
      PROVE  wanted'[u] \in raced'
  <2>1. CASE u = t
    BY <2>1, <1>3, <1>6, <1>7
  <2>2. CASE v = t
    BY <2>2, <1>3, <1>6, <1>7
  <2>3. CASE u # t /\ v # t
    <3>1. wanted[u] \in raced
      BY <2>3, <1>3, <1>7 DEF NamesInv
    <3>2. CASE wanted[u] = n
      BY <2>3, <3>2, <1>3, <1>6, <1>7
    <3>3. CASE wanted[u] # n
      BY <2>3, <3>1, <3>3, <1>3
    <3> QED BY <3>2, <3>3
  <2> QED BY <2>1, <2>2, <2>3
<1> QED BY <1>4, <1>5, <1>7 DEF NamesInv

\* Every step keeps what the logins know of the names.
LEMMA NextNames == IndInv /\ NamesInv /\ [Next]_vars => NamesInv'
PROOF
<1> SUFFICES ASSUME IndInv, NamesInv, [Next]_vars PROVE NamesInv'
  OBVIOUS
<1>1. ASSUME NEW t \in Thread,
             \/ Accept(t) \/ AddFails(t) \/ WhisperSend(t) \/ CleanupFind(t)
             \/ CleanupClose(t) \/ \E n \in User : WhisperFind(t, n)
      PROVE  NamesInv'
  <2>1. /\ UNCHANGED <<clients, uname, raced>> /\ Listed' = Listed
        /\ \E l \in Label \ {"adding"} : pc' = [pc EXCEPT ![t] = l]
        /\ \A v \in Thread \ {t} : wanted'[v] = wanted[v]
    BY <1>1 DEF Accept, AddFails, WhisperSend, CleanupFind, CleanupClose, WhisperFind,
                Goto, Label, listVars, Listed, IndInv, TypeOK
  <2>2. \A v \in Thread : pc'[v] = "adding" => pc[v] = "adding" /\ wanted'[v] = wanted[v]
    BY <2>1 DEF IndInv, TypeOK
  <2> QED BY <2>1, <2>2, FewerNames
<1>2. CASE UNCHANGED vars \/ \E t \in Thread : UseAfterFree(t)
  <2>1. UNCHANGED <<pc, wanted, clients, uname, raced>> /\ Listed' = Listed
    BY <1>2 DEF vars, UseAfterFree, threadVars, listVars, Listed
  <2> QED BY <2>1, FewerNames
<1> QED BY <1>1, <1>2, AddClientNames, RemoveClientNames, CheckNameNames
        DEF Next, Step

\* Two entries have one name only when two logins had found it free at once.
THEOREM DuplicatesCorrect == Spec => []DuplicatesRaced
PROOF
<1>1. Init => NamesInv
  BY DEF Init, NamesInv, DuplicatesRaced, Listed, ToSet
<1>2. IndInv /\ NamesInv /\ [Next]_vars => NamesInv'
  BY NextNames
<1>3. NamesInv => DuplicatesRaced
  BY DEF NamesInv
<1> QED BY <1>1, <1>2, <1>3, RegistryInvariance, PTL DEF Spec
=============================================================================
