--------------------------- MODULE ClientRegistry ---------------------------
(***************************************************************************)
(* The client list of server/dynamic_client.c and the life of a connection *)
(* around it: accept, login, /whisper (a command that finds two clients),  *)
(* cleanup_client_connection and remove_client.                            *)
(*                                                                         *)
(* Everything is found again by the number of its socket, so descriptors   *)
(* are modelled as the kernel hands them out: accept takes the lowest one  *)
(* that is not open, and close makes it available again at once.           *)
(***************************************************************************)
EXTENDS Integers, FiniteSets, Sequences, SequencesExt

CONSTANTS Thread,    \* handler threads, one per connection
          User,      \* valid user names
          Info,      \* allocations of client_info_t
          NoUser,    \* no name submitted
          NoInfo,    \* a NULL client_info_t pointer
          MaxFd      \* descriptors 1..MaxFd can be open for connections

ASSUME RegistryAssumption ==
  /\ IsFiniteSet(Thread)
  /\ NoUser \notin User
  /\ NoInfo \notin Info
  /\ MaxFd \in Nat \ {0}

VARIABLES
  pc,       \* where the handler thread is
  fd,       \* its client_socket (0 before accept)
  open,     \* the descriptors that are open
  wanted,   \* the user name being logged in
  sender,   \* the client_info_t the command found for its own socket
  target,   \* the client_info_t the command found for the addressee
  own,      \* the client_info_t the thread has added (kept for the properties)
  clients,  \* client_list_head and its successors
  uname,    \* client_info_t.username
  ufd,      \* client_info_t.socket_fd
  active,   \* active_client_count
  fault,    \* a freed client_info_t was used
  raced     \* names that were last found free by two logins at once (for the properties)

threadVars == <<pc, fd, wanted, sender, target, own>>
listVars   == <<clients, uname, ufd, active>>
vars       == <<threadVars, open, listVars, fault, raced>>

Fd     == 1..MaxFd
Label  == {"none", "login", "adding", "looping", "whispering", "closing",
           "removing"}
Listed == ToSet(clients)
Unused == {i \in Info \ Listed :
             \A t \in Thread : i \notin {sender[t], target[t], own[t]}}

\* malloc: any allocation not in use will do, they all behave alike.
Allocated == CHOOSE i \in Unused : TRUE

\* Threads whose remove_client is still to come.
Registered(t) == own[t] # NoInfo

\* Searches return the first match from the head of the list.
Matches(field, v) == {k \in DOMAIN clients : field[clients[k]] = v}
First(ks)   == IF ks = {} THEN NoInfo ELSE clients[Min(ks)]
ByName(n)   == First(Matches(uname, n))
BySocket(f) == First(Matches(ufd, f))

Goto(t, l) == pc' = [pc EXCEPT ![t] = l]

Init ==
  /\ pc = [t \in Thread |-> "none"]
  /\ fd = [t \in Thread |-> 0]
  /\ open = {}
  /\ wanted = [t \in Thread |-> NoUser]
  /\ sender = [t \in Thread |-> NoInfo]
  /\ target = [t \in Thread |-> NoInfo]
  /\ own = [t \in Thread |-> NoInfo]
  /\ clients = <<>>
  /\ uname = [i \in Info |-> NoUser]
  /\ ufd = [i \in Info |-> 0]
  /\ active = 0
  /\ fault = FALSE
  /\ raced = {}

-----------------------------------------------------------------------------
\* accept, and the start of a handler thread.
Accept(t) ==
  /\ pc[t] = "none"
  /\ \E f \in Fd \ open :
       /\ \A g \in Fd \ open : f <= g
       /\ fd' = [fd EXCEPT ![t] = f]
       /\ open' = open \union {f}
  /\ Goto(t, "login")
  /\ UNCHANGED <<wanted, sender, target, own, listVars, fault, raced>>

\* Who else has found this name free and is about to add it.
Racing(t, n) == \E v \in Thread \ {t} : pc[v] = "adding" /\ wanted[v] = n

FoundFree(t, n) ==
  /\ wanted' = [wanted EXCEPT ![t] = n]
  /\ raced' = IF Racing(t, n) THEN raced \union {n} ELSE raced \ {n}
  /\ Goto(t, "adding")
  /\ UNCHANGED <<fd, open, sender, target, own, listVars, fault>>

\* Mutant: only the head of the list is compared.
CheckNameOfHead(t, n) ==
  /\ pc[t] = "login"
  /\ clients # <<>> => uname[Head(clients)] # n
  /\ FoundFree(t, n)

\* handle_client_login: a name nobody has yet; a taken one is refused and the
\* client may try again.
CheckName(t, n) ==
  /\ pc[t] = "login"
  /\ ByName(n) = NoInfo
  /\ FoundFree(t, n)

\* Mutant: a new entry goes to the end of the list.
AddClientAtTail(t) ==
  /\ pc[t] = "adding" /\ Unused # {}
  /\ LET i == Allocated IN
       /\ own' = [own EXCEPT ![t] = i]
       /\ clients' = Append(clients, i)
       /\ uname' = [uname EXCEPT ![i] = wanted[t]]
       /\ ufd' = [ufd EXCEPT ![i] = fd[t]]
  /\ active' = active + 1
  /\ wanted' = [wanted EXCEPT ![t] = NoUser]
  /\ Goto(t, "looping")
  /\ UNCHANGED <<fd, open, sender, target, fault, raced>>

\* add_client inserts at the head without looking at the names again.
AddClient(t) ==
  /\ pc[t] = "adding" /\ Unused # {}
  /\ LET i == Allocated IN
       /\ own' = [own EXCEPT ![t] = i]
       /\ clients' = <<i>> \o clients
       /\ uname' = [uname EXCEPT ![i] = wanted[t]]
       /\ ufd' = [ufd EXCEPT ![i] = fd[t]]
  /\ active' = active + 1
  /\ wanted' = [wanted EXCEPT ![t] = NoUser]
  /\ Goto(t, "looping")
  /\ UNCHANGED <<fd, open, sender, target, fault, raced>>

\* add_client finds no memory: "Server error", and the client may try again.
AddFails(t) ==
  /\ pc[t] = "adding"
  /\ wanted' = [wanted EXCEPT ![t] = NoUser]
  /\ Goto(t, "login")
  /\ UNCHANGED <<fd, open, sender, target, own, listVars, fault, raced>>

-----------------------------------------------------------------------------
\* /whisper to user n: both pointers outlive the list lock.
WhisperFind(t, n) ==
  /\ pc[t] = "looping"
  /\ BySocket(fd[t]) # NoInfo
  /\ uname[BySocket(fd[t])] # n
  /\ ByName(n) # NoInfo
  /\ sender' = [sender EXCEPT ![t] = BySocket(fd[t])]
  /\ target' = [target EXCEPT ![t] = ByName(n)]
  /\ Goto(t, "whispering")
  /\ UNCHANGED <<fd, open, wanted, own, listVars, fault, raced>>

\* The message goes to whatever connection has target->socket_fd now.
WhisperSend(t) ==
  /\ pc[t] = "whispering"
  /\ {sender[t], target[t]} \subseteq Listed
  /\ sender' = [sender EXCEPT ![t] = NoInfo]
  /\ target' = [target EXCEPT ![t] = NoInfo]
  /\ Goto(t, "looping")
  /\ UNCHANGED <<fd, open, wanted, own, listVars, fault, raced>>

-----------------------------------------------------------------------------
\* The connection ends, logged in or not: cleanup_client_connection finds the
\* client by its socket, works on it (its room is the matter of Rooms) ...
CleanupFind(t) ==
  /\ pc[t] \in {"login", "looping"}
  /\ sender' = [sender EXCEPT ![t] = BySocket(fd[t])]
  /\ Goto(t, "closing")
  /\ UNCHANGED <<fd, open, wanted, target, own, listVars, fault, raced>>

\* Mutant: the cleanup counts the client out, and remove_client again.
CleanupCloseCounting(t) ==
  /\ pc[t] = "closing"
  /\ sender[t] \in Listed \union {NoInfo}
  /\ sender' = [sender EXCEPT ![t] = NoInfo]
  /\ open' = open \ {fd[t]}
  /\ active' = IF sender[t] = NoInfo THEN active ELSE active - 1
  /\ IF Registered(t)
       THEN Goto(t, "removing") /\ UNCHANGED fd
       ELSE Goto(t, "none") /\ fd' = [fd EXCEPT ![t] = 0]
  /\ UNCHANGED <<wanted, target, own, clients, uname, ufd, fault, raced>>

\* ... and closes the socket, the entry still being listed.
CleanupClose(t) ==
  /\ pc[t] = "closing"
  /\ sender[t] \in Listed \union {NoInfo}
  /\ sender' = [sender EXCEPT ![t] = NoInfo]
  /\ open' = open \ {fd[t]}
  /\ IF Registered(t)
       THEN Goto(t, "removing") /\ UNCHANGED fd
       ELSE Goto(t, "none") /\ fd' = [fd EXCEPT ![t] = 0]
  /\ UNCHANGED <<wanted, target, own, listVars, fault, raced>>

\* Mutant: the loop goes on after the first match.
RemoveEveryMatch(t) ==
  /\ pc[t] = "removing"
  /\ LET gone == {i \in Listed : ufd[i] = fd[t]} IN
       /\ clients' = SelectSeq(clients, LAMBDA i : i \notin gone)
       /\ active' = active - Cardinality(gone)
       /\ uname' = [i \in Info |-> IF i \in gone THEN NoUser ELSE uname[i]]
       /\ ufd' = [i \in Info |-> IF i \in gone THEN 0 ELSE ufd[i]]
  /\ fd' = [fd EXCEPT ![t] = 0]
  /\ own' = [own EXCEPT ![t] = NoInfo]
  /\ Goto(t, "none")
  /\ UNCHANGED <<open, wanted, sender, target, fault, raced>>

\* Mutant: remove_client closes the socket, as the cleanup has done.
RemoveClientClosing(t) ==
  /\ pc[t] = "removing"
  /\ LET k == Min(Matches(ufd, fd[t])) IN
       IF Matches(ufd, fd[t]) # {}
         THEN /\ clients' = RemoveAt(clients, k)
              /\ active' = active - 1
              /\ uname' = [uname EXCEPT ![clients[k]] = NoUser]
              /\ ufd' = [ufd EXCEPT ![clients[k]] = 0]
         ELSE UNCHANGED listVars
  /\ open' = open \ {fd[t]}
  /\ fd' = [fd EXCEPT ![t] = 0]
  /\ own' = [own EXCEPT ![t] = NoInfo]
  /\ Goto(t, "none")
  /\ UNCHANGED <<wanted, sender, target, fault, raced>>

\* remove_client frees the first entry with the number of the old socket; what
\* a freed entry contains is never looked at.
RemoveClient(t) ==
  /\ pc[t] = "removing"
  /\ LET k == Min(Matches(ufd, fd[t])) IN
       IF Matches(ufd, fd[t]) # {}
         THEN /\ clients' = RemoveAt(clients, k)
              /\ active' = active - 1
              /\ uname' = [uname EXCEPT ![clients[k]] = NoUser]
              /\ ufd' = [ufd EXCEPT ![clients[k]] = 0]
         ELSE UNCHANGED listVars
  /\ fd' = [fd EXCEPT ![t] = 0]
  /\ own' = [own EXCEPT ![t] = NoInfo]
  /\ Goto(t, "none")
  /\ UNCHANGED <<open, wanted, sender, target, fault, raced>>

UseAfterFree(t) ==
  /\ \/ pc[t] = "whispering" /\ ~({sender[t], target[t]} \subseteq Listed)
     \/ pc[t] = "closing" /\ sender[t] \notin Listed \union {NoInfo}
  /\ fault' = TRUE
  /\ UNCHANGED <<threadVars, open, listVars, raced>>

Step(t) ==
  \/ Accept(t) \/ AddClient(t) \/ AddFails(t) \/ WhisperSend(t)
  \/ CleanupFind(t) \/ CleanupClose(t) \/ RemoveClient(t) \/ UseAfterFree(t)
  \/ \E n \in User : CheckName(t, n) \/ WhisperFind(t, n)

Next == ~fault /\ \E t \in Thread : Step(t)

Spec == Init /\ [][Next]_vars

-----------------------------------------------------------------------------
\* The types of the list and of the handlers' locals; a client_info_t is in
\* the list once.
TypeOK ==
  /\ pc \in [Thread -> Label]
  /\ fd \in [Thread -> 0..MaxFd]
  /\ open \subseteq Fd
  /\ wanted \in [Thread -> User \union {NoUser}]
  /\ sender \in [Thread -> Info \union {NoInfo}]
  /\ target \in [Thread -> Info \union {NoInfo}]
  /\ own \in [Thread -> Info \union {NoInfo}]
  /\ clients \in Seq(Info) /\ IsInjective(clients)
  /\ uname \in [Info -> User \union {NoUser}]
  /\ ufd \in [Info -> 0..MaxFd]
  /\ active \in Nat
  /\ fault \in BOOLEAN
  /\ raced \subseteq User

\* A handler may remove another connection's entry when its descriptor was
\* reused, but then that one finds the entry it left: every session that has
\* logged in stands for one entry with its descriptor, so remove_client never
\* comes away empty and no entry is left over.
OneEntryPerSession ==
  \A f \in Fd :
    Cardinality({i \in Listed : ufd[i] = f})
      = Cardinality({t \in Thread : Registered(t) /\ fd[t] = f})

\* The number the shutdown waits for to become zero (server_helper.c:64) is
\* the number of handlers that still have an entry to remove.
ActiveCountIsSessions ==
  active = Cardinality({t \in Thread : Registered(t)})

\* A session is identified by its socket in every command.  As long as its
\* own entry is listed that leads to it, even past the entry of an earlier
\* connection with the same descriptor: the search meets the newer one first.
SocketLeadsToOwnEntry ==
  \A t \in Thread :
    pc[t] \in {"looping", "whispering", "closing"} /\ own[t] \in Listed
      => BySocket(fd[t]) = own[t]

\* Threads with an open socket: between accept and CleanupClose.
Connected(t) == pc[t] \notin {"none", "removing"}

\* README, Private Messaging: a whisper goes directly to the addressee.  While
\* the addressee's handler still has its connection, the socket of the entry
\* the whisper has found is the socket of that connection and of no other;
\* only when it has closed it may a stranger get the message.
ConnectedAddresseeReached ==
  \A t, v \in Thread :
    pc[t] = "whispering" /\ target[t] \in Listed
      /\ own[v] = target[t] /\ Connected(v)
        => \A w \in Thread : Connected(w) => (fd[w] = ufd[target[t]] <=> w = v)

\* test.sh:405, DUPLICATE USERNAME REJECTION, as far as the code keeps it: two
\* clients have one name only if, the last time nobody had it, two logins found
\* it free, each before the other's add_client (server_helper.c:333-343).  Nothing
\* else - names tried again, sessions that end, entries that are removed for
\* another's - lets anybody take a name that is taken.
DuplicatesRaced ==
  \A i, j \in Listed : uname[i] = uname[j] => i = j \/ uname[i] \in raced

-----------------------------------------------------------------------------
(***************************************************************************)
(* What the documentation says and the code does not keep.                 *)
(***************************************************************************)

\* test.sh:405, DUPLICATE USERNAME REJECTION: no two clients have one name.
UniqueUsernames ==
  \A i, j \in Listed : uname[i] = uname[j] => i = j
=============================================================================
