------------------------------ MODULE Session -------------------------------
(***************************************************************************)
(* One connection from both ends: the client process, with its main thread *)
(* (login_to_server, process_user_input) and its receive thread, and the   *)
(* server's handler thread (handle_client_login, client_message_loop).     *)
(* The other handlers of the server appear as what they send to this       *)
(* client, once it can be found in the client list.                        *)
(*                                                                         *)
(* The connection is two sequences of messages, neither lost nor reordered *)
(* (TCP); an uploaded file is its size and its data, written by the        *)
(* receive thread while the main thread may write commands between them.   *)
(* A reader that finds another thing than it expects takes it for what it  *)
(* expects, as the C code does.                                            *)
(***************************************************************************)
EXTENDS Naturals, Sequences

CONSTANTS MaxAttempts,  \* user names the user tries
          MaxCommands,  \* commands the user types
          MaxNotes      \* messages other handlers send to this client

ASSUME SessionAssumption ==
  /\ MaxAttempts \in Nat \ {0}
  /\ MaxCommands \in Nat
  /\ MaxNotes \in Nat

VARIABLES
  main,     \* where the client's main thread is
  recv,     \* where the client's receive thread is
  running,  \* client_running
  cli,      \* the client's end of the connection: "open" or "closed"
  attempt,  \* the number of user names submitted; the last one is current
  typed,    \* the number of commands typed
  c2s, s2c, \* what was sent and not yet read, in either direction
  handler,  \* where the server's handler thread is
  sock,     \* the server's end of the connection: "open" or "closed"
  name,     \* the user name in the client list, 0 when there is no entry
  notes,    \* the number of messages sent by other handlers
  srv       \* the server process

client == <<main, recv, running, cli, attempt, typed>>
server == <<handler, sock, name, notes, srv>>
vars   == <<client, c2s, s2c, server>>

Commands == {"command", "sendfile", "exit"}
Answers  == {"success", "refused", "reply", "upload_request", "note",
             "shutdown"}
Login(n) == [kind |-> "login", n |-> n]
Msg(k)   == [kind |-> k, n |-> 0]
Sent     == {Login(n) : n \in 1..MaxAttempts}
              \union {Msg(k) : k \in Commands \union {"size", "data", "rest"}}

ServerRuns == srv \in {"up", "stopping"}
ServerOpen == ServerRuns /\ sock = "open"

Init ==
  /\ main = "login"
  /\ recv = "none"
  /\ running = TRUE
  /\ cli = "open"
  /\ attempt = 0
  /\ typed = 0
  /\ c2s = <<>>
  /\ s2c = <<>>
  /\ handler = "login"
  /\ sock = "open"
  /\ name = 0
  /\ notes = 0
  /\ srv = "up"

-----------------------------------------------------------------------------
\* send_message and send of the client: nothing arrives at a closed socket.
ToServer(m) == c2s' = IF ServerOpen THEN Append(c2s, m) ELSE c2s

\* The server's send.  To a connection the client has closed it fails, or,
\* SIGPIPE being neither ignored nor handled, it ends the process.
ToClient(ms) ==
  \/ /\ cli = "open"
     /\ s2c' = s2c \o ms
     /\ UNCHANGED srv
  \/ /\ cli = "closed"
     /\ UNCHANGED s2c
     /\ srv' \in {srv, "killed"}

\* The client process ends; the kernel closes its socket.
End ==
  /\ main' = "done"
  /\ recv' = IF recv = "none" THEN "none" ELSE "ended"
  /\ cli' = "closed"
  /\ UNCHANGED <<running, attempt, typed, c2s, s2c, server>>

-----------------------------------------------------------------------------
\* Mutant: the name that is sent is not kept.
SendLoginUncounted ==
  /\ main = "login"
  /\ attempt < MaxAttempts
  /\ ToServer(Login(attempt + 1))
  /\ main' = "login_wait"
  /\ UNCHANGED <<recv, running, cli, attempt, typed, s2c, server>>

\* The user enters a name; it is sent together with the working directory.
SendLogin ==
  /\ main = "login"
  /\ attempt < MaxAttempts
  /\ attempt' = attempt + 1
  /\ ToServer(Login(attempt + 1))
  /\ main' = "login_wait"
  /\ UNCHANGED <<recv, running, cli, typed, s2c, server>>

\* Mutant: any answer is taken for a success.
LoginAnswerAny ==
  /\ main = "login_wait"
  /\ s2c # <<>>
  /\ s2c' = Tail(s2c)
  /\ main' = "input" /\ recv' = "select"
  /\ UNCHANGED <<running, cli, attempt, typed, c2s, server>>

\* Any message but LOGIN_SUCCESS is a failed login.
LoginAnswer ==
  /\ main = "login_wait"
  /\ s2c # <<>>
  /\ s2c' = Tail(s2c)
  /\ IF Head(s2c) = "success"
       THEN main' = "input" /\ recv' = "select"
       ELSE main' = "login" /\ UNCHANGED recv
  /\ UNCHANGED <<running, cli, attempt, typed, c2s, server>>

\* The server has closed the connection: no answer will come.
LoginLost ==
  /\ main = "login_wait"
  /\ s2c = <<>> /\ ~ServerOpen
  /\ End

\* End of file on the terminal instead of a name.
LoginGivenUp == main = "login" /\ End

\* A command that validate_command lets through.  As in the receive thread,
\* client_running may have been cleared since the loop looked at it.
TypeCommand(k) ==
  /\ main = "input"
  /\ typed < MaxCommands
  /\ typed' = typed + 1
  /\ ToServer(Msg(k))
  /\ UNCHANGED <<main, recv, running, cli, attempt, s2c, server>>

TypeExit ==
  /\ main = "input"
  /\ ToServer(Msg("exit"))
  /\ running' = FALSE
  /\ main' = "joining"
  /\ UNCHANGED <<recv, cli, attempt, typed, s2c, server>>

\* End of file on the terminal: client_running stays set.
TypeEof ==
  /\ main = "input"
  /\ main' = "joining"
  /\ UNCHANGED <<recv, running, cli, attempt, typed, c2s, s2c, server>>

\* select wakes up at least once a second.
InputEnds ==
  /\ main = "input" /\ ~running
  /\ main' = "joining"
  /\ UNCHANGED <<recv, running, cli, attempt, typed, c2s, s2c, server>>

\* pthread_join, cleanup_client and the return from main.
Join ==
  /\ main \in {"joining", "interrupted"}
  /\ recv = "ended"
  /\ End

\* handle_sigint: joins the receive thread too.  While there is none, or when
\* main was in pthread_join already, the join fails or crashes: either way
\* the process ends.
Interrupt ==
  \/ /\ main = "input"
     /\ main' = "interrupted"
     /\ running' = FALSE
     /\ UNCHANGED <<recv, cli, attempt, typed, c2s, s2c, server>>
  \/ /\ main \in {"login", "login_wait", "joining"}
     /\ End

\* The client process is killed (also by a SIGPIPE of its own).
Kill == main # "done" /\ End
-----------------------------------------------------------------------------
\* Mutant: only the end of the connection is looked for.
ReceiveEndsOnEof ==
  /\ recv = "select"
  /\ s2c = <<>> /\ ~ServerOpen
  /\ running' = FALSE
  /\ recv' = "ended"
  /\ UNCHANGED <<main, cli, attempt, typed, c2s, s2c, server>>

\* The loop of receive_thread ends when client_running was cleared, or when
\* recv finds the connection closed, and clears it.
ReceiveEnds ==
  /\ recv = "select"
  /\ ~running \/ (s2c = <<>> /\ ~ServerOpen)
  /\ running' = FALSE
  /\ recv' = "ended"
  /\ UNCHANGED <<main, cli, attempt, typed, c2s, s2c, server>>

\* One message from the server, printed unless it asks for something.
Receive ==
  /\ recv = "select"
  /\ s2c # <<>>
  /\ s2c' = Tail(s2c)
  /\ recv' = CASE Head(s2c) = "upload_request" -> "upload_size"
               [] Head(s2c) = "shutdown" -> "ended"
               [] OTHER -> "select"
  /\ running' = (running /\ Head(s2c) # "shutdown")
  /\ UNCHANGED <<main, cli, attempt, typed, c2s, server>>

\* upload_file_to_server: the size and the data of the file ...
UploadSize ==
  /\ recv = "upload_size"
  /\ ToServer(Msg("size"))
  /\ recv' = "upload_data"
  /\ UNCHANGED <<main, running, cli, attempt, typed, s2c, server>>

\* which is cut short when the file cannot be read or has become shorter ...
UploadData ==
  /\ recv = "upload_data"
  /\ \/ ToServer(Msg("data"))
     \/ ToServer(Msg("rest"))
     \/ UNCHANGED c2s
  /\ recv' = "select"
  /\ UNCHANGED <<main, running, cli, attempt, typed, s2c, server>>

\* ... or nothing: the file cannot be read any more.  The server is not told.
UploadFails ==
  /\ recv = "upload_size"
  /\ recv' = "select"
  /\ UNCHANGED <<main, running, cli, attempt, typed, c2s, s2c, server>>

-----------------------------------------------------------------------------
HandlerRuns(l) == ServerRuns /\ handler = l
HeadIs(k) == c2s # <<>> /\ Head(c2s).kind = k
Eof == c2s = <<>> /\ cli = "closed"

\* A valid name nobody else has: add_client, after which others can find it.
LoginAccept ==
  /\ HandlerRuns("login") /\ HeadIs("login")
  /\ name' = Head(c2s).n
  /\ c2s' = Tail(c2s)
  /\ handler' = "welcome"
  /\ UNCHANGED <<client, s2c, sock, notes, srv>>

LoginWelcome ==
  /\ HandlerRuns("welcome")
  /\ ToClient(<<"success">>)
  /\ handler' = "loop"
  /\ UNCHANGED <<client, c2s, sock, name, notes>>

\* Mutant: a name already taken is not answered.
LoginRefuseSilently ==
  /\ HandlerRuns("login") /\ HeadIs("login")
  /\ c2s' = Tail(c2s)
  /\ UNCHANGED <<client, s2c, server>>

\* An invalid or taken name, or no memory.
LoginRefuse ==
  /\ HandlerRuns("login") /\ HeadIs("login")
  /\ c2s' = Tail(c2s)
  /\ ToClient(<<"refused">>)
  /\ UNCHANGED <<client, handler, sock, name, notes>>

\* A command is carried out and answered.  What a client that believes its
\* login failed sends, a name and a path, are two unknown commands.
Handle ==
  /\ HandlerRuns("loop")
  /\ \/ HeadIs("command") /\ ToClient(<<"reply">>)
     \/ HeadIs("sendfile") /\ ToClient(<<"reply">>)
     \/ HeadIs("login") /\ ToClient(<<"reply", "reply">>)
  /\ c2s' = Tail(c2s)
  /\ UNCHANGED <<client, handler, sock, name, notes>>

\* /sendfile is not refused: the client is asked for the file.
AskUpload ==
  /\ HandlerRuns("loop") /\ HeadIs("sendfile")
  /\ c2s' = Tail(c2s)
  /\ ToClient(<<"upload_request">>)
  /\ handler' = "size"
  /\ UNCHANGED <<client, sock, name, notes>>

HandleExit ==
  /\ HandlerRuns("loop") /\ HeadIs("exit")
  /\ c2s' = Tail(c2s)
  /\ handler' = "closing"
  /\ UNCHANGED <<client, s2c, sock, name, notes, srv>>

\* Part of a file taken for a message: its length is too large or 0, and the
\* connection is given up, or an unknown command is answered.
HandleGarbage ==
  /\ HandlerRuns("loop")
  /\ \E k \in {"size", "data", "rest"} : HeadIs(k)
  /\ c2s' = Tail(c2s)
  /\ \/ /\ handler' = "closing"
        /\ UNCHANGED <<s2c, srv>>
     \/ /\ ToClient(<<"reply">>)
        /\ UNCHANGED handler
  /\ UNCHANGED <<client, sock, name, notes>>

\* receive_file_from_client: the size of the file is read and accepted; or it
\* is refused, and the data will be left over.  Anything else is a size too,
\* followed by data: a whole command, say, its length and its text.
ReadSize ==
  /\ HandlerRuns("size") /\ c2s # <<>>
  /\ \/ /\ HeadIs("size")
        /\ c2s' = Tail(c2s)
        /\ handler' = "data"
        /\ UNCHANGED <<s2c, srv>>
     \/ /\ \/ c2s' = Tail(c2s)
           \/ ~HeadIs("size") /\ c2s' = <<Msg("rest")>> \o Tail(c2s)
        /\ handler' = "loop"
        /\ ToClient(<<"reply">>)
  /\ UNCHANGED <<client, sock, name, notes>>

\* The data; or a command in between, taken for part of it, so that a rest
\* of the command, or later of the data, is left over.
ReadData ==
  /\ c2s # <<>>
  /\ \/ /\ HandlerRuns("data") /\ HeadIs("data")
        /\ c2s' = Tail(c2s)
        /\ handler' = "loop"
        /\ ToClient(<<"reply">>)
     \/ /\ HandlerRuns("data") \/ HandlerRuns("short")
        /\ ~HeadIs("data")
        /\ c2s' = Tail(c2s)
        /\ handler' = "short"
        /\ UNCHANGED <<s2c, srv>>
     \/ /\ \/ HandlerRuns("data") /\ ~HeadIs("data")
           \/ HandlerRuns("short")
        /\ c2s' = <<Msg("rest")>> \o Tail(c2s)
        /\ handler' = "loop"
        /\ ToClient(<<"reply">>)
  /\ UNCHANGED <<client, sock, name, notes>>

\* The connection ends during the upload: an error is reported to nobody.
LoseUpload ==
  /\ \E l \in {"size", "data", "short"} : HandlerRuns(l)
  /\ Eof
  /\ handler' = "loop"
  /\ ToClient(<<"reply">>)
  /\ UNCHANGED <<client, c2s, sock, name, notes>>

\* Mutant: recv's 0 is taken for an empty message, and the loop goes on.
HandlerEndsWhenTold ==
  /\ HandlerRuns("loop") /\ srv = "stopping"
  /\ handler' = "closing"
  /\ UNCHANGED <<client, c2s, s2c, sock, name, notes, srv>>

\* The loop ends with the connection, or when server_running was cleared;
\* a login ends only with the connection.
HandlerEnds ==
  /\ \/ HandlerRuns("loop") /\ (Eof \/ srv = "stopping")
     \/ HandlerRuns("login") /\ Eof
  /\ handler' = "closing"
  /\ UNCHANGED <<client, c2s, s2c, sock, name, notes, srv>>

\* cleanup_client_connection, then remove_client.
CloseSocket ==
  /\ HandlerRuns("closing")
  /\ sock' = "closed"
  /\ handler' = IF name = 0 THEN "gone" ELSE "removing"
  /\ UNCHANGED <<client, c2s, s2c, name, notes, srv>>

RemoveEntry ==
  /\ HandlerRuns("removing")
  /\ name' = 0
  /\ handler' = "gone"
  /\ UNCHANGED <<client, c2s, s2c, sock, notes, srv>>

-----------------------------------------------------------------------------
\* Another handler sends to a client it finds in the list: a whisper, a
\* broadcast, a notification, a file.
Notify ==
  /\ ServerOpen /\ name # 0
  /\ notes < MaxNotes
  /\ notes' = notes + 1
  /\ ToClient(<<"note">>)
  /\ UNCHANGED <<client, c2s, handler, sock, name>>

\* handle_sigint of the server: the listed clients are told, and the process
\* ends when they are gone or the time is up.
Shutdown ==
  /\ srv = "up"
  /\ srv' = "stopping"
  /\ s2c' = IF ServerOpen /\ name # 0 /\ cli = "open"
              THEN Append(s2c, "shutdown") ELSE s2c
  /\ UNCHANGED <<client, c2s, handler, sock, name, notes>>

ServerExit ==
  /\ srv = "stopping"
  /\ srv' = "down"
  /\ UNCHANGED <<client, c2s, s2c, handler, sock, name, notes>>

MainStep == LoginAnswer \/ LoginLost \/ InputEnds \/ Join
ReceiveStep == ReceiveEnds \/ Receive \/ UploadSize \/ UploadData \/ UploadFails
HandlerStep ==
  \/ LoginAccept \/ LoginWelcome \/ LoginRefuse \/ Handle \/ AskUpload
  \/ HandleExit \/ HandleGarbage \/ ReadSize \/ ReadData \/ LoseUpload
  \/ HandlerEnds \/ CloseSocket \/ RemoveEntry
Input ==
  \/ SendLogin \/ LoginGivenUp \/ TypeExit \/ TypeEof \/ Interrupt \/ Kill
  \/ \E k \in {"command", "sendfile"} : TypeCommand(k)

Next == MainStep \/ ReceiveStep \/ HandlerStep \/ Input
          \/ Notify \/ Shutdown \/ ServerExit

\* The threads that can run do; users, signals and other handlers need not.
Fairness == WF_vars(MainStep) /\ WF_vars(ReceiveStep) /\ WF_vars(HandlerStep)

Spec == Init /\ [][Next]_vars /\ Fairness
-----------------------------------------------------------------------------
\* The types of both threads' places, of the handler's and of the messages.
TypeOK ==
  /\ main \in {"login", "login_wait", "input", "joining", "interrupted",
               "done"}
  /\ recv \in {"none", "select", "upload_size", "upload_data", "ended"}
  /\ running \in BOOLEAN
  /\ cli \in {"open", "closed"} /\ sock \in {"open", "closed"}
  /\ attempt \in 0..MaxAttempts /\ name \in 0..attempt
  /\ typed \in 0..MaxCommands /\ notes \in 0..MaxNotes
  /\ c2s \in Seq(Sent) /\ s2c \in Seq(Answers)
  /\ handler \in {"login", "welcome", "loop", "size", "data", "short",
                  "closing", "removing", "gone"}
  /\ srv \in {"up", "stopping", "down", "killed"}

\* A user who has submitted a name is answered: whatever other messages came
\* first, login_to_server does not wait for ever (or the connection ends).
LoginAnswered == (main = "login_wait") ~> (main # "login_wait")

\* login_to_server reads its answer without a time limit: the two ends never
\* both wait for the other.  While the client waits, an answer or the name is
\* under way, the success is about to be sent, or the connection is ending -
\* even after other messages were taken for answers and the names sent since are
\* read as commands.
AnswerIsDue ==
  main = "login_wait" =>
    \/ s2c # <<>> \/ c2s # <<>>
    \/ handler \in {"welcome", "closing", "removing", "gone"}
    \/ ~ServerRuns

\* However the session is to end - /exit, an interrupt, a shutdown, a lost
\* connection - and whatever an upload is doing, neither of the client's
\* threads waits for the other for ever.
ClientTerminates == ~running ~> (main = "done")

\* A client that is gone, even in the middle of an upload, leaves no handler
\* and no entry in the client list behind.
ClientForgotten ==
  (cli = "closed") ~> (name = 0 /\ handler = "gone") \/ ~ServerRuns

\* client_helper.c:248, "Logged in as ...": that is the user the server knows,
\* as long as nothing but answers to the login can have been read before it.  A
\* client can be found before it is sent LOGIN_SUCCESS, so a note or the notice
\* of the shutdown may be taken for a refusal, and the success for that of the
\* next name.
LoggedInAsRegistered ==
  main = "input" /\ handler \notin {"closing", "removing", "gone"}
    => name = attempt \/ notes > 0 \/ srv # "up"

-----------------------------------------------------------------------------
(***************************************************************************)
(* What the tests say and the code does not keep.                          *)
(***************************************************************************)

\* test.sh:616, the server handles an unexpected disconnection gracefully.
ServerSurvivesDisconnection == srv # "killed"
=============================================================================
