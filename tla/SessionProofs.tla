---------------------------- MODULE SessionProofs ----------------------------
(***************************************************************************)
(* Proofs about Session, for any number of names, commands and notes.      *)
(*                                                                         *)
(* That the user is known by the name he logged in with is not inductive:  *)
(* it depends on where the login's conversation is.  LoginInv says so for  *)
(* each place of the client's main thread: at most one message of it is    *)
(* under way, and an answer under way is the answer to the last name.  It  *)
(* holds until another handler or the interrupt handler of the server      *)
(* sends something too.                                                    *)
(***************************************************************************)
EXTENDS Session, SequenceTheorems, TLAPS

\* Every name under way has been submitted.
AttemptsInv == \A i \in DOMAIN c2s : c2s[i].n <= attempt

\* A process that runs has its end of the connection open; the receive thread
\* is started by the login, and the handler closes its socket when it ends.
EndsInv ==
  /\ main # "done" => cli = "open"
  /\ main \in {"login", "login_wait"} => recv = "none"
  /\ handler \notin {"removing", "gone"} => sock = "open"

\* Nobody but the handler has sent anything to the client.
Undisturbed == notes = 0 /\ srv = "up"

\* A name is being read; submitted; accepted; or it has been answered.
NameSubmitted == handler = "login" /\ c2s = <<Login(attempt)>> /\ s2c = <<>>
NameAccepted  == handler = "welcome" /\ c2s = <<>> /\ s2c = <<>> /\ name = attempt
NameRefused   == handler = "login" /\ c2s = <<>> /\ s2c = <<"refused">>
NameWelcome   == handler = "loop" /\ c2s = <<>> /\ s2c = <<"success">>
                   /\ name = attempt

LoginInv ==
  Undisturbed =>
    /\ main = "login" => handler = "login" /\ c2s = <<>> /\ s2c = <<>>
    /\ main = "login_wait" =>
         NameSubmitted \/ NameAccepted \/ NameRefused \/ NameWelcome
    /\ main = "input" =>
         \/ handler \in {"closing", "removing", "gone"}
         \/ handler \in {"loop", "size", "data", "short"} /\ name = attempt

IndInv == TypeOK /\ AttemptsInv /\ EndsInv /\ LoginInv

-----------------------------------------------------------------------------
(***************************************************************************)
(* What the connection holds after a step.                                 *)
(***************************************************************************)
\* A message is one of those the client sends, with a name up to the bound.
LEMMA SentTypes ==
  ASSUME NEW m \in Sent
  PROVE  m.n \in Nat
PROOF
  BY DEF Sent, Login, Msg

\* A part of a message or a command is a message without a name.
LEMMA CommandSent ==
  ASSUME NEW k \in Commands \union {"size", "data", "rest"}
  PROVE  Msg(k) \in Sent /\ Msg(k).n = 0
PROOF
  BY DEF Sent, Msg

\* What the client writes is added to what is under way, or lost.
LEMMA ToServerTypes ==
  ASSUME c2s \in Seq(Sent), AttemptsInv, attempt \in Nat, attempt' \in Nat,
         attempt <= attempt', NEW m \in Sent, m.n <= attempt', ToServer(m)
  PROVE  c2s' \in Seq(Sent) /\ AttemptsInv'
PROOF
<1> USE SentTypes DEF AttemptsInv
<1>1. CASE ServerOpen
  <2>1. c2s' = Append(c2s, m)
    BY <1>1 DEF ToServer
  <2>2. /\ c2s' \in Seq(Sent) /\ DOMAIN c2s' = 1 .. Len(c2s) + 1
        /\ \A i \in 1 .. Len(c2s) : c2s'[i] = c2s[i]
        /\ c2s'[Len(c2s) + 1] = m
    BY <2>1, AppendProperties
  <2>3. ASSUME NEW i \in DOMAIN c2s' PROVE c2s'[i].n <= attempt'
    <3>1. CASE i = Len(c2s) + 1
      BY <3>1, <2>2
    <3>2. CASE i \in 1 .. Len(c2s)
      <4>1. i \in DOMAIN c2s /\ c2s[i] \in Sent /\ c2s'[i] = c2s[i]
        BY <3>2, <2>2
      <4>2. c2s[i].n <= attempt /\ c2s[i].n \in Nat
        BY <4>1
      <4> QED BY <4>1, <4>2
    <3> QED BY <3>1, <3>2, <2>2
  <2> QED BY <2>2, <2>3
<1>2. CASE ~ServerOpen
  <2>1. c2s' = c2s
    BY <1>2 DEF ToServer
  <2>2. ASSUME NEW i \in DOMAIN c2s PROVE c2s[i].n <= attempt'
    BY <2>2
  <2> QED BY <2>1, <2>2
<1> QED BY <1>1, <1>2

\* What the handler has read is taken away, and may leave a rest.
LEMMA ReadTypes ==
  ASSUME c2s \in Seq(Sent), AttemptsInv, c2s # <<>>, attempt \in Nat,
         UNCHANGED attempt,
         c2s' \in {Tail(c2s), <<Msg("rest")>> \o Tail(c2s)}
  PROVE  c2s' \in Seq(Sent) /\ AttemptsInv' /\ Head(c2s).n \in 0 .. attempt
PROOF
<1> USE DEF AttemptsInv
<1> DEFINE t == Tail(c2s)
<1>1. /\ t \in Seq(Sent)
      /\ \A i \in 1 .. Len(t) : t[i] = c2s[i + 1] /\ i + 1 \in DOMAIN c2s
      /\ Head(c2s) = c2s[1] /\ 1 \in DOMAIN c2s
  BY HeadTailProperties
<1>2. Head(c2s).n \in 0 .. attempt
  BY <1>1, SentTypes
<1>3. \A i \in DOMAIN t : t[i].n <= attempt
  BY <1>1
<1> HIDE DEF t
<1>4. CASE c2s' = t
  BY <1>1, <1>2, <1>3, <1>4
<1>5. CASE c2s' = <<Msg("rest")>> \o t
  <2> DEFINE r == <<Msg("rest")>>
  <2>1. r \in Seq(Sent) /\ Len(r) = 1 /\ r[1] = Msg("rest") /\ r[1].n = 0
    BY CommandSent
  <2> HIDE DEF r
  <2>2. /\ c2s' \in Seq(Sent)
        /\ Len(c2s') = 1 + Len(t)
        /\ \A i \in 1 .. 1 + Len(t) : c2s'[i] = IF i <= 1 THEN r[1] ELSE t[i - 1]
    BY <2>1, <1>1, <1>5, ConcatProperties DEF r
  <2>3. ASSUME NEW i \in DOMAIN c2s' PROVE c2s'[i].n <= attempt
    <3>1. CASE i = 1
      BY <3>1, <2>1, <2>2
    <3>2. CASE i # 1
      <4>1. i - 1 \in DOMAIN t /\ c2s'[i] = t[i - 1]
        BY <3>2, <2>2, <1>1
      <4> QED BY <4>1, <1>3
    <3> QED BY <3>1, <3>2
  <2> QED BY <2>2, <2>3, <1>2
<1> QED BY <1>4, <1>5 DEF t

\* What the server writes is added to what is under way, or lost.
LEMMA ToClientTypes ==
  ASSUME TypeOK, NEW ms \in Seq(Answers), ToClient(ms)
  PROVE  s2c' \in Seq(Answers) /\ srv' \in {srv, "killed"}
PROOF
  BY ConcatProperties DEF ToClient, TypeOK

-----------------------------------------------------------------------------
(***************************************************************************)
(* Every step keeps the types, and the names under way submitted.          *)
(***************************************************************************)
\* A step of the client's that writes nothing.
LEMMA ClientTypes ==
  ASSUME TypeOK, AttemptsInv,
         \/ LoginAnswer \/ LoginLost \/ InputEnds \/ Join \/ LoginGivenUp
         \/ TypeEof \/ Interrupt \/ Kill \/ ReceiveEnds \/ Receive
         \/ UploadFails
  PROVE  TypeOK' /\ AttemptsInv'
PROOF
<1> USE DEF TypeOK, AttemptsInv, server
<1>1. CASE LoginAnswer
  BY <1>1 DEF LoginAnswer
<1>2. CASE LoginLost \/ Join \/ LoginGivenUp \/ Kill
  BY <1>2 DEF LoginLost, Join, LoginGivenUp, Kill, End
<1>3. CASE InputEnds \/ TypeEof
  BY <1>3 DEF InputEnds, TypeEof
<1>4. CASE Interrupt
  BY <1>4 DEF Interrupt, End
<1>5. CASE ReceiveEnds \/ UploadFails
  BY <1>5 DEF ReceiveEnds, UploadFails
<1>6. CASE Receive
  BY <1>6 DEF Receive
<1> QED BY <1>1, <1>2, <1>3, <1>4, <1>5, <1>6

\* A step of the client's that writes a message.
LEMMA WriteTypes ==
  ASSUME TypeOK, AttemptsInv,
         \/ SendLogin \/ TypeExit \/ UploadSize \/ UploadData
         \/ \E k \in {"command", "sendfile"} : TypeCommand(k)
  PROVE  TypeOK' /\ AttemptsInv'
PROOF
<1> USE DEF server
<1>0. attempt \in Nat /\ name \in 0 .. attempt /\ c2s \in Seq(Sent)
  BY SessionAssumption DEF TypeOK
<1>1. CASE SendLogin
  <2>1. attempt' \in 1 .. MaxAttempts /\ attempt' = attempt + 1
    BY <1>0, <1>1, SessionAssumption DEF SendLogin
  <2>2. Login(attempt + 1) \in Sent /\ Login(attempt + 1).n = attempt + 1
    BY <2>1 DEF Sent, Login
  <2>3. ToServer(Login(attempt + 1))
    BY <1>1 DEF SendLogin
  <2>4. c2s' \in Seq(Sent) /\ AttemptsInv'
    BY <1>0, <2>1, <2>2, <2>3, ToServerTypes
  <2> QED BY <1>0, <1>1, <2>1, <2>4 DEF SendLogin, TypeOK
<1>2. ASSUME NEW k \in Commands \union {"size", "data", "rest"}, ToServer(Msg(k)),
             UNCHANGED attempt
      PROVE  c2s' \in Seq(Sent) /\ AttemptsInv'
  BY <1>0, <1>2, CommandSent, ToServerTypes
<1>3. CASE TypeExit
  <2>1. c2s' \in Seq(Sent) /\ AttemptsInv'
    BY <1>2, <1>3 DEF TypeExit, Commands
  <2> QED BY <1>3, <2>1 DEF TypeExit, TypeOK
<1>4. CASE UploadSize \/ UploadData
  <2>1. CASE UNCHANGED c2s
    BY <1>4, <2>1 DEF UploadSize, UploadData, TypeOK, AttemptsInv
  <2>2. CASE ~UNCHANGED c2s
    BY <1>2, <1>4, <2>2 DEF UploadSize, UploadData, TypeOK
  <2> QED BY <2>1, <2>2
<1>5. ASSUME NEW k \in {"command", "sendfile"}, TypeCommand(k)
      PROVE  TypeOK' /\ AttemptsInv'
  <2>1. c2s' \in Seq(Sent) /\ AttemptsInv'
    BY <1>2, <1>5 DEF TypeCommand, Commands
  <2> QED BY <1>5, <2>1, SessionAssumption DEF TypeCommand, TypeOK
<1> QED BY <1>1, <1>3, <1>4, <1>5

\* A step of the server's that reads nothing.
LEMMA ServerTypes ==
  ASSUME TypeOK, AttemptsInv,
         \/ LoginWelcome \/ LoseUpload \/ HandlerEnds \/ CloseSocket
         \/ RemoveEntry \/ Notify \/ Shutdown \/ ServerExit
  PROVE  TypeOK' /\ AttemptsInv'
PROOF
<1> USE DEF TypeOK, AttemptsInv, client
<1>1. /\ <<"success">> \in Seq(Answers) /\ <<"reply">> \in Seq(Answers)
      /\ <<"note">> \in Seq(Answers)
  BY DEF Answers
<1>2. CASE LoginWelcome \/ LoseUpload
  <2>1. s2c' \in Seq(Answers) /\ srv' \in {srv, "killed"}
    BY <1>1, <1>2, ToClientTypes DEF LoginWelcome, LoseUpload
  <2> QED BY <1>2, <2>1 DEF LoginWelcome, LoseUpload
<1>3. CASE HandlerEnds
  BY <1>3 DEF HandlerEnds
<1>4. CASE CloseSocket \/ RemoveEntry
  BY <1>4, SessionAssumption DEF CloseSocket, RemoveEntry
<1>5. CASE Notify
  <2>1. s2c' \in Seq(Answers) /\ srv' \in {srv, "killed"}
    BY <1>1, <1>5, ToClientTypes DEF Notify
  <2> QED BY <1>5, <2>1, SessionAssumption DEF Notify
<1>6. CASE Shutdown \/ ServerExit
  <2>1. s2c' \in Seq(Answers)
    BY <1>6, AppendProperties DEF Shutdown, ServerExit, Answers
  <2> QED BY <1>6, <2>1 DEF Shutdown, ServerExit
<1> QED BY <1>2, <1>3, <1>4, <1>5, <1>6

\* What a step of the handler's that reads a message does to the connection.
LEMMA HandlerReads ==
  ASSUME \/ LoginAccept \/ LoginRefuse \/ Handle \/ AskUpload \/ HandleExit
         \/ HandleGarbage \/ ReadSize \/ ReadData
  PROVE  /\ c2s # <<>> /\ c2s' \in {Tail(c2s), <<Msg("rest")>> \o Tail(c2s)}
         /\ \/ UNCHANGED <<s2c, srv>>
            \/ \E ms \in Seq(Answers) : ToClient(ms)
         /\ name' \in {name, Head(c2s).n}
         /\ handler' \in {"login", "welcome", "loop", "size", "data", "short",
                          "closing"}
         /\ UNCHANGED <<client, sock, notes>>
PROOF
<1>1. /\ <<"refused">> \in Seq(Answers) /\ <<"reply">> \in Seq(Answers)
      /\ <<"reply", "reply">> \in Seq(Answers)
      /\ <<"upload_request">> \in Seq(Answers)
  BY DEF Answers
<1> USE DEF HandlerRuns, HeadIs
<1>2. CASE LoginAccept
  BY <1>2 DEF LoginAccept
<1>3. CASE LoginRefuse
  BY <1>1, <1>3 DEF LoginRefuse
<1>4. CASE Handle
  BY <1>1, <1>4 DEF Handle
<1>5. CASE AskUpload
  BY <1>1, <1>5 DEF AskUpload
<1>6. CASE HandleExit
  BY <1>6 DEF HandleExit
<1>7. CASE HandleGarbage
  BY <1>1, <1>7 DEF HandleGarbage
<1>8. CASE ReadSize
  BY <1>1, <1>8 DEF ReadSize
<1>9. CASE ReadData
  BY <1>1, <1>9 DEF ReadData
<1> QED BY <1>2, <1>3, <1>4, <1>5, <1>6, <1>7, <1>8, <1>9

\* A step of the handler's that reads a message.
LEMMA ReaderTypes ==
  ASSUME TypeOK, AttemptsInv,
         \/ LoginAccept \/ LoginRefuse \/ Handle \/ AskUpload \/ HandleExit
         \/ HandleGarbage \/ ReadSize \/ ReadData
  PROVE  TypeOK' /\ AttemptsInv'
PROOF
<1> USE DEF client
<1>1. attempt \in Nat /\ c2s \in Seq(Sent)
  BY SessionAssumption DEF TypeOK
<1>2. c2s' \in Seq(Sent) /\ AttemptsInv' /\ Head(c2s).n \in 0 .. attempt
  BY <1>1, HandlerReads, ReadTypes
<1>3. s2c' \in Seq(Answers) /\ srv' \in {srv, "killed"}
  BY HandlerReads, ToClientTypes DEF TypeOK
<1> QED BY SMTT(40), <1>2, <1>3, HandlerReads DEF TypeOK

-----------------------------------------------------------------------------
(***************************************************************************)
(* Every step keeps both ends of the connection as EndsInv says.           *)
(***************************************************************************)
\* The steps of the client: it closes its end only when the process ends.
LEMMA ClientEnds ==
  ASSUME TypeOK, EndsInv, MainStep \/ ReceiveStep \/ Input
  PROVE  EndsInv'
PROOF
<1> USE DEF EndsInv, server
<1>1. CASE MainStep
  BY <1>1 DEF MainStep, LoginAnswer, LoginLost, InputEnds, Join, End
<1>2. CASE ReceiveStep
  BY <1>2 DEF ReceiveStep, ReceiveEnds, Receive, UploadSize, UploadData, UploadFails
<1>3. CASE Input
  BY <1>3 DEF Input, SendLogin, LoginGivenUp, TypeExit, TypeEof, Interrupt, Kill,
              TypeCommand, End
<1> QED BY <1>1, <1>2, <1>3

\* The steps of the server: a handler closes its end only at its end.
LEMMA ServerEnds ==
  ASSUME TypeOK, EndsInv, HandlerStep \/ Notify \/ Shutdown \/ ServerExit
  PROVE  EndsInv'
PROOF
<1> USE DEF EndsInv, client, HandlerRuns
<1>1. CASE LoginAccept \/ LoginWelcome \/ LoginRefuse
  BY <1>1 DEF LoginAccept, LoginWelcome, LoginRefuse
<1>2. CASE Handle \/ AskUpload \/ HandleExit \/ HandleGarbage
  BY <1>2 DEF Handle, AskUpload, HandleExit, HandleGarbage
<1>3. CASE ReadSize \/ ReadData \/ LoseUpload
  BY <1>3 DEF ReadSize, ReadData, LoseUpload
<1>4. CASE HandlerEnds \/ CloseSocket \/ RemoveEntry
  BY <1>4 DEF HandlerEnds, CloseSocket, RemoveEntry
<1>5. CASE Notify \/ Shutdown \/ ServerExit
  BY <1>5 DEF Notify, Shutdown, ServerExit
<1> QED BY <1>1, <1>2, <1>3, <1>4, <1>5 DEF HandlerStep

-----------------------------------------------------------------------------
(***************************************************************************)
(* Every step keeps the conversation of the login as LoginInv says.        *)
(***************************************************************************)
\* The steps of the client's main thread.
LEMMA MainLogin ==
  ASSUME IndInv, MainStep \/ Input
  PROVE  LoginInv'
PROOF
<1> USE DEF IndInv, LoginInv, NameSubmitted, NameAccepted, NameRefused,
            NameWelcome, Undisturbed, server
<1>1. CASE LoginAnswer
  <2> SUFFICES ASSUME Undisturbed' PROVE LoginInv'
    BY DEF LoginInv
  <2>1. NameRefused \/ NameWelcome
    BY <1>1 DEF LoginAnswer
  <2>2. /\ s2c' = Tail(s2c) /\ UNCHANGED <<attempt, c2s, server>>
        /\ main' = IF Head(s2c) = "success" THEN "input" ELSE "login"
    BY <1>1 DEF LoginAnswer
  <2>3. CASE NameRefused
    <3>1. Head(s2c) = "refused" /\ s2c' = <<>>
      BY <2>2, <2>3
    <3> QED BY <2>2, <2>3, <3>1
  <2>4. CASE NameWelcome
    <3>1. Head(s2c) = "success"
      BY <2>4
    <3> QED BY <2>2, <2>4, <3>1
  <2> QED BY <2>1, <2>3, <2>4
<1>2. CASE LoginLost \/ Join \/ LoginGivenUp \/ Kill
  BY <1>2 DEF LoginLost, Join, LoginGivenUp, Kill, End
<1>3. CASE InputEnds \/ TypeExit \/ TypeEof
  BY <1>3 DEF InputEnds, TypeExit, TypeEof
<1>4. CASE Interrupt
  BY <1>4 DEF Interrupt, End
<1>5. CASE SendLogin
  BY <1>5 DEF SendLogin, EndsInv, ToServer, ServerOpen, ServerRuns
<1>6. CASE \E k \in {"command", "sendfile"} : TypeCommand(k)
  BY <1>6 DEF TypeCommand
<1> QED BY <1>1, <1>2, <1>3, <1>4, <1>5, <1>6 DEF MainStep, Input

\* The receive thread does not run during the login.
LEMMA ReceiveLogin ==
  ASSUME IndInv, ReceiveStep
  PROVE  LoginInv'
PROOF
<1>1. /\ main \notin {"login", "login_wait"}
      /\ UNCHANGED <<main, handler, name, attempt, notes, srv>>
  BY DEF IndInv, EndsInv, ReceiveStep, ReceiveEnds, Receive, UploadSize, UploadData,
         UploadFails, server
<1> QED BY <1>1 DEF IndInv, LoginInv, Undisturbed

\* The steps of the handler.
LEMMA HandlerLogin ==
  ASSUME IndInv, HandlerStep
  PROVE  LoginInv'
PROOF
<1> USE DEF IndInv, EndsInv, LoginInv, NameSubmitted, NameAccepted, NameRefused,
            NameWelcome, Undisturbed, client, HandlerRuns, HeadIs, Eof
<1>1. CASE LoginAccept
  <2> SUFFICES ASSUME Undisturbed' PROVE LoginInv'
    BY DEF LoginInv
  <2>1. /\ handler = "login" /\ c2s # <<>> /\ name' = Head(c2s).n
        /\ c2s' = Tail(c2s) /\ handler' = "welcome"
        /\ UNCHANGED <<main, attempt, s2c, notes, srv>>
    BY <1>1 DEF LoginAccept
  <2>2. CASE main = "login_wait"
    <3>1. NameSubmitted
      BY <2>1, <2>2
    <3>2. Head(c2s) = Login(attempt) /\ c2s' = <<>>
      BY <2>1, <3>1
    <3>3. name' = attempt
      BY <2>1, <3>2 DEF Login
    <3> QED BY <2>1, <2>2, <3>1, <3>2, <3>3
  <2>3. CASE main # "login_wait"
    BY <2>1, <2>3
  <2> QED BY <2>2, <2>3
<1>2. CASE LoginWelcome
  BY <1>2 DEF LoginWelcome, ToClient
<1>3. CASE LoginRefuse
  BY <1>3 DEF LoginRefuse, ToClient
<1>4. CASE Handle \/ AskUpload \/ HandleExit \/ HandleGarbage
  BY <1>4 DEF Handle, AskUpload, HandleExit, HandleGarbage, ToClient
<1>5. CASE ReadSize \/ ReadData \/ LoseUpload
  BY <1>5 DEF ReadSize, ReadData, LoseUpload, ToClient
<1>6. CASE HandlerEnds \/ CloseSocket \/ RemoveEntry
  BY <1>6 DEF HandlerEnds, CloseSocket, RemoveEntry
<1> QED BY <1>1, <1>2, <1>3, <1>4, <1>5, <1>6 DEF HandlerStep

\* The others disturb the login, or nothing is left to disturb.
LEMMA OthersLogin ==
  ASSUME IndInv, Notify \/ Shutdown \/ ServerExit
  PROVE  LoginInv'
PROOF
<1>1. ~Undisturbed'
  BY DEF IndInv, TypeOK, Undisturbed, Notify, Shutdown, ServerExit
<1> QED BY <1>1 DEF LoginInv

-----------------------------------------------------------------------------
(***************************************************************************)
(* The theorems.                                                           *)
(***************************************************************************)
LEMMA InitIndInv == Init => IndInv
PROOF
  BY SessionAssumption DEF Init, IndInv, TypeOK, AttemptsInv, EndsInv, LoginInv

\* Every step of the system keeps the invariant.
LEMMA NextIndInv == IndInv /\ [Next]_vars => IndInv'
PROOF
<1> SUFFICES ASSUME IndInv, [Next]_vars PROVE IndInv'
  OBVIOUS
<1>1. CASE MainStep \/ Input
  <2>1. TypeOK' /\ AttemptsInv'
    BY <1>1, ClientTypes, WriteTypes DEF IndInv, MainStep, Input
  <2> QED BY <1>1, <2>1, ClientEnds, MainLogin DEF IndInv
<1>2. CASE ReceiveStep
  <2>1. TypeOK' /\ AttemptsInv'
    BY <1>2, ClientTypes, WriteTypes DEF IndInv, ReceiveStep
  <2> QED BY <1>2, <2>1, ClientEnds, ReceiveLogin DEF IndInv
<1>3. CASE HandlerStep
  <2>1. TypeOK' /\ AttemptsInv'
    BY <1>3, ServerTypes, ReaderTypes DEF IndInv, HandlerStep
  <2> QED BY <1>3, <2>1, ServerEnds, HandlerLogin DEF IndInv
<1>4. CASE Notify \/ Shutdown \/ ServerExit
  <2>1. TypeOK' /\ AttemptsInv'
    BY <1>4, ServerTypes DEF IndInv
  <2> QED BY <1>4, <2>1, ServerEnds, OthersLogin DEF IndInv
<1>5. CASE UNCHANGED vars
  BY <1>5 DEF vars, client, server, IndInv, TypeOK, AttemptsInv, EndsInv, LoginInv,
              Undisturbed, NameSubmitted, NameAccepted, NameRefused, NameWelcome
<1> QED BY <1>1, <1>2, <1>3, <1>4, <1>5 DEF Next

\* Session's inductive invariant: where the login's conversation is.
THEOREM SessionInvariance == Spec => []IndInv
PROOF
<1> QED BY InitIndInv, NextIndInv, PTL DEF Spec

\* Every variable keeps its type; a registered name is one that was submitted.
THEOREM SessionTypeCorrect == Spec => []TypeOK
PROOF
<1>1. IndInv => TypeOK
  BY DEF IndInv
<1> QED BY <1>1, SessionInvariance, PTL

\* client_helper.c:248: the client is told it is logged in as the user it is
\* registered as, unless something else was sent to it during the login.
THEOREM LoggedInCorrect == Spec => []LoggedInAsRegistered
PROOF
<1>1. IndInv => LoggedInAsRegistered
  BY DEF IndInv, LoginInv, Undisturbed, TypeOK, LoggedInAsRegistered
<1> QED BY <1>1, SessionInvariance, PTL

-----------------------------------------------------------------------------
(***************************************************************************)
(* A client that waits for the answer to a name is not forgotten.  Until   *)
(* it is logged in it sends nothing but names, so that no handler takes    *)
(* one of them for a file: NamesInv.                                       *)
(***************************************************************************)
NamesInv ==
  main \in {"login", "login_wait"} =>
    /\ handler \notin {"size", "data", "short"}
    /\ \A i \in DOMAIN c2s : c2s[i].kind = "login"

\* With a name next, every kind that is asked for but a name is missed.
LEMMA OnlyNames ==
  ASSUME TypeOK, NamesInv, main \in {"login", "login_wait"}, c2s # <<>>
  PROVE  /\ Head(c2s).kind = "login"
         /\ \A i \in DOMAIN Tail(c2s) : Tail(c2s)[i].kind = "login"
PROOF
<1> DEFINE t == Tail(c2s)
<1>1. /\ \A i \in DOMAIN t : t[i] = c2s[i + 1] /\ i + 1 \in DOMAIN c2s
      /\ Head(c2s) = c2s[1] /\ 1 \in DOMAIN c2s
  BY HeadTailProperties DEF TypeOK
<1> HIDE DEF t
<1>2. Head(c2s).kind = "login" /\ \A i \in DOMAIN t : t[i].kind = "login"
  BY <1>1 DEF NamesInv
<1> QED BY <1>2 DEF t

\* What is sent is not nothing.
LEMMA SentToClient ==
  ASSUME TypeOK, cli = "open",
         \E ms \in {<<"success">>, <<"refused">>, <<"reply">>, <<"reply", "reply">>,
                    <<"note">>} : ToClient(ms)
  PROVE  s2c' # <<>>
PROOF
<1> PICK ms \in {<<"success">>, <<"refused">>, <<"reply">>, <<"reply", "reply">>,
                 <<"note">>} : ToClient(ms)
  OBVIOUS
<1>1. ms \in Seq(Answers) /\ Len(ms) \in {1, 2}
  <2>1. /\ <<"success">> \in Seq(Answers) /\ <<"refused">> \in Seq(Answers)
        /\ <<"reply">> \in Seq(Answers) /\ <<"note">> \in Seq(Answers)
        /\ <<"reply", "reply">> \in Seq(Answers)
    BY DEF Answers
  <2>2. /\ Len(<<"success">>) = 1 /\ Len(<<"refused">>) = 1 /\ Len(<<"reply">>) = 1
        /\ Len(<<"note">>) = 1 /\ Len(<<"reply", "reply">>) = 2
    OBVIOUS
  <2>3. Len(ms) = 1 \/ Len(ms) = 2
    BY Zenon, <2>2
  <2>4. ms \in Seq(Answers)
    BY Zenon, <2>1
  <2> QED BY <2>3, <2>4
<1>2. s2c' = s2c \o ms
  BY DEF ToClient
<1>3. Len(s2c') = Len(s2c) + Len(ms) /\ Len(s2c) \in Nat
  BY <1>1, <1>2, ConcatProperties, LenProperties DEF TypeOK
<1>4. Len(s2c') # 0
  <2> DEFINE n == Len(s2c)
             k == Len(ms)
  <2>1. n \in Nat /\ k \in {1, 2} /\ Len(s2c') = n + k
    BY <1>1, <1>3
  <2> HIDE DEF n, k
  <2> QED BY <2>1
<1>5. Len(<<>>) = 0
  OBVIOUS
<1> QED BY <1>4, <1>5, Zenon

\* The steps of the client: it sends names until it is logged in.
LEMMA ClientNames ==
  ASSUME IndInv, NamesInv, MainStep \/ ReceiveStep \/ Input
  PROVE  NamesInv'
PROOF
<1> USE DEF NamesInv, server
<1>1. CASE SendLogin
  <2>1. /\ main = "login" /\ handler' = handler
        /\ c2s' \in {c2s, Append(c2s, Login(attempt + 1))}
    BY <1>1 DEF SendLogin, ToServer
  <2>2. CASE c2s' = c2s
    BY <2>1, <2>2
  <2>3. CASE c2s' = Append(c2s, Login(attempt + 1))
    <3>1. c2s \in Seq(Sent) /\ Login(attempt + 1).kind = "login"
      BY DEF IndInv, TypeOK, Login
    <3>2. \A i \in DOMAIN c2s' :
            IF i = Len(c2s) + 1 THEN c2s'[i] = Login(attempt + 1)
                                ELSE i \in DOMAIN c2s /\ c2s'[i] = c2s[i]
      BY <2>3, <3>1, AppendProperties
    <3> QED BY <2>1, <3>1, <3>2
  <2> QED BY <2>1, <2>2, <2>3
<1>2. CASE LoginAnswer
  BY <1>2 DEF LoginAnswer
<1>3. CASE LoginLost \/ Join \/ LoginGivenUp \/ Kill \/ Interrupt
  BY <1>3 DEF LoginLost, Join, LoginGivenUp, Kill, Interrupt, End
<1>4. CASE \/ InputEnds \/ TypeExit \/ TypeEof
           \/ \E k \in {"command", "sendfile"} : TypeCommand(k)
  BY <1>4 DEF InputEnds, TypeExit, TypeEof, TypeCommand
<1>5. CASE ReceiveStep
  <2>1. recv # "none" /\ main' = main
    BY <1>5 DEF ReceiveStep, ReceiveEnds, Receive, UploadSize, UploadData, UploadFails
  <2> QED BY <2>1 DEF IndInv, EndsInv
<1> QED BY <1>1, <1>2, <1>3, <1>4, <1>5 DEF MainStep, Input

\* The steps of the handler: before the login is over it reads names.
LEMMA HandlerNames ==
  ASSUME IndInv, NamesInv, HandlerStep
  PROVE  NamesInv'
PROOF
<1> SUFFICES ASSUME main \in {"login", "login_wait"} PROVE NamesInv'
  BY DEF NamesInv, HandlerStep, LoginAccept, LoginWelcome, LoginRefuse, Handle,
         AskUpload, HandleExit, HandleGarbage, ReadSize, ReadData, LoseUpload,
         HandlerEnds, CloseSocket, RemoveEntry, client
<1>1. handler \notin {"size", "data", "short"}
  BY DEF NamesInv
<1>2. ASSUME c2s # <<>> PROVE Head(c2s).kind = "login"
  BY <1>2, OnlyNames DEF IndInv
<1>3. /\ handler' \notin {"size", "data", "short"}
      /\ c2s' = c2s \/ (c2s # <<>> /\ c2s' = Tail(c2s))
  <2> USE <1>1, <1>2 DEF HandlerRuns, HeadIs
  <2>1. CASE LoginAccept \/ LoginWelcome \/ LoginRefuse
    BY <2>1 DEF LoginAccept, LoginWelcome, LoginRefuse
  <2>2. CASE Handle \/ AskUpload \/ HandleExit \/ HandleGarbage
    BY <2>2 DEF Handle, AskUpload, HandleExit, HandleGarbage
  <2>3. CASE ReadSize \/ ReadData \/ LoseUpload
    BY <2>3 DEF ReadSize, ReadData, LoseUpload
  <2>4. CASE HandlerEnds \/ CloseSocket \/ RemoveEntry
    BY <2>4 DEF HandlerEnds, CloseSocket, RemoveEntry
  <2> QED BY <2>1, <2>2, <2>3, <2>4 DEF HandlerStep
<1>4. \A i \in DOMAIN c2s' : c2s'[i].kind = "login"
  <2>1. CASE c2s' = c2s
    BY <2>1 DEF NamesInv
  <2>2. CASE c2s # <<>> /\ c2s' = Tail(c2s)
    <3> HIDE DEF NamesInv
    <3> QED BY <2>2, OnlyNames DEF IndInv
  <2> QED BY <1>3, <2>1, <2>2
<1> QED BY <1>3, <1>4 DEF NamesInv

\* The client waits when it has sent a name, which is under way if the handler's
\* end of the connection is still open.
LEMMA ClientAnswer ==
  ASSUME IndInv, NamesInv, AnswerIsDue, MainStep \/ ReceiveStep \/ Input
  PROVE  AnswerIsDue'
PROOF
<1> USE DEF AnswerIsDue, server
<1>1. CASE SendLogin
  <2>1. CASE ServerOpen
    <3>1. c2s' = Append(c2s, Login(attempt + 1))
      BY <1>1, <2>1 DEF SendLogin, ToServer
    <3>2. c2s' # <<>>
      BY <3>1, AppendProperties DEF IndInv, TypeOK
    <3> QED BY <3>2
  <2>2. CASE ~ServerOpen
    <3>1. ~ServerRuns \/ handler \in {"removing", "gone"}
      BY <2>2 DEF ServerOpen, IndInv, EndsInv, TypeOK
    <3>2. handler' = handler /\ srv' = srv
      BY <1>1 DEF SendLogin
    <3> QED BY <3>1, <3>2 DEF ServerRuns
  <2> QED BY <2>1, <2>2
<1>2. CASE LoginAnswer \/ LoginLost \/ Join \/ LoginGivenUp \/ Kill \/ Interrupt
  BY <1>2 DEF LoginAnswer, LoginLost, Join, LoginGivenUp, Kill, Interrupt, End
<1>3. CASE \/ InputEnds \/ TypeExit \/ TypeEof
           \/ \E k \in {"command", "sendfile"} : TypeCommand(k)
  BY <1>3 DEF InputEnds, TypeExit, TypeEof, TypeCommand
<1>4. CASE ReceiveStep
  <2>1. recv # "none" /\ main' = main
    BY <1>4 DEF ReceiveStep, ReceiveEnds, Receive, UploadSize, UploadData, UploadFails
  <2> QED BY <2>1 DEF IndInv, EndsInv
<1> QED BY <1>1, <1>2, <1>3, <1>4 DEF MainStep, Input

\* The handler answers each name that it reads, or is about to.
LEMMA HandlerAnswer ==
  ASSUME IndInv, NamesInv, AnswerIsDue, HandlerStep
  PROVE  AnswerIsDue'
PROOF
<1> SUFFICES ASSUME main = "login_wait" PROVE AnswerIsDue'
  BY DEF AnswerIsDue, HandlerStep, LoginAccept, LoginWelcome, LoginRefuse, Handle,
         AskUpload, HandleExit, HandleGarbage, ReadSize, ReadData, LoseUpload,
         HandlerEnds, CloseSocket, RemoveEntry, client
<1>1. handler \notin {"size", "data", "short"} /\ cli = "open" /\ TypeOK
  BY DEF NamesInv, IndInv, EndsInv
<1>2. ASSUME c2s # <<>> PROVE Head(c2s).kind = "login"
  BY <1>2, OnlyNames DEF IndInv
<1> USE DEF HandlerRuns, HeadIs, Eof
<1>3. CASE LoginAccept
  BY <1>3 DEF LoginAccept, AnswerIsDue
<1>4. CASE LoginWelcome \/ LoginRefuse
  <2>1. s2c' # <<>>
    BY <1>1, <1>4, SentToClient DEF LoginWelcome, LoginRefuse
  <2> QED BY <2>1 DEF AnswerIsDue
<1>5. CASE Handle
  <2>1. s2c' # <<>>
    BY <1>1, <1>5, SentToClient DEF Handle
  <2> QED BY <2>1 DEF AnswerIsDue
<1>6. CASE AskUpload \/ HandleExit \/ HandleGarbage
  BY <1>2, <1>6 DEF AskUpload, HandleExit, HandleGarbage
<1>7. CASE ReadSize \/ ReadData \/ LoseUpload
  BY <1>1, <1>7 DEF ReadSize, ReadData, LoseUpload
<1>8. CASE HandlerEnds \/ CloseSocket \/ RemoveEntry
  BY <1>8 DEF HandlerEnds, CloseSocket, RemoveEntry, AnswerIsDue
<1> QED BY <1>3, <1>4, <1>5, <1>6, <1>7, <1>8 DEF HandlerStep

\* The other handlers and the shutdown take nothing away.
LEMMA OthersAnswer ==
  ASSUME IndInv, NamesInv, AnswerIsDue, Notify \/ Shutdown \/ ServerExit
  PROVE  NamesInv' /\ AnswerIsDue'
PROOF
<1>0. UNCHANGED <<main, cli, c2s, handler>>
  BY DEF Notify, Shutdown, ServerExit, client
<1>1. NamesInv'
  BY <1>0 DEF NamesInv
<1>2. ASSUME main = "login_wait" PROVE AnswerIsDue'
  <2>1. cli = "open" /\ TypeOK
    BY <1>2 DEF IndInv, EndsInv
  <2>2. CASE Notify
    <3>1. s2c' # <<>>
      BY <2>1, <2>2, SentToClient DEF Notify
    <3> QED BY <3>1 DEF AnswerIsDue
  <2>3. CASE Shutdown
    <3>1. s2c' # <<>> \/ s2c' = s2c
      BY <2>1, <2>3, AppendProperties DEF Shutdown, TypeOK
    <3>2. ServerRuns' <=> ServerRuns
      BY <2>3 DEF Shutdown, ServerRuns
    <3> QED BY <1>0, <3>1, <3>2 DEF AnswerIsDue
  <2>4. CASE ServerExit
    BY <2>4 DEF ServerExit, AnswerIsDue, ServerRuns
  <2> QED BY <2>2, <2>3, <2>4
<1> QED BY <1>0, <1>1, <1>2 DEF AnswerIsDue

\* The wait for the answer to a name cannot deadlock: the handler never waits
\* for the client while the client waits for it (client_helper.c:202-253).
THEOREM AnswerCorrect == Spec => []AnswerIsDue
PROOF
<1>1. Init => NamesInv /\ AnswerIsDue
  BY DEF Init, NamesInv, AnswerIsDue
<1>2. IndInv /\ NamesInv /\ AnswerIsDue /\ [Next]_vars => NamesInv' /\ AnswerIsDue'
  <2> SUFFICES ASSUME IndInv, NamesInv, AnswerIsDue, [Next]_vars
               PROVE  NamesInv' /\ AnswerIsDue'
    OBVIOUS
  <2>1. CASE MainStep \/ ReceiveStep \/ Input
    BY <2>1, ClientNames, ClientAnswer
  <2>2. CASE HandlerStep
    BY <2>2, HandlerNames, HandlerAnswer
  <2>3. CASE Notify \/ Shutdown \/ ServerExit
    BY <2>3, OthersAnswer
  <2>4. CASE UNCHANGED vars
    BY <2>4 DEF vars, client, server, NamesInv, AnswerIsDue, ServerRuns
  <2> QED BY <2>1, <2>2, <2>3, <2>4 DEF Next
<1> QED BY <1>1, <1>2, SessionInvariance, PTL DEF Spec
=============================================================================
