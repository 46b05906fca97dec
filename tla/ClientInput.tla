----------------------------- MODULE ClientInput -----------------------------
(***************************************************************************)
(* What becomes of a line the user types: the two fgets of the client      *)
(* (login_to_server, process_user_input), the client's check of a command  *)
(* (validate_command) and what the server reads in it (handle_client_login,*)
(* process_client_command and the beginnings of the handlers).  The two    *)
(* programs take a command apart in different ways; the properties relate  *)
(* what one accepts to what the other understands.                         *)
(*                                                                         *)
(* A line is a sequence of symbols: a blank, a letter, or a name of a      *)
(* command, which is one symbol.  fgets leaves in the buffer of stdin what *)
(* does not fit, and select looks at the terminal, not at that buffer.     *)
(***************************************************************************)
EXTENDS Naturals, Sequences, FiniteSets, SequencesExt

CONSTANTS
  Name,         \* lines typed where a username is asked for
  Line,         \* lines typed where a command is asked for
  Alnum,        \* the symbols isalnum accepts
  Extension,    \* the symbols that stand for an allowed extension of a file
  LocalFile,    \* readable regular files of at most MAX_FILE_SIZE bytes
  Peer,         \* users that are logged in already
  NameSize,     \* what fgets reads of a username (16)
  LineSize,     \* what fgets reads of a command (1023)
  RoomNameSize  \* MAX_ROOM_NAME_LENGTH

Blank == {" ", "tab"}

\* The end of a line is no part of it; a blank is not alphanumeric and ends no
\* extension; who is logged in has a valid name.
ASSUME ClientInputAssumption ==
  /\ NameSize \in Nat \ {0} /\ LineSize \in Nat \ {0}
  /\ RoomNameSize \in Nat \ {0}
  /\ \A l \in Name \union Line : l \in Seq({l[i] : i \in DOMAIN l} \ {"nl"})
  /\ (Alnum \union Extension) \intersect Blank = {}
  /\ Peer \subseteq Seq(Alnum) \ {<<>>}

VARIABLES
  tty,        \* lines typed and not yet read by the process
  eof,        \* the user has closed the input
  buffered,   \* what fgets has left in the buffer of stdin
  phase,      \* where the client is
  running,    \* client_running
  registered, \* the name the server knows the user by
  message,    \* what the client has sent and the server not yet read
  outcome,    \* what the server made of it
  origin,     \* the line that the last fgets read from
  limit       \* what that fgets could read when it met the line

input == <<tty, eof, buffered, origin, limit>>
vars  == <<input, phase, running, registered, message, outcome>>

-----------------------------------------------------------------------------
(***************************************************************************)
(* Lines, words and blanks.                                                *)
(***************************************************************************)
Least(S)    == CHOOSE x \in S : \A y \in S : x <= y
Greatest(S) == CHOOSE x \in S : \A y \in S : x >= y
From(s, i)  == SubSeq(s, i, Len(s))
UpTo(s, n)  == SubSeq(s, 1, IF n < Len(s) THEN n ELSE Len(s))

\* The tokens strtok finds (extract_command_args).
Words(s) ==
  LET inWord == {i \in DOMAIN s : s[i] \notin Blank}
      starts == {i \in inWord : i = 1 \/ i - 1 \notin inWord}
      end(i) == Greatest({j \in inWord : i .. j \subseteq inWord})
      nth(k) == CHOOSE i \in starts : Cardinality({j \in starts : j <= i}) = k
  IN  [k \in 1 .. Cardinality(starts) |-> SubSeq(s, nth(k), end(nth(k)))]

SkipBlanks(s) ==
  LET rest == {i \in DOMAIN s : s[i] \notin Blank}
  IN  IF rest = {} THEN <<>> ELSE From(s, Least(rest))

\* Trailing blanks go; a first character stays whatever it is.
TrimEnd(s, blanks) ==
  IF s = <<>> THEN s
  ELSE SubSeq(s, 1, Greatest({1} \union {i \in DOMAIN s : s[i] \notin blanks}))

AllAlnum(s) == \A i \in DOMAIN s : s[i] \in Alnum

-----------------------------------------------------------------------------
(***************************************************************************)
(* The client: validate_command.  The checks of it that cannot fail once   *)
(* the words have been counted (an empty word, a whisper without a         *)
(* message) are left out.                                                  *)
(***************************************************************************)
ClientWords(line) == Words(Tail(line))

Find(line, s) == {i \in DOMAIN line : IsPrefix(s, From(line, i))}

\* "broadcast " is looked for in the line; nothing may follow it only if it is
\* the end of it.
BroadcastHasMessage(line) ==
  LET at == Find(line, <<"broadcast", " ">>)
  IN  at # {} => From(line, Least(at) + 2) # <<>>

\* Mutant: a room name may have several words.
ArityOfManyWords(words) ==
  CASE words[1] \in {<<"exit">>, <<"help">>, <<"leave">>} -> Len(words) = 1
    [] words[1] \in {<<"join">>, <<"broadcast">>} -> Len(words) >= 2
    [] words[1] = <<"whisper">> -> Len(words) >= 3
    [] words[1] = <<"sendfile">> -> Len(words) = 3
    [] OTHER -> FALSE

Arity(words) ==
  CASE words[1] \in {<<"exit">>, <<"help">>, <<"leave">>} -> Len(words) = 1
    [] words[1] = <<"join">> -> Len(words) = 2
    [] words[1] = <<"broadcast">> -> Len(words) >= 2
    [] words[1] = <<"whisper">> -> Len(words) >= 3
    [] words[1] = <<"sendfile">> -> Len(words) = 3
    [] OTHER -> FALSE

ClientAccepts(line) ==
  LET words == ClientWords(line)
  IN  /\ words # <<>>
      /\ Arity(words)
      /\ words[1] = <<"broadcast">> => BroadcastHasMessage(line)
      /\ words[1] = <<"sendfile">> => words[2] \in LocalFile

-----------------------------------------------------------------------------
(***************************************************************************)
(* The server.                                                             *)
(***************************************************************************)
Nothing == [cmd |-> "none", words |-> <<>>]
Refused == [cmd |-> "error", words |-> <<>>]
Accepted(cmd, words) == [cmd |-> cmd, words |-> words]

\* Mutant: any character will do in a name.
ValidNameOfAnything(name) == Len(name) \in 1 .. NameSize

ValidName(name) == Len(name) \in 1 .. NameSize /\ AllAlnum(name)

\* handle_join_command: the name is cut, trimmed and checked, in this order.
JoinRequest(rest) ==
  LET name == TrimEnd(SkipBlanks(UpTo(rest, RoomNameSize)), Blank)
  IN  IF name # <<>> /\ AllAlnum(name) THEN Accepted("join", <<name>>)
      ELSE Refused

BroadcastRequest(rest) ==
  LET text == TrimEnd(SkipBlanks(rest), Blank)
  IN  IF text # <<>> THEN Accepted("broadcast", Words(text)) ELSE Refused

\* The first space ends the first argument.
Spaces(s) == {i \in DOMAIN s : s[i] = " "}
Before(s) == SubSeq(s, 1, Least(Spaces(s)) - 1)
After(s)  == From(s, Least(Spaces(s)) + 1)

IsPeer(name) == name \in Peer /\ name # registered

WhisperRequest(rest) ==
  IF /\ Spaces(rest) # {}
     /\ SkipBlanks(After(rest)) # <<>>
     /\ IsPeer(Before(rest))
  THEN Accepted("whisper", <<Before(rest)>> \o Words(After(rest)))
  ELSE Refused

ValidExtension(file) == file # <<>> /\ Last(file) \in Extension

SendfileTarget(rest) ==
  LET target == After(rest)
      skipped == {i \in DOMAIN target : target[i] # " "}
  IN  IF skipped = {} THEN <<>>
      ELSE TrimEnd(From(target, Least(skipped)), {" "})

SendfileRequest(rest) ==
  IF /\ Spaces(rest) # {}
     /\ ValidExtension(Before(rest))
     /\ IsPeer(SendfileTarget(rest))
  THEN Accepted("sendfile", <<Before(rest), SendfileTarget(rest)>>)
  ELSE Refused

\* Mutant: one character too many is skipped after the command.
RequestOffByOne(line) ==
  LET is(cmd) == IsPrefix(<<"/", cmd>>, line)
      has(cmd) == IsPrefix(<<"/", cmd, " ">>, line)
      rest == From(line, 5)
  IN  CASE has("join")      -> JoinRequest(rest)
        [] is("leave")      -> Accepted("leave", <<>>)
        [] has("broadcast") -> BroadcastRequest(rest)
        [] has("whisper")   -> WhisperRequest(rest)
        [] has("sendfile")  -> SendfileRequest(rest)
        [] is("exit")       -> Accepted("exit", <<>>)
        [] OTHER            -> Refused

\* process_client_command.
Request(line) ==
  LET is(cmd) == IsPrefix(<<"/", cmd>>, line)
      has(cmd) == IsPrefix(<<"/", cmd, " ">>, line)
      rest == From(line, 4)
  IN  CASE has("join")      -> JoinRequest(rest)
        [] is("leave")      -> Accepted("leave", <<>>)
        [] has("broadcast") -> BroadcastRequest(rest)
        [] has("whisper")   -> WhisperRequest(rest)
        [] has("sendfile")  -> SendfileRequest(rest)
        [] is("exit")       -> Accepted("exit", <<>>)
        [] OTHER            -> Refused

-----------------------------------------------------------------------------
(***************************************************************************)
(* The user, the client and the server's handler.                          *)
(***************************************************************************)
Init ==
  /\ tty = <<>> /\ eof = FALSE /\ buffered = <<>>
  /\ phase = "username" /\ running = TRUE
  /\ registered = <<>>
  /\ message = <<>> /\ outcome = Nothing
  /\ origin = <<>> /\ limit = 0

\* One line at a time is typed, when nothing is being sent (a bound: the client
\* itself does not wait for the server here).
Type ==
  /\ tty = <<>> /\ ~eof /\ running /\ message = <<>> /\ phase # "done"
  /\ \E l \in IF phase = "command" THEN Line ELSE Name : tty' = <<l>>
  /\ UNCHANGED <<eof, buffered, phase, running, registered, message, outcome,
                 origin, limit>>

CloseInput ==
  /\ ~eof /\ phase # "done"
  /\ eof' = TRUE
  /\ UNCHANGED <<tty, buffered, phase, running, registered, message, outcome,
                 origin, limit>>

\* fgets takes what is in the buffer, or a line of the terminal, up to the end
\* of the line or as much as fits.
Source    == IF buffered # <<>> THEN buffered ELSE Append(tty[1], "nl")
Available == buffered # <<>> \/ tty # <<>>

\* Mutant: no room is left for a terminator.
FitsLong(size) == size + 1

Fits(size) == size

Fgets(size) ==
  /\ Available
  /\ buffered' = From(Source, Fits(size) + 1)
  /\ IF buffered # <<>> THEN UNCHANGED <<tty, origin, limit>>
     ELSE tty' = Tail(tty) /\ origin' = tty[1] /\ limit' = size
  /\ UNCHANGED eof

\* What it returns, without the newline.
Got(size) == LET piece == UpTo(Source, Fits(size))
             IN  IF piece # <<>> /\ Last(piece) = "nl" THEN Front(piece) ELSE piece

Finish ==
  /\ phase' = "done"
  /\ UNCHANGED <<input, running, registered, message, outcome>>

\* login_to_server: an empty line is asked for again, anything else is sent.
ReadName ==
  /\ phase = "username"
  /\ Fgets(NameSize)
  /\ message' = Got(NameSize)
  /\ phase' = IF message' = <<>> THEN "username" ELSE "login"
  /\ UNCHANGED <<running, registered, outcome>>

NoName == phase = "username" /\ eof /\ ~Available /\ Finish

\* handle_client_login.
ServeName ==
  /\ phase = "login"
  /\ LET name == TrimEnd(message, Blank)
     IN  IF ValidName(name) /\ name \notin Peer
           THEN registered' = name /\ phase' = "command"
           ELSE phase' = "username" /\ UNCHANGED registered
  /\ message' = <<>>
  /\ UNCHANGED <<input, running, outcome>>

\* process_user_input: one turn, once select has found the terminal readable.
\* The next line is read when the last one has been served (the same bound).
Ready == tty # <<>> \/ eof

ReadCommand ==
  /\ phase = "command" /\ running /\ message = <<>>
  /\ Ready
  /\ Fgets(LineSize)
  /\ \E line \in {Got(LineSize)} :
       IF line # <<>> /\ line[1] = "/" /\ ClientAccepts(line)
         THEN /\ message' = IF IsPrefix(<<"/", "help">>, line) THEN <<>> ELSE line
              /\ running' = ~IsPrefix(<<"/", "exit">>, line)
         ELSE UNCHANGED <<message, running>>
  /\ UNCHANGED <<phase, registered, outcome>>

\* The input has ended, or client_running is clear.
LeaveInput ==
  /\ phase = "command"
  /\ ~running \/ (eof /\ ~Available)
  /\ Finish

\* The receiving thread clears client_running.
ServerGone ==
  /\ phase = "command" /\ running
  /\ running' = FALSE
  /\ UNCHANGED <<input, phase, registered, message, outcome>>

ServeCommand ==
  /\ phase \in {"command", "done"} /\ message # <<>> /\ outcome = Nothing
  /\ outcome' = Request(message)
  /\ UNCHANGED <<input, phase, running, registered, message>>

\* The handler is ready for the next message.
Served ==
  /\ outcome # Nothing /\ message # <<>>
  /\ message' = <<>> /\ outcome' = Nothing
  /\ UNCHANGED <<input, phase, running, registered>>

ClientStep == ReadName \/ NoName \/ ReadCommand \/ LeaveInput
ServerStep == ServeName \/ ServeCommand \/ Served

Next == Type \/ CloseInput \/ ServerGone \/ ClientStep \/ ServerStep

Spec == Init /\ [][Next]_vars

-----------------------------------------------------------------------------
(***************************************************************************)
(* Properties.                                                             *)
(***************************************************************************)
\* Every variable has its type; what is sent fits the buffer it was read into.
TypeOK ==
  /\ Len(tty) <= 1 /\ \A i \in DOMAIN tty : tty[i] \in Name \union Line
  /\ eof \in BOOLEAN /\ running \in BOOLEAN
  /\ phase \in {"username", "login", "command", "done"}
  /\ Len(message) <= IF phase = "login" THEN NameSize ELSE LineSize
  /\ outcome.cmd \in {"none", "error", "join", "leave", "broadcast", "whisper",
                      "sendfile", "exit"}
  /\ origin \in Name \union Line \union {<<>>}
  /\ limit \in {0, NameSize, LineSize}

\* The name the server registers is the line the user typed, without the blanks
\* at its end, unless the line was too long for the 17 bytes of login_to_server:
\* then it is a part of it.  It is alphanumeric in any case.
NameAsTyped ==
  [][registered' # registered =>
       /\ Len(registered') \in 1 .. NameSize /\ AllAlnum(registered')
       /\ registered' = TrimEnd(origin, Blank) \/ Len(origin) > limit]_vars

\* A message is a whole line, unless the line did not fit the buffer it was read
\* into: the rest of such a line is taken for a line of its own, and one that
\* follows a username for a command (client_helper.c:209, 300).
WholeLines ==
  message # <<>> => message = origin \/ Len(origin) > limit

\* What the server understands is what the client has checked: the same command
\* with the same words, but for a room name, cut at its greatest length, and for
\* a tab before the name of a file, which the server takes for a part of it and
\* so asks for another file than the client has checked (server_helper.c:1018).
ServerUnderstandsClient ==
  outcome.cmd \notin {"none", "error"} =>
    LET words == ClientWords(message)
    IN  /\ words[1] = <<outcome.cmd>>
        /\ Len(outcome.words) = Len(words) - 1
        /\ CASE outcome.cmd = "join" -> IsPrefix(outcome.words[1], words[2])
             [] outcome.cmd = "sendfile" ->
                  <<SkipBlanks(outcome.words[1]), outcome.words[2]>> = Tail(words)
             [] OTHER -> outcome.words = Tail(words)

\* One space before each argument, and no other blank.
Plain(line) ==
  /\ \A i \in DOMAIN line : line[i] # "tab"
  /\ \A i \in DOMAIN line \ {1} :
       line[i] = " " => i > 2 /\ i < Len(line) /\ line[i + 1] # " "

\* What is wrong with a line that is refused, if there is a reason.
Objection(words) ==
  \/ words[1] = <<"join">> /\ ~AllAlnum(UpTo(words[2], RoomNameSize))
  \/ words[1] = <<"whisper">> /\ ~IsPeer(words[2])
  \/ words[1] = <<"sendfile">> /\ ~(ValidExtension(words[2]) /\ IsPeer(words[3]))

\* A line the client lets through is refused by the server only if an argument
\* is not to its liking, or for its blanks: a blank after the slash, a tab, or
\* two blanks together.
RefusedForAReason ==
  outcome = Refused => Objection(ClientWords(message)) \/ ~Plain(message)
=============================================================================
