-------------------------- MODULE ClientInputProofs --------------------------
(***************************************************************************)
(* Proofs about ClientInput, for any lines, names and sizes of buffers.    *)
(*                                                                         *)
(* What is read depends on what fgets left behind the last time: BufferInv *)
(* says that this is the end of a line of exactly the greatest length, or  *)
(* of one that was too long.  What the server makes of a message depends   *)
(* on what the client has let through: RequestInv.                         *)
(*                                                                         *)
(* The two readings of a line are compared through its words.  The words   *)
(* are the parts that begin at the starts, which a set has in one order    *)
(* (StartsListed, WordsListed); a sequence cut at a blank has the words of *)
(* its two halves (WordsOfCut).  Everything the server does to a line - a  *)
(* prefix, skipped blanks, a cut at a space, trimmed blanks - is such a    *)
(* cut, so each command has a lemma that says which words it acts on.      *)
(***************************************************************************)
EXTENDS ClientInput, SequenceLemmas, FiniteSetTheorems, FunctionTheorems, TLAPS

\* What fgets reads: the symbols of the lines, and the ends of lines.
Symbol == (UNION {{l[i] : i \in DOMAIN l} : l \in Name \union Line}) \union {"nl"}

BufferInv ==
  /\ tty = <<>> \/ \E l \in Name \union Line : tty = <<l>>
  /\ buffered \in Seq(Symbol) /\ message \in Seq(Symbol)
  /\ buffered # <<>> => buffered = <<"nl">> \/ Len(origin) > limit

LetThrough(line) ==
  /\ line[1] = "/" /\ ClientAccepts(line) /\ ~IsPrefix(<<"/", "help">>, line)

RequestInv ==
  /\ phase = "username" => message = <<>>
  /\ phase = "login" => message # <<>>
  /\ phase \in {"username", "login"} => outcome = Nothing
  /\ phase \in {"command", "done"} /\ message # <<>> => LetThrough(message)
  /\ outcome # Nothing => message # <<>> /\ outcome = Request(message)

IndInv == TypeOK /\ WholeLines /\ BufferInv /\ RequestInv

-----------------------------------------------------------------------------
(***************************************************************************)
(* What fgets returns, and what it leaves.                                 *)
(***************************************************************************)
\* A line is a sequence of symbols that are not the end of a line.
LEMMA LineSymbols ==
  ASSUME NEW l \in Name \union Line
  PROVE  l \in Seq(Symbol) /\ \A i \in 1 .. Len(l) : l[i] # "nl"
PROOF
<1> DEFINE T == {l[i] : i \in DOMAIN l} \ {"nl"}
<1>1. l \in Seq(T)
  BY ClientInputAssumption
<1>2. T \subseteq Symbol
  BY DEF Symbol
<1>3. \A i \in 1 .. Len(l) : l[i] \in T
  BY <1>1, ElementOfSeq
<1> HIDE DEF T
<1>4. l \in Seq(Symbol)
  BY <1>1, <1>2, SeqMonotonic
<1> QED BY <1>3, <1>4 DEF T

\* The first n symbols of a sequence, and the others.
LEMMA Pieces ==
  ASSUME NEW S, NEW s \in Seq(S), NEW n \in Nat
  PROVE  /\ UpTo(s, n) \in Seq(S)
         /\ Len(UpTo(s, n)) = IF n < Len(s) THEN n ELSE Len(s)
         /\ \A i \in 1 .. Len(UpTo(s, n)) : UpTo(s, n)[i] = s[i]
         /\ From(s, n + 1) \in Seq(S)
         /\ Len(From(s, n + 1)) = IF n < Len(s) THEN Len(s) - n ELSE 0
         /\ \A i \in 1 .. Len(s) - n : From(s, n + 1)[i] = s[n + i]
PROOF
<1> DEFINE m == IF n < Len(s) THEN n ELSE Len(s)
<1>1. m \in Nat /\ m <= Len(s) /\ Len(s) \in Nat
  BY LenProperties
<1>2. \A i \in 1 .. m : s[i] \in S
  BY <1>1, ElementOfSeq
<1>3. /\ SubSeq(s, 1, m) \in Seq(S)
      /\ Len(SubSeq(s, 1, m)) = IF 1 <= m THEN m - 1 + 1 ELSE 0
      /\ \A i \in 1 .. m - 1 + 1 : SubSeq(s, 1, m)[i] = s[1 + i - 1]
  <2> HIDE DEF m
  <2> QED BY <1>1, <1>2, SubSeqProperties
<1>4. \A i \in n + 1 .. Len(s) : s[i] \in S
  BY <1>1, ElementOfSeq
<1>5. /\ SubSeq(s, n + 1, Len(s)) \in Seq(S)
      /\ Len(SubSeq(s, n + 1, Len(s)))
           = IF n + 1 <= Len(s) THEN Len(s) - (n + 1) + 1 ELSE 0
      /\ \A i \in 1 .. Len(s) - (n + 1) + 1 :
           SubSeq(s, n + 1, Len(s))[i] = s[n + 1 + i - 1]
  BY <1>1, <1>4, SubSeqProperties
<1>6. UpTo(s, n) = SubSeq(s, 1, m) /\ From(s, n + 1) = SubSeq(s, n + 1, Len(s))
  BY DEF UpTo, From
<1>7. /\ Len(SubSeq(s, 1, m)) = m
      /\ \A i \in 1 .. m : SubSeq(s, 1, m)[i] = s[i]
  <2> HIDE DEF m
  <2> QED BY <1>1, <1>3
<1>8. /\ Len(SubSeq(s, n + 1, Len(s))) = IF n < Len(s) THEN Len(s) - n ELSE 0
      /\ \A i \in 1 .. Len(s) - n : SubSeq(s, n + 1, Len(s))[i] = s[n + i]
  BY <1>1, <1>5
<1> QED BY <1>3, <1>5, <1>6, <1>7, <1>8

\* A sequence without a newline at its end.
Chomped(s) == IF s # <<>> /\ Last(s) = "nl" THEN Front(s) ELSE s

\* A piece without its newline is not longer.
LEMMA ChompedLength ==
  ASSUME NEW S, NEW s \in Seq(S)
  PROVE  Chomped(s) \in Seq(S) /\ Len(Chomped(s)) <= Len(s)
PROOF
<1>1. Front(s) = SubSeq(s, 1, Len(s) - 1)
  BY DEF Front
<1>2. \A i \in 1 .. Len(s) - 1 : s[i] \in S
  BY LenProperties, ElementOfSeq
<1>3. Front(s) \in Seq(S)
      /\ Len(Front(s)) = IF 1 <= Len(s) - 1 THEN Len(s) - 1 - 1 + 1 ELSE 0
  BY <1>1, <1>2, LenProperties, SubSeqProperties
<1> QED BY <1>3, LenProperties DEF Chomped

\* A line that fits is read whole; of one of the greatest length only the newline
\* is left, which is read as an empty line the next time.
LEMMA LineRead ==
  ASSUME NEW l \in Name \union Line, NEW n \in Nat \ {0}, Len(l) <= n
  PROVE  /\ Chomped(UpTo(Append(l, "nl"), n)) = l
         /\ From(Append(l, "nl"), n + 1) \in {<<>>, <<"nl">>}
PROOF
<1> DEFINE s == Append(l, "nl")
           u == UpTo(s, n)
           f == From(s, n + 1)
<1>0. "nl" \in Symbol
  BY Zenon DEF Symbol
<1>1. l \in Seq(Symbol) /\ "nl" \in Symbol /\ Len(l) \in Nat
  BY <1>0, LineSymbols, LenProperties
<1>2. /\ s \in Seq(Symbol) /\ Len(s) = Len(l) + 1
      /\ \A i \in 1 .. Len(l) : s[i] = l[i]
      /\ s[Len(l) + 1] = "nl"
  BY <1>1, AppendProperties
<1> HIDE DEF s
<1>3. /\ u \in Seq(Symbol) /\ Len(u) = IF n < Len(s) THEN n ELSE Len(s)
      /\ \A i \in 1 .. Len(u) : u[i] = s[i]
      /\ f \in Seq(Symbol) /\ Len(f) = IF n < Len(s) THEN Len(s) - n ELSE 0
      /\ \A i \in 1 .. Len(s) - n : f[i] = s[n + i]
  BY ZenonT(60), <1>2, Pieces
<1> HIDE DEF u, f
<1>4. CASE Len(l) < n
  <2>1. Len(u) = Len(l) + 1 /\ u[Len(u)] = "nl" /\ Len(f) = 0
    BY <1>1, <1>2, <1>3, <1>4
  <2>2. Chomped(u) = SubSeq(u, 1, Len(l))
    BY <1>1, <1>3, <2>1 DEF Chomped, Last, Front
  <2>3. /\ SubSeq(u, 1, Len(l)) \in Seq(Symbol)
        /\ Len(SubSeq(u, 1, Len(l))) = Len(l)
        /\ \A i \in 1 .. Len(l) : SubSeq(u, 1, Len(l))[i] = u[i]
    <3>1. \A i \in 1 .. Len(l) : u[i] \in Symbol
      BY <1>1, <1>3, <2>1, ElementOfSeq
    <3>2. /\ SubSeq(u, 1, Len(l)) \in Seq(Symbol)
          /\ Len(SubSeq(u, 1, Len(l))) = IF 1 <= Len(l) THEN Len(l) - 1 + 1 ELSE 0
          /\ \A i \in 1 .. Len(l) - 1 + 1 : SubSeq(u, 1, Len(l))[i] = u[1 + i - 1]
      BY <3>1, <1>1, SubSeqProperties
    <3> QED BY <3>2, <1>1
  <2>4. \A i \in 1 .. Len(l) : SubSeq(u, 1, Len(l))[i] = l[i]
    BY <2>1, <2>3, <1>1, <1>2, <1>3
  <2>5. SubSeq(u, 1, Len(l)) = l
    BY <2>3, <2>4, <1>1, SeqEqual
  <2>6. f = <<>>
    BY <2>1, <1>3, EmptySeq
  <2> QED BY <2>2, <2>5, <2>6 DEF u, f, s
<1>5. CASE Len(l) = n
  <2>1. Len(u) = n /\ Len(f) = 1 /\ f[1] = "nl"
    BY <1>1, <1>2, <1>3, <1>5
  <2>2. \A i \in 1 .. Len(u) : u[i] = l[i]
    BY <2>1, <1>2, <1>3, <1>5
  <2>3. u = l
    BY <2>1, <2>2, <1>1, <1>3, <1>5, SeqEqual
  <2>4. u[Len(u)] # "nl"
    BY <2>1, <2>3, <1>5, LineSymbols
  <2>5. Chomped(u) = u
    BY <2>4 DEF Chomped, Last
  <2>6. f = <<"nl">>
    BY <2>1, <1>3
  <2> QED BY <2>3, <2>5, <2>6 DEF u, f, s
<1> QED BY <1>4, <1>5, <1>1

\* A buffer that holds only a newline is emptied, and an empty line is read.
LEMMA NewlineRead ==
  ASSUME NEW n \in Nat \ {0}
  PROVE  Chomped(UpTo(<<"nl">>, n)) = <<>> /\ From(<<"nl">>, n + 1) = <<>>
PROOF
<1> DEFINE s == <<"nl">>
<1>0. s \in Seq({"nl"}) /\ Len(s) = 1
  OBVIOUS
<1>1. UpTo(s, n) = s
  <2> HIDE DEF s
  <2>1. /\ UpTo(s, n) \in Seq({"nl"}) /\ Len(UpTo(s, n)) = 1
        /\ \A i \in 1 .. Len(UpTo(s, n)) : UpTo(s, n)[i] = s[i]
    BY <1>0, Pieces
  <2> QED BY <1>0, <2>1, SeqEqual
<1>2. Chomped(<<"nl">>) = <<>>
  BY DEF Chomped, Last, Front
<1>3. From(<<"nl">>, n + 1) = <<>>
  BY <1>0, SubSeqEmpty DEF From
<1> QED BY <1>1, <1>2, <1>3

\* What fgets returns is a whole line, unless the line was longer than what it
\* could read when it met it; it leaves the buffer as BufferInv says.
LEMMA FgetsProperties ==
  ASSUME TypeOK, BufferInv, NEW size \in {NameSize, LineSize}, Fgets(size)
  PROVE  /\ Got(size) \in Seq(Symbol) /\ Len(Got(size)) <= size
         /\ Got(size) # <<>> => Got(size) = origin' \/ Len(origin') > limit'
         /\ tty' = <<>> \/ \E l \in Name \union Line : tty' = <<l>>
         /\ origin' \in Name \union Line \union {<<>>}
         /\ limit' \in {0, NameSize, LineSize}
         /\ buffered' \in Seq(Symbol)
         /\ buffered' # <<>> => buffered' = <<"nl">> \/ Len(origin') > limit'
         /\ UNCHANGED eof
PROOF
<1>1. size \in Nat \ {0}
  BY ClientInputAssumption
<1>2. /\ Got(size) = Chomped(UpTo(Source, size))
      /\ buffered' = From(Source, size + 1)
      /\ UNCHANGED eof
  BY DEF Got, Chomped, Fgets, Fits
<1>3. ASSUME Source \in Seq(Symbol)
      PROVE  /\ Got(size) \in Seq(Symbol) /\ Len(Got(size)) <= size
             /\ buffered' \in Seq(Symbol)
  <2>1. /\ UpTo(Source, size) \in Seq(Symbol) /\ Len(UpTo(Source, size)) <= size
        /\ From(Source, size + 1) \in Seq(Symbol)
    BY <1>1, <1>3, Pieces, LenProperties
  <2>2. /\ Got(size) \in Seq(Symbol)
        /\ Len(Got(size)) <= Len(UpTo(Source, size))
    BY <1>2, <2>1, ChompedLength
  <2>3. Len(Got(size)) \in Nat /\ Len(UpTo(Source, size)) \in Nat
    BY <2>1, <2>2, LenProperties
  <2> QED BY <1>1, <1>2, <2>1, <2>2, <2>3
<1>4. CASE buffered # <<>>
  <2>1. Source = buffered /\ UNCHANGED <<tty, origin, limit>>
    BY <1>4 DEF Source, Fgets
  <2>2. buffered = <<"nl">> \/ Len(origin) > limit
    BY <1>4 DEF BufferInv
  <2>3. buffered = <<"nl">> => Got(size) = <<>> /\ buffered' = <<>>
    BY <1>1, <1>2, <2>1, NewlineRead
  <2> QED BY <1>2, <1>3, <2>1, <2>2, <2>3 DEF BufferInv, TypeOK
<1>5. CASE buffered = <<>>
  <2>1. PICK l \in Name \union Line : tty = <<l>>
    BY <1>5 DEF Fgets, Available, BufferInv
  <2>2. Source = Append(l, "nl") /\ tty' = <<>> /\ origin' = l /\ limit' = size
    BY <1>5, <2>1 DEF Source, Fgets
  <2>3. l \in Seq(Symbol) /\ Len(l) \in Nat
    BY LineSymbols, LenProperties
  <2>4. "nl" \in Symbol
    BY Zenon DEF Symbol
  <2>5. Source \in Seq(Symbol)
    BY <2>2, <2>3, <2>4, AppendProperties
  <2>6. Len(l) <= size => Got(size) = l /\ buffered' \in {<<>>, <<"nl">>}
    BY <1>1, <1>2, <2>2, LineRead
  <2> QED BY <1>1, <1>2, <1>3, <2>2, <2>3, <2>5, <2>6
<1> QED BY <1>4, <1>5

-----------------------------------------------------------------------------
(***************************************************************************)
(* Every step keeps the invariant.                                         *)
(***************************************************************************)
\* The invariant holds at the start of both processes.
LEMMA InitIndInv == Init => IndInv
PROOF
<1> SUFFICES ASSUME Init PROVE IndInv
  OBVIOUS
<1>1. <<>> \in Seq(Symbol) /\ Len(<<>>) = 0
  OBVIOUS
<1>2. /\ Len(tty) <= 1 /\ \A i \in DOMAIN tty : tty[i] \in Name \union Line
      /\ Len(message) <= IF phase = "login" THEN NameSize ELSE LineSize
  BY <1>1, ClientInputAssumption DEF Init
<1>3. TypeOK
  BY <1>2 DEF Init, TypeOK, Nothing
<1>4. WholeLines /\ BufferInv /\ RequestInv
  BY <1>1 DEF Init, WholeLines, BufferInv, RequestInv, Nothing
<1> QED BY <1>3, <1>4 DEF IndInv

\* The terminal has at most one line.
LEMMA OneLine ==
  ASSUME NEW S, NEW t, t = <<>> \/ \E l \in S : t = <<l>>
  PROVE  Len(t) <= 1 /\ \A i \in DOMAIN t : t[i] \in S
PROOF
<1>1. CASE t = <<>>
  BY <1>1
<1>2. ASSUME NEW l \in S, t = <<l>>
      PROVE  Len(t) <= 1 /\ \A i \in DOMAIN t : t[i] \in S
  BY <1>2
<1> QED BY <1>1, <1>2

\* The steps of the user and the end of the connection leave the rest alone.
LEMMA OutsideKeeps ==
  ASSUME IndInv, Type \/ CloseInput \/ ServerGone \/ UNCHANGED vars
  PROVE  IndInv'
PROOF
<1>1. UNCHANGED <<buffered, phase, registered, message, outcome, origin, limit>>
  BY DEF Type, CloseInput, ServerGone, vars, input
<1>2. tty' = <<>> \/ \E l \in Name \union Line : tty' = <<l>>
  BY DEF IndInv, BufferInv, Type, CloseInput, ServerGone, vars, input
<1>3. eof' \in BOOLEAN /\ running' \in BOOLEAN
  BY DEF IndInv, TypeOK, Type, CloseInput, ServerGone, vars, input
<1>4. TypeOK' /\ WholeLines' /\ BufferInv'
  BY <1>1, <1>2, <1>3, OneLine DEF IndInv, TypeOK, WholeLines, BufferInv
<1>5. Request(message)' = Request(message) /\ LetThrough(message)' = LetThrough(message)
  BY <1>1 DEF Request, WhisperRequest, SendfileRequest, IsPeer, LetThrough
<1>6. RequestInv'
  BY <1>1, <1>5 DEF IndInv, RequestInv
<1> QED BY <1>4, <1>6 DEF IndInv

\* A username is read: the empty line is asked for again.
LEMMA ReadNameKeeps ==
  ASSUME IndInv, ReadName
  PROVE  IndInv'
PROOF
<1>1. /\ Fgets(NameSize) /\ message' = Got(NameSize)
      /\ phase' = IF message' = <<>> THEN "username" ELSE "login"
      /\ UNCHANGED <<running, registered, outcome>>
      /\ phase = "username" /\ outcome = Nothing
  BY DEF ReadName, IndInv, RequestInv
<1>2. /\ Got(NameSize) \in Seq(Symbol) /\ Len(Got(NameSize)) <= NameSize
      /\ Got(NameSize) # <<>> => Got(NameSize) = origin' \/ Len(origin') > limit'
      /\ tty' = <<>> \/ \E l \in Name \union Line : tty' = <<l>>
      /\ origin' \in Name \union Line \union {<<>>}
      /\ limit' \in {0, NameSize, LineSize}
      /\ buffered' \in Seq(Symbol)
      /\ buffered' # <<>> => buffered' = <<"nl">> \/ Len(origin') > limit'
      /\ UNCHANGED eof
  BY <1>1, FgetsProperties DEF IndInv
<1>3. TypeOK'
  <2>1. Len(message') <= IF phase' = "login" THEN NameSize ELSE LineSize
    BY <1>1, <1>2, ClientInputAssumption
  <2>2. Len(tty') <= 1 /\ \A i \in DOMAIN tty' : tty'[i] \in Name \union Line
    BY <1>2, OneLine
  <2> QED BY <1>1, <1>2, <2>1, <2>2 DEF IndInv, TypeOK
<1>4. WholeLines' /\ BufferInv'
  BY <1>1, <1>2 DEF WholeLines, BufferInv
<1>5. RequestInv'
  BY <1>1 DEF RequestInv
<1> QED BY <1>3, <1>4, <1>5 DEF IndInv

\* A command is read: it is sent only if validate_command lets it through.
LEMMA ReadCommandKeeps ==
  ASSUME IndInv, ReadCommand
  PROVE  IndInv'
PROOF
<1>1. /\ Fgets(LineSize) /\ message' \in {<<>>, Got(LineSize)}
      /\ message' # <<>> => LetThrough(message')
      /\ UNCHANGED <<phase, registered, outcome>>
      /\ phase = "command" /\ outcome = Nothing /\ running' \in BOOLEAN
  <2> USE DEF ReadCommand, IndInv, RequestInv, TypeOK
  <2>1. /\ Fgets(LineSize) /\ UNCHANGED <<phase, registered, outcome>>
        /\ phase = "command" /\ message = <<>> /\ outcome = Nothing
    OBVIOUS
  <2>2. CASE /\ Got(LineSize) # <<>> /\ Got(LineSize)[1] = "/"
             /\ ClientAccepts(Got(LineSize))
    BY <2>1, <2>2 DEF LetThrough
  <2>3. CASE ~(/\ Got(LineSize) # <<>> /\ Got(LineSize)[1] = "/"
               /\ ClientAccepts(Got(LineSize)))
    BY <2>1, <2>3
  <2> QED BY <2>2, <2>3
<1>2. /\ Got(LineSize) \in Seq(Symbol) /\ Len(Got(LineSize)) <= LineSize
      /\ Got(LineSize) # <<>> => Got(LineSize) = origin' \/ Len(origin') > limit'
      /\ tty' = <<>> \/ \E l \in Name \union Line : tty' = <<l>>
      /\ origin' \in Name \union Line \union {<<>>}
      /\ limit' \in {0, NameSize, LineSize}
      /\ buffered' \in Seq(Symbol)
      /\ buffered' # <<>> => buffered' = <<"nl">> \/ Len(origin') > limit'
      /\ UNCHANGED eof
  BY <1>1, FgetsProperties DEF IndInv
<1>3. message' \in Seq(Symbol) /\ Len(message') <= LineSize
  <2>1. CASE message' = <<>>
    <3>1. <<>> \in Seq(Symbol) /\ Len(<<>>) = 0
      OBVIOUS
    <3> QED BY <2>1, <3>1, ClientInputAssumption
  <2>2. CASE message' = Got(LineSize)
    BY <1>2, <2>2
  <2> QED BY <1>1, <2>1, <2>2
<1>4. TypeOK'
  <2>1. Len(tty') <= 1 /\ \A i \in DOMAIN tty' : tty'[i] \in Name \union Line
    BY <1>2, OneLine
  <2> QED BY <1>1, <1>2, <1>3, <2>1 DEF IndInv, TypeOK
<1>5. WholeLines' /\ BufferInv'
  BY <1>1, <1>2, <1>3 DEF WholeLines, BufferInv
<1>6. RequestInv'
  BY <1>1 DEF RequestInv, LetThrough
<1> QED BY <1>4, <1>5, <1>6 DEF IndInv

\* The input ends: a command that was sent may still be served.
LEMMA FinishKeeps ==
  ASSUME IndInv, NoName \/ LeaveInput
  PROVE  IndInv'
PROOF
<1>1. /\ phase \in {"username", "command"} /\ phase' = "done"
      /\ UNCHANGED <<input, running, registered, message, outcome>>
  BY DEF NoName, LeaveInput, Finish
<1>2. TypeOK' /\ WholeLines' /\ BufferInv'
  BY <1>1 DEF IndInv, TypeOK, WholeLines, BufferInv, input
<1>3. Request(message)' = Request(message) /\ LetThrough(message)' = LetThrough(message)
  BY <1>1 DEF Request, WhisperRequest, SendfileRequest, IsPeer, LetThrough
<1>4. RequestInv'
  BY <1>1, <1>3 DEF IndInv, RequestInv
<1> QED BY <1>2, <1>4 DEF IndInv

\* The server answers a username.
LEMMA ServeNameKeeps ==
  ASSUME IndInv, ServeName
  PROVE  IndInv'
PROOF
<1>1. /\ phase' \in {"username", "command"} /\ message' = <<>>
      /\ outcome = Nothing /\ UNCHANGED <<input, running, outcome>>
  BY DEF ServeName, IndInv, RequestInv
<1>2. TypeOK' /\ WholeLines' /\ BufferInv'
  BY <1>1, ClientInputAssumption DEF IndInv, TypeOK, WholeLines, BufferInv, input
<1>3. RequestInv'
  BY <1>1 DEF RequestInv
<1> QED BY <1>2, <1>3 DEF IndInv

\* The server takes a command apart.
LEMMA ServeCommandKeeps ==
  ASSUME IndInv, ServeCommand
  PROVE  IndInv'
PROOF
<1>1. /\ message # <<>> /\ outcome' = Request(message)
      /\ phase \in {"command", "done"}
      /\ UNCHANGED <<input, phase, running, registered, message>>
  BY DEF ServeCommand
<1>2. Request(message).cmd \in {"error", "join", "leave", "broadcast", "whisper",
                                "sendfile", "exit"}
  BY DEF Request, JoinRequest, BroadcastRequest, WhisperRequest, SendfileRequest,
         Accepted, Refused
<1>3. TypeOK' /\ WholeLines' /\ BufferInv'
  BY <1>1, <1>2 DEF IndInv, TypeOK, WholeLines, BufferInv, input
<1>4. Request(message)' = Request(message) /\ LetThrough(message)' = LetThrough(message)
  BY <1>1 DEF Request, WhisperRequest, SendfileRequest, IsPeer, LetThrough
<1>5. RequestInv'
  BY <1>1, <1>4 DEF IndInv, RequestInv
<1> QED BY <1>3, <1>5 DEF IndInv

\* The command has been carried out.
LEMMA ServedKeeps ==
  ASSUME IndInv, Served
  PROVE  IndInv'
PROOF
<1>1. /\ message # <<>> /\ message' = <<>> /\ outcome # Nothing /\ outcome' = Nothing
      /\ UNCHANGED <<input, phase, running, registered>>
  BY DEF Served
<1>2. TypeOK' /\ WholeLines' /\ BufferInv'
  BY <1>1, ClientInputAssumption
     DEF IndInv, TypeOK, WholeLines, BufferInv, input, Nothing
<1>3. RequestInv'
  BY <1>1 DEF IndInv, RequestInv
<1> QED BY <1>2, <1>3 DEF IndInv

\* Every step of the system keeps the invariant.
LEMMA NextIndInv == IndInv /\ [Next]_vars => IndInv'
PROOF
<1> SUFFICES ASSUME IndInv, [Next]_vars PROVE IndInv'
  OBVIOUS
<1>1. CASE Type \/ CloseInput \/ ServerGone \/ UNCHANGED vars
  BY <1>1, OutsideKeeps
<1>2. CASE ClientStep
  BY <1>2, ReadNameKeeps, ReadCommandKeeps, FinishKeeps DEF ClientStep
<1>3. CASE ServerStep
  BY <1>3, ServeNameKeeps, ServeCommandKeeps, ServedKeeps DEF ServerStep
<1> QED BY <1>1, <1>2, <1>3 DEF Next

\* ClientInput's inductive invariant: what the buffer of stdin holds, and that
\* what the server works on is a command the client has let through.
THEOREM InputInvariance == Spec => []IndInv
PROOF
<1> QED BY InitIndInv, NextIndInv, PTL DEF Spec

\* Every variable keeps its type, and what is sent fits the client's buffers.
THEOREM InputTypeCorrect == Spec => []TypeOK
PROOF
<1>1. IndInv => TypeOK
  BY DEF IndInv
<1> QED BY <1>1, InputInvariance, PTL

\* A message is a whole line, unless the line was longer than the buffer it was
\* first read into (client_helper.c:209, 300).
THEOREM WholeLinesCorrect == Spec => []WholeLines
PROOF
<1>1. IndInv => WholeLines
  BY DEF IndInv
<1> QED BY <1>1, InputInvariance, PTL

\* The name that is registered is the one the user typed, or a part of a line
\* that was too long for a name; it is valid in any case.
THEOREM NameCorrect == Spec => NameAsTyped
PROOF
<1> DEFINE Registers ==
      registered' # registered =>
        /\ Len(registered') \in 1 .. NameSize /\ AllAlnum(registered')
        /\ registered' = TrimEnd(origin, Blank) \/ Len(origin) > limit
<1>1. ASSUME IndInv, [Next]_vars PROVE Registers
  <2>1. CASE ServeName
    <3>1. message # <<>> /\ (message = origin \/ Len(origin) > limit)
      BY <1>1, <2>1 DEF ServeName, IndInv, RequestInv, WholeLines
    <3>2. registered' # registered =>
            /\ registered' = TrimEnd(message, Blank) /\ ValidName(registered')
      BY <2>1 DEF ServeName
    <3> QED BY <3>1, <3>2 DEF ValidName
  <2>2. CASE ~ServeName
    <3>1. registered' = registered
      BY <1>1, <2>2 DEF Next, ClientStep, ServerStep, Type, CloseInput, ServerGone,
           ReadName, NoName, ReadCommand, LeaveInput, Finish, ServeCommand, Served,
           vars
    <3> QED BY <3>1
  <2> QED BY <2>1, <2>2
<1>2. IndInv /\ [Next]_vars => [Registers]_vars
  BY <1>1
<1> QED BY <1>2, InputInvariance, PTL DEF Spec, NameAsTyped

-----------------------------------------------------------------------------
(***************************************************************************)
(* Words, in order: where they start and where they end.                   *)
(***************************************************************************)
InWord(s) == {i \in DOMAIN s : s[i] \notin Blank}
Starts(s) == {i \in InWord(s) : i = 1 \/ i - 1 \notin InWord(s)}
End(s, i) == Greatest({j \in InWord(s) : i .. j \subseteq InWord(s)})
Word(s, i) == SubSeq(s, i, End(s, i))

\* The starts of the words of s, from the first to the last of n.
ListStarts(f, n, s) ==
  /\ f \in [1 .. n -> Nat]
  /\ \A k, l \in 1 .. n : k < l => f[k] < f[l]
  /\ Starts(s) = {f[k] : k \in 1 .. n}

\* A set of positions in order: every member has a rank, and every rank from 1 to
\* their number is some member's.
LEMMA RankProperties ==
  ASSUME NEW T, T \subseteq Nat, IsFiniteSet(T)
  PROVE  LET rank == [i \in T |-> Cardinality({j \in T : j <= i})]
         IN  /\ \A i, j \in T : i < j => rank[i] < rank[j]
             /\ \A k \in 1 .. Cardinality(T) : \E i \in T : rank[i] = k
             /\ Cardinality(T) \in Nat
PROOF
<1> DEFINE up(i) == {j \in T : j <= i}
           N == Cardinality(T)
           rank == [i \in T |-> Cardinality(up(i))]
<1>1. N \in Nat
  BY FS_CardinalityType
<1>2. \A i \in T : IsFiniteSet(up(i)) /\ Cardinality(up(i)) \in 1 .. N
  <2> TAKE i \in T
  <2>1. up(i) \in SUBSET T /\ i \in up(i)
    OBVIOUS
  <2>2. IsFiniteSet(up(i)) /\ Cardinality(up(i)) <= N
    BY <2>1, FS_Subset
  <2>3. Cardinality(up(i)) # 0
    BY <2>1, <2>2, FS_EmptySet
  <2>4. Cardinality(up(i)) \in Nat
    BY <2>2, FS_CardinalityType
  <2> QED BY <1>1, <2>2, <2>3, <2>4
<1>3. ASSUME NEW i \in T, NEW j \in T, i < j
      PROVE  Cardinality(up(i)) < Cardinality(up(j))
  <2>0. i \in Nat /\ j \in Nat /\ \A l \in T : l \in Nat
    OBVIOUS
  <2>1. up(i) \in SUBSET up(j) /\ j \in up(j) /\ j \notin up(i)
    <3>1. ASSUME NEW l \in up(i) PROVE l \in up(j)
      <4>1. l \in Nat /\ l <= i
        BY <2>0
      <4> QED BY <1>3, <2>0, <4>1
    <3>2. j \in up(j) /\ j \notin up(i)
      BY <1>3, <2>0
    <3>3. up(i) \subseteq up(j)
      BY <3>1, Zenon
    <3> QED BY <3>2, <3>3, Zenon
  <2>2. /\ Cardinality(up(i)) <= Cardinality(up(j))
        /\ Cardinality(up(j)) = Cardinality(up(i)) => up(j) = up(i)
    BY <2>1, <1>2, FS_Subset
  <2>3. Cardinality(up(i)) # Cardinality(up(j))
    BY <2>1, <2>2
  <2> QED BY <2>2, <2>3, <1>2
<1>4. \A i \in T : rank[i] = Cardinality(up(i)) /\ Cardinality(up(i)) \in Nat
  BY <1>2
<1>5. rank \in [T -> 1 .. N]
  BY <1>2
<1> HIDE DEF rank, up
<1>6. \A i, j \in T : rank[i] = rank[j] => i = j
  <2> SUFFICES ASSUME NEW i \in T, NEW j \in T, rank[i] = rank[j], i # j PROVE FALSE
    OBVIOUS
  <2>1. i < j \/ j < i
    <3>1. i \in Nat /\ j \in Nat
      OBVIOUS
    <3> QED BY <3>1
  <2>2. rank[i] \in Nat /\ rank[j] \in Nat
    BY <1>5
  <2> QED BY <1>3, <1>4, <2>1, <2>2
<1>7. rank \in Injection(T, 1 .. N)
  BY <1>5, <1>6, Fun_IsInj
<1>8. IsFiniteSet(1 .. N) /\ Cardinality(1 .. N) = N
  BY <1>1, FS_Interval
<1>9. rank \in Surjection(T, 1 .. N)
  BY <1>7, <1>8, FS_Injection
<1>10. \A k \in 1 .. N : \E i \in T : rank[i] = k
  BY <1>9, Fun_SurjectionProperties
<1>11. \A i, j \in T : i < j => rank[i] < rank[j]
  BY <1>3, <1>4
<1> QED BY <1>1, <1>10, <1>11 DEF rank, up

\* The starts of the words can be listed.
LEMMA StartsListed ==
  ASSUME NEW S, NEW s \in Seq(S)
  PROVE  \E n \in Nat : \E f : ListStarts(f, n, s)
PROOF
<1> DEFINE T == Starts(s)
           n == Cardinality(T)
           rank == [i \in T |-> Cardinality({j \in T : j <= i})]
<1>1. T \in SUBSET Nat /\ \A i \in T : i <= Len(s)
  BY LenProperties DEF Starts, InWord
<1>2. IsFiniteSet(T)
  BY <1>1, LenProperties, FS_BoundedSetOfNaturals
<1> HIDE DEF T
<1>3. /\ \A i, j \in T : i < j => rank[i] < rank[j]
      /\ \A k \in 1 .. n : \E i \in T : rank[i] = k
      /\ n \in Nat
  BY <1>1, <1>2, RankProperties
<1>4. \A i \in T : rank[i] \in Nat
  <2> TAKE i \in T
  <2>1. IsFiniteSet({j \in T : j <= i})
    BY <1>2, FS_Subset
  <2> QED BY <2>1, FS_CardinalityType
<1>5. \A i \in T : rank[i] \in 1 .. n
  <2> TAKE i \in T
  <2> DEFINE U == {j \in T : j <= i}
  <2>1. U \in SUBSET T /\ i \in U
    BY <1>1
  <2>2. IsFiniteSet(U) /\ Cardinality(U) <= n
    BY <1>2, <2>1, FS_Subset
  <2>3. Cardinality(U) # 0
    BY <2>1, <2>2, FS_EmptySet
  <2>4. rank[i] = Cardinality(U)
    OBVIOUS
  <2> QED BY <1>3, <1>4, <2>2, <2>3, <2>4
<1> DEFINE f == [k \in 1 .. n |-> CHOOSE i \in T : rank[i] = k]
<1> HIDE DEF rank, n
<1>6. \A k \in 1 .. n : f[k] \in T /\ rank[f[k]] = k
  BY <1>3
<1>7. f \in [1 .. n -> Nat]
  BY <1>1, <1>6
<1> HIDE DEF f
<1>8. ASSUME NEW k \in 1 .. n, NEW l \in 1 .. n, k < l
      PROVE  f[k] < f[l]
  <2> SUFFICES ASSUME ~(f[k] < f[l]) PROVE FALSE
    OBVIOUS
  <2>1. f[k] \in T /\ f[l] \in T /\ f[k] \in Nat /\ f[l] \in Nat
    BY <1>1, <1>6
  <2>2. f[l] < f[k] \/ f[l] = f[k]
    BY <2>1
  <2>3. l < k \/ l = k
    BY <1>3, <1>6, <2>1, <2>2
  <2> QED BY <2>3, <1>8, <1>3
<1>9. T \subseteq {f[k] : k \in 1 .. n}
  <2> SUFFICES ASSUME NEW i \in T PROVE i \in {f[k] : k \in 1 .. n}
    OBVIOUS
  <2>1. rank[i] \in 1 .. n /\ rank[f[rank[i]]] = rank[i] /\ f[rank[i]] \in T
    BY <1>5, <1>6
  <2>2. f[rank[i]] = i
    <3> DEFINE j == f[rank[i]]
    <3>1. j \in Nat /\ i \in Nat /\ j \in T
      BY <1>1, <2>1
    <3> HIDE DEF j
    <3>2. rank[j] = rank[i] /\ rank[i] \in Nat
      BY <1>4, <2>1 DEF j
    <3>3. ~(i < j) /\ ~(j < i)
      BY <1>3, <3>1, <3>2
    <3>4. j = i
      BY <3>1, <3>3
    <3> QED BY <3>4 DEF j
  <2> QED BY <2>1, <2>2
<1>10. {f[k] : k \in 1 .. n} \subseteq T
  BY <1>6
<1>11. ListStarts(f, n, s)
  BY <1>7, <1>8, <1>9, <1>10 DEF ListStarts, T
<1> QED BY <1>3, <1>11

\* A list of the starts says what the words are.
LEMMA WordsListed ==
  ASSUME NEW s, NEW n \in Nat, NEW f, ListStarts(f, n, s)
  PROVE  Words(s) = [k \in 1 .. n |-> Word(s, f[k])]
PROOF
<1> DEFINE T == Starts(s)
           upTo(i) == {j \in T : j <= i}
           nth(k) == CHOOSE i \in T : Cardinality(upTo(i)) = k
<1>1. /\ f \in [1 .. n -> Nat] /\ T = {f[k] : k \in 1 .. n}
      /\ \A k, l \in 1 .. n : k < l => f[k] < f[l]
  BY DEF ListStarts
<1>2. Words(s) = [k \in 1 .. Cardinality(T) |-> Word(s, nth(k))]
  BY DEF Words, Starts, End, InWord, Word
<1> HIDE DEF T
<1>3. ASSUME NEW m \in 0 .. n
      PROVE  Cardinality({f[k] : k \in 1 .. m}) = m
  <2> DEFINE U == {f[k] : k \in 1 .. m}
             g == [k \in 1 .. m |-> f[k]]
  <2>1. g \in [1 .. m -> U]
    OBVIOUS
  <2>2. \A a, b \in 1 .. m : g[a] = g[b] => a = b
    <3> SUFFICES ASSUME NEW a \in 1 .. m, NEW b \in 1 .. m, g[a] = g[b], a # b
                 PROVE  FALSE
      OBVIOUS
    <3>1. a < b \/ b < a
      OBVIOUS
    <3>2. a \in 1 .. n /\ b \in 1 .. n /\ f[a] = f[b]
      OBVIOUS
    <3>3. f[a] \in Nat /\ f[b] \in Nat
      BY <3>2, <1>1
    <3> QED BY <3>1, <3>2, <3>3, <1>1
  <2>3. \A t \in U : \E k \in 1 .. m : g[k] = t
    OBVIOUS
  <2>4. g \in Bijection(1 .. m, U)
    BY <2>1, <2>2, <2>3, Fun_IsBij
  <2> HIDE DEF g, U
  <2>5. ExistsBijection(1 .. m, U)
    BY <2>4, Zenon DEF ExistsBijection
  <2>6. Cardinality(U) = m
    BY <2>5, FS_CountingElements
  <2> QED BY <2>6 DEF U
<1>4. Cardinality(T) = n
  BY <1>1, <1>3
<1>5. ASSUME NEW k \in 1 .. n
      PROVE  Cardinality(upTo(f[k])) = k
  <2>1. \A l \in 1 .. n : f[l] <= f[k] <=> l <= k
    <3> TAKE l \in 1 .. n
    <3>1. f[l] \in Nat /\ f[k] \in Nat
      BY <1>1
    <3>2. CASE l < k
      BY <3>1, <3>2, <1>1
    <3>3. CASE k < l
      BY <3>1, <3>3, <1>1
    <3>4. CASE k = l
      BY <3>1, <3>4
    <3> QED BY <3>2, <3>3, <3>4
  <2>2. upTo(f[k]) \subseteq {f[l] : l \in 1 .. k}
    BY <2>1, <1>1
  <2>3. {f[l] : l \in 1 .. k} \subseteq upTo(f[k])
    BY <2>1, <1>1
  <2>4. upTo(f[k]) = {f[l] : l \in 1 .. k} /\ k \in 0 .. n
    BY <2>2, <2>3
  <2> QED BY <2>4, <1>3
<1>6. ASSUME NEW k \in 1 .. n
      PROVE  nth(k) = f[k]
  <2>1. f[k] \in T /\ Cardinality(upTo(f[k])) = k
    BY <1>1, <1>5
  <2>2. ASSUME NEW i \in T, Cardinality(upTo(i)) = k
        PROVE  i = f[k]
    <3>1. PICK l \in 1 .. n : i = f[l]
      BY <1>1
    <3> QED BY <3>1, <2>2, <1>5
  <2> HIDE DEF upTo
  <2> QED BY <2>1, <2>2
<1> HIDE DEF nth
<1> QED BY <1>2, <1>4, <1>6

\* A word goes as far as there is no blank.
LEMMA EndIs ==
  ASSUME NEW S, NEW s \in Seq(S), NEW i \in InWord(s), NEW e \in Nat, i <= e,
         i .. e \subseteq InWord(s), e + 1 \notin InWord(s)
  PROVE  End(s, i) = e
PROOF
<1> DEFINE E == {j \in InWord(s) : i .. j \subseteq InWord(s)}
<1>1. InWord(s) \subseteq Nat
  BY LenProperties DEF InWord
<1>2. e \in E
  BY <1>1
<1>3. ASSUME NEW j \in E PROVE j <= e
  <2> SUFFICES ASSUME j > e PROVE FALSE
    BY <1>1
  <2>1. e + 1 \in i .. j
    BY <1>1
  <2> QED BY <2>1
<1>4. E \subseteq Nat
  BY <1>1
<1> HIDE DEF E
<1>5. ASSUME NEW x \in E, \A y \in E : x >= y PROVE x = e
  BY <1>2, <1>3, <1>4, <1>5
<1>6. \A y \in E : e >= y
  BY <1>3, <1>4
<1>7. Greatest(E) = e
  BY <1>2, <1>5, <1>6 DEF Greatest
<1> QED BY <1>7 DEF End, E

\* Every word has an end.
LEMMA EndProperties ==
  ASSUME NEW S, NEW s \in Seq(S), NEW i \in InWord(s)
  PROVE  /\ End(s, i) \in i .. Len(s) /\ i \in 1 .. Len(s)
         /\ i .. End(s, i) \subseteq InWord(s)
         /\ End(s, i) + 1 \notin InWord(s)
PROOF
<1>1. Len(s) \in Nat /\ i \in 1 .. Len(s) /\ InWord(s) \subseteq 1 .. Len(s)
  BY LenProperties DEF InWord
<1> DEFINE K == {j \in Nat : j > i /\ j \notin InWord(s)}
<1>2. Len(s) + 1 \in K
  BY <1>1
<1>3. K \subseteq Nat /\ K # {}
  BY <1>2
<1>4. Min(K) \in K /\ \A k \in K : Min(K) <= k
  BY <1>3, MinOfPositions
<1> DEFINE e == Min(K) - 1
<1>5. e \in Nat /\ i <= e /\ e <= Len(s) /\ e + 1 \notin InWord(s)
  BY <1>1, <1>2, <1>4
<1>6. i .. e \subseteq InWord(s)
  <2> SUFFICES ASSUME NEW j \in i .. e, j \notin InWord(s) PROVE FALSE
    OBVIOUS
  <2>1. j \in Nat /\ j > i /\ j < Min(K)
    BY <1>1, <1>4, <1>5
  <2>2. j \in K
    BY <2>1
  <2> QED BY <2>1, <2>2, <1>4
<1> HIDE DEF K
<1>7. End(s, i) = e
  BY <1>5, <1>6, EndIs
<1> QED BY <1>1, <1>5, <1>6, <1>7

-----------------------------------------------------------------------------
(***************************************************************************)
(* The words of a sequence in terms of those of its parts.                 *)
(***************************************************************************)
NoBlank(s)  == \A i \in DOMAIN s : s[i] \notin Blank
AllBlank(s) == \A i \in DOMAIN s : s[i] \in Blank

\* Two sequences that agree on an interval have the same part there.
LEMMA SameSubSeq ==
  ASSUME NEW S, NEW s \in Seq(S), NEW t \in Seq(S), NEW d \in Nat,
         NEW p \in 1 .. Len(s), NEW q \in p .. Len(s), d + q <= Len(t),
         \A i \in p .. q : t[d + i] = s[i]
  PROVE  SubSeq(t, d + p, d + q) = SubSeq(s, p, q)
PROOF
<1>1. Len(s) \in Nat /\ Len(t) \in Nat
  BY LenProperties
<1>2. \A i \in p .. q : s[i] \in S
  BY <1>1, ElementOfSeq
<1>3. /\ SubSeq(s, p, q) \in Seq(S) /\ Len(SubSeq(s, p, q)) = q - p + 1
      /\ \A i \in 1 .. q - p + 1 : SubSeq(s, p, q)[i] = s[p + i - 1]
  BY <1>1, <1>2, SubSeqProperties
<1>4. \A i \in d + p .. d + q : t[i] \in S
  BY <1>1, ElementOfSeq
<1>5. /\ SubSeq(t, d + p, d + q) \in Seq(S)
      /\ Len(SubSeq(t, d + p, d + q))
           = IF d + p <= d + q THEN (d + q) - (d + p) + 1 ELSE 0
      /\ \A i \in 1 .. (d + q) - (d + p) + 1 :
           SubSeq(t, d + p, d + q)[i] = t[d + p + i - 1]
  BY <1>1, <1>4, SubSeqProperties
<1>6. ASSUME NEW i \in 1 .. q - p + 1
      PROVE  SubSeq(t, d + p, d + q)[i] = SubSeq(s, p, q)[i]
  <2>1. /\ SubSeq(s, p, q)[i] = s[p + i - 1] /\ p + i - 1 \in p .. q
        /\ SubSeq(t, d + p, d + q)[i] = t[d + (p + i - 1)]
    BY <1>1, <1>3, <1>5
  <2> QED BY <2>1
<1>7. Len(SubSeq(t, d + p, d + q)) = Len(SubSeq(s, p, q))
  BY <1>1, <1>3, <1>5
<1> QED BY <1>3, <1>5, <1>6, <1>7, SeqEqual

\* Blanks have no words.
LEMMA WordsOfBlanks ==
  ASSUME NEW S, NEW s \in Seq(S), AllBlank(s)
  PROVE  Words(s) = <<>>
PROOF
<1>1. Starts(s) = {}
  BY DEF AllBlank, Starts, InWord
<1> DEFINE f == [k \in 1 .. 0 |-> 0]
<1>2. ListStarts(f, 0, s)
  BY <1>1 DEF ListStarts
<1>3. Words(s) = [k \in 1 .. 0 |-> Word(s, f[k])]
  BY <1>2, WordsListed
<1> QED BY <1>3

\* A sequence without a blank is one word.
LEMMA WordsOfOne ==
  ASSUME NEW S, NEW s \in Seq(S), s # <<>>, NoBlank(s)
  PROVE  Words(s) = <<s>>
PROOF
<1>1. Len(s) \in Nat \ {0} /\ DOMAIN s = 1 .. Len(s)
  BY EmptySeq, LenProperties
<1>2. InWord(s) = 1 .. Len(s)
  BY <1>1 DEF NoBlank, InWord
<1>3. Starts(s) = {1}
  BY <1>1, <1>2 DEF Starts
<1> DEFINE f == [k \in 1 .. 1 |-> 1]
<1>4. ListStarts(f, 1, s)
  BY <1>3 DEF ListStarts
<1>5. Words(s) = [k \in 1 .. 1 |-> Word(s, f[k])]
  BY <1>4, WordsListed
<1>6. End(s, 1) = Len(s)
  BY <1>1, <1>2, EndIs
<1>7. SubSeq(s, 1, Len(s)) = s
  <2>1. \A i \in 1 .. Len(s) : s[i] \in S
    BY ElementOfSeq
  <2>2. /\ SubSeq(s, 1, Len(s)) \in Seq(S) /\ Len(SubSeq(s, 1, Len(s))) = Len(s)
        /\ \A i \in 1 .. Len(s) : SubSeq(s, 1, Len(s))[i] = s[i]
    BY <1>1, <2>1, SubSeqProperties
  <2> QED BY <2>2, SeqEqual
<1>8. Words(s) = [k \in 1 .. 1 |-> s]
  BY <1>5, <1>6, <1>7 DEF Word
<1> QED BY <1>8

\* The words are sequences of the same symbols.
LEMMA WordsType ==
  ASSUME NEW S, NEW s \in Seq(S)
  PROVE  Words(s) \in Seq(Seq(S))
PROOF
<1> PICK n \in Nat : \E f : ListStarts(f, n, s)
  BY StartsListed
<1> PICK f : ListStarts(f, n, s)
  OBVIOUS
<1>1. Words(s) = [k \in 1 .. n |-> Word(s, f[k])]
  BY WordsListed
<1>2. ASSUME NEW k \in 1 .. n
      PROVE  Word(s, f[k]) \in Seq(S)
  <2>1. f[k] \in InWord(s)
    BY DEF ListStarts, Starts
  <2>2. End(s, f[k]) \in f[k] .. Len(s) /\ f[k] \in 1 .. Len(s)
    BY <2>1, EndProperties
  <2>3. \A i \in f[k] .. End(s, f[k]) : s[i] \in S
    BY <2>2, LenProperties, ElementOfSeq
  <2> QED BY <2>2, <2>3, LenProperties, SubSeqProperties DEF Word
<1>3. Words(s) \in [1 .. n -> Seq(S)]
  BY <1>1, <1>2
<1> QED BY <1>3, SeqDef

\* The sequence s is a, then a blank at m, then c.
Split(S, s, a, m, c) ==
  /\ s \in Seq(S) /\ a \in Seq(S) /\ c \in Seq(S)
  /\ m = Len(a) + 1 /\ Len(s) = m + Len(c)
  /\ \A i \in 1 .. Len(a) : s[i] = a[i]
  /\ s[m] \in Blank
  /\ \A i \in 1 .. Len(c) : s[m + i] = c[i]

\* Where the words of a sequence that has been split start, and what they are.
LEMMA SplitProperties ==
  ASSUME NEW S, NEW s, NEW a, NEW m, NEW c, Split(S, s, a, m, c)
  PROVE  /\ m \notin InWord(s) /\ InWord(s) \subseteq 1 .. m + Len(c)
         /\ \A i \in 1 .. Len(a) : i \in Starts(s) <=> i \in Starts(a)
         /\ \A i \in 1 .. Len(c) : m + i \in Starts(s) <=> i \in Starts(c)
         /\ \A i \in InWord(a) :
              /\ i \in 1 .. Len(a)
              /\ Word(s, i) = Word(a, i)
         /\ \A i \in InWord(c) :
              /\ i \in 1 .. Len(c)
              /\ Word(s, m + i) = Word(c, i)
PROOF
<1>1. /\ s \in Seq(S) /\ a \in Seq(S) /\ c \in Seq(S) /\ Len(s) = m + Len(c)
      /\ \A i \in 1 .. Len(a) : s[i] = a[i]
      /\ s[m] \in Blank
      /\ \A i \in 1 .. Len(c) : s[m + i] = c[i]
  BY DEF Split
<1>2. Len(a) \in Nat /\ Len(c) \in Nat /\ m = Len(a) + 1 /\ m \in Nat
  BY LenProperties DEF Split
<1>0. /\ DOMAIN a = 1 .. Len(a) /\ DOMAIN c = 1 .. Len(c)
      /\ DOMAIN s = 1 .. m + Len(c)
  BY <1>1, LenProperties
<1>3. /\ \A i \in 1 .. Len(a) : i \in InWord(s) <=> i \in InWord(a)
      /\ m \notin InWord(s)
      /\ \A i \in 1 .. Len(c) : m + i \in InWord(s) <=> i \in InWord(c)
  BY <1>0, <1>1, <1>2 DEF InWord
<1>4. /\ InWord(s) \subseteq 1 .. m + Len(c) /\ InWord(a) \subseteq 1 .. Len(a)
      /\ InWord(c) \subseteq 1 .. Len(c)
  BY <1>0 DEF InWord
<1>5. \A i \in 1 .. Len(a) : i \in Starts(s) <=> i \in Starts(a)
  <2> TAKE i \in 1 .. Len(a)
  <2>1. i = 1 \/ i - 1 \in 1 .. Len(a)
    BY <1>2
  <2> QED BY <2>1, <1>3 DEF Starts
<1>6. ASSUME NEW i \in 1 .. Len(c)
      PROVE  m + i \in Starts(s) <=> i \in Starts(c)
  <2>1. m + i # 1
    BY <1>2
  <2>3. m + i \in InWord(s) <=> i \in InWord(c)
    BY <1>3
  <2>2. (m + i) - 1 \in InWord(s) <=> i # 1 /\ i - 1 \in InWord(c)
    <3>1. CASE i = 1
      <4>1. (m + i) - 1 = m
        BY <1>2, <3>1
      <4> QED BY <1>3, <3>1, <4>1
    <3>2. CASE i # 1
      <4>1. i - 1 \in 1 .. Len(c) /\ (m + i) - 1 = m + (i - 1)
        BY <1>2, <3>2
      <4>2. m + (i - 1) \in InWord(s) <=> i - 1 \in InWord(c)
        BY <1>3, <4>1
      <4> QED BY <3>2, <4>1, <4>2
    <3> QED BY <3>1, <3>2
  <2>4. m + i \in Starts(s)
          <=> m + i \in InWord(s) /\ (m + i = 1 \/ (m + i) - 1 \notin InWord(s))
    BY Zenon DEF Starts
  <2>5. i \in Starts(c) <=> i \in InWord(c) /\ (i = 1 \/ i - 1 \notin InWord(c))
    BY Zenon DEF Starts
  <2> QED BY <2>1, <2>2, <2>3, <2>4, <2>5, Zenon
<1>7. ASSUME NEW i \in InWord(a)
      PROVE  /\ i \in 1 .. Len(a)
             /\ Word(s, i) = Word(a, i)
  <2> DEFINE e == End(a, i)
  <2>1. e \in i .. Len(a) /\ i \in 1 .. Len(a)
    BY <1>1, EndProperties
  <2>2. i .. e \subseteq InWord(a) /\ e + 1 \notin InWord(a)
    BY <1>1, EndProperties
  <2> HIDE DEF e
  <2>3. i \in Nat /\ e \in Nat /\ i <= e /\ e <= Len(a)
    BY <1>2, <2>1
  <2>4. i .. e \subseteq InWord(s)
    <3> SUFFICES ASSUME NEW j \in i .. e PROVE j \in InWord(s)
      OBVIOUS
    <3>1. j \in InWord(a) /\ j \in 1 .. Len(a)
      BY <1>4, <2>2
    <3> QED BY <1>3, <3>1
  <2>5. e + 1 \notin InWord(s)
    <3>1. e + 1 \in 1 .. Len(a) \/ e + 1 = m
      BY <1>2, <2>3
    <3> QED BY <1>3, <2>2, <3>1
  <2>6. i \in InWord(s)
    BY <1>3, <2>1
  <2>7. End(s, i) = e
    BY <1>1, <2>3, <2>4, <2>5, <2>6, EndIs
  <2>8. SubSeq(s, 0 + i, 0 + e) = SubSeq(a, i, e)
    <3>1. \A j \in i .. e : s[0 + j] = a[j]
      <4> TAKE j \in i .. e
      <4>1. j \in 1 .. Len(a) /\ 0 + j = j
        BY <1>2, <2>3, <2>1
      <4> QED BY <1>1, <4>1
    <3>2. 0 + e <= Len(s)
      BY <1>1, <1>2, <2>3
    <3> QED BY <1>1, <2>1, <3>1, <3>2, SameSubSeq
  <2>9. 0 + i = i /\ 0 + e = e
    BY <2>3
  <2> QED BY <2>1, <2>7, <2>8, <2>9 DEF e, Word
<1>8. ASSUME NEW i \in InWord(c)
      PROVE  /\ i \in 1 .. Len(c)
             /\ Word(s, m + i) = Word(c, i)
  <2> DEFINE e == End(c, i)
  <2>1. e \in i .. Len(c) /\ i \in 1 .. Len(c)
    BY <1>1, EndProperties
  <2>2. i .. e \subseteq InWord(c) /\ e + 1 \notin InWord(c)
    BY <1>1, EndProperties
  <2> HIDE DEF e
  <2>3. /\ i \in Nat /\ e \in Nat /\ i <= e /\ e <= Len(c)
        /\ m + e \in Nat /\ m + i <= m + e
    BY <1>2, <2>1
  <2>4. m + i .. m + e \subseteq InWord(s)
    <3> SUFFICES ASSUME NEW j \in m + i .. m + e PROVE j \in InWord(s)
      OBVIOUS
    <3>1. j - m \in i .. e /\ j = m + (j - m)
      BY <1>2, <2>3
    <3>2. j - m \in InWord(c) /\ j - m \in 1 .. Len(c)
      BY <1>4, <2>2, <3>1
    <3> QED BY <1>3, <3>1, <3>2
  <2>5. m + e + 1 \notin InWord(s)
    <3>1. /\ m + e + 1 = m + (e + 1)
          /\ e + 1 \in 1 .. Len(c) \/ m + e + 1 \notin 1 .. m + Len(c)
      BY <1>2, <2>3
    <3> QED BY <1>3, <1>4, <2>2, <3>1
  <2>6. m + i \in InWord(s)
    BY <1>3, <2>1
  <2>7. End(s, m + i) = m + e
    BY <1>1, <2>3, <2>4, <2>5, <2>6, EndIs
  <2>8. SubSeq(s, m + i, m + e) = SubSeq(c, i, e)
    <3>1. \A j \in i .. e : s[m + j] = c[j]
      BY <1>1, <1>2, <2>3, <2>1
    <3>2. m + e <= Len(s)
      BY <1>1, <1>2, <2>3
    <3> QED BY ZenonT(60), <1>1, <1>2, <2>1, <3>1, <3>2, SameSubSeq
  <2> QED BY <2>1, <2>7, <2>8 DEF e, Word
<1> QED BY <1>3, <1>4, <1>5, <1>6, <1>7, <1>8

\* A blank separates: no word crosses it.
LEMMA WordsOfSplit ==
  ASSUME NEW S, NEW s, NEW a, NEW m, NEW c, Split(S, s, a, m, c)
  PROVE  Words(s) = Words(a) \o Words(c)
PROOF
<1>1. s \in Seq(S) /\ a \in Seq(S) /\ c \in Seq(S)
  BY DEF Split
<1>2. Len(a) \in Nat /\ Len(c) \in Nat /\ m = Len(a) + 1 /\ m \in Nat
  BY LenProperties DEF Split
<1>3. m \notin InWord(s) /\ InWord(s) \subseteq 1 .. m + Len(c)
  BY SplitProperties
<1>5. \A i \in 1 .. Len(a) : i \in Starts(s) <=> i \in Starts(a)
  BY SplitProperties
<1>6. \A i \in 1 .. Len(c) : m + i \in Starts(s) <=> i \in Starts(c)
  BY SplitProperties
<1>7. ASSUME NEW i \in InWord(a)
      PROVE  i \in 1 .. Len(a) /\ Word(s, i) = Word(a, i)
  BY SplitProperties
<1>8. ASSUME NEW i \in InWord(c)
      PROVE  i \in 1 .. Len(c) /\ Word(s, m + i) = Word(c, i)
  BY SplitProperties
<1> PICK na \in Nat : \E fa : ListStarts(fa, na, a)
  BY <1>1, StartsListed
<1> PICK fa : ListStarts(fa, na, a)
  OBVIOUS
<1> PICK nc \in Nat : \E fc : ListStarts(fc, nc, c)
  BY <1>1, StartsListed
<1> PICK fc : ListStarts(fc, nc, c)
  OBVIOUS
<1> DEFINE n == na + nc
           f == [k \in 1 .. n |-> IF k <= na THEN fa[k] ELSE m + fc[k - na]]
<1>9. /\ \A k \in 1 .. na : /\ f[k] = fa[k] /\ fa[k] \in Starts(a)
                            /\ fa[k] \in InWord(a) /\ fa[k] \in 1 .. Len(a)
      /\ \A k, l \in 1 .. na : k < l => fa[k] < fa[l]
  <2>1. ASSUME NEW k \in 1 .. na PROVE f[k] = fa[k]
    <3>1. k \in 1 .. n /\ k <= na
      OBVIOUS
    <3> QED BY <3>1
  <2>2. ASSUME NEW k \in 1 .. na
        PROVE  fa[k] \in Starts(a) /\ fa[k] \in InWord(a) /\ fa[k] \in 1 .. Len(a)
    <3>1. fa[k] \in Starts(a)
      BY DEF ListStarts
    <3>2. fa[k] \in InWord(a)
      BY <3>1 DEF Starts
    <3> QED BY <1>7, <3>1, <3>2
  <2> QED BY <2>1, <2>2 DEF ListStarts
<1>10. /\ \A k \in 1 .. nc : /\ f[na + k] = m + fc[k] /\ fc[k] \in Starts(c)
                             /\ fc[k] \in InWord(c) /\ fc[k] \in 1 .. Len(c)
       /\ \A k, l \in 1 .. nc : k < l => fc[k] < fc[l]
  <2>1. ASSUME NEW k \in 1 .. nc PROVE f[na + k] = m + fc[k]
    <3>1. na + k \in 1 .. n /\ ~(na + k <= na) /\ na + k - na = k
      OBVIOUS
    <3> QED BY <3>1
  <2>2. ASSUME NEW k \in 1 .. nc
        PROVE  fc[k] \in Starts(c) /\ fc[k] \in InWord(c) /\ fc[k] \in 1 .. Len(c)
    <3>1. fc[k] \in Starts(c)
      BY DEF ListStarts
    <3>2. fc[k] \in InWord(c)
      BY <3>1 DEF Starts
    <3> QED BY <1>8, <3>1, <3>2
  <2> QED BY <2>1, <2>2 DEF ListStarts
<1>11. \A k \in 1 .. n : k \in 1 .. na \/ (k - na \in 1 .. nc /\ k = na + (k - na))
  OBVIOUS
<1>12. n \in Nat
  OBVIOUS
<1> HIDE DEF n
<1>13. f \in [1 .. n -> Nat]
  <2> SUFFICES ASSUME NEW k \in 1 .. n PROVE f[k] \in Nat
    OBVIOUS
  <2> HIDE DEF f
  <2>1. CASE k \in 1 .. na
    <3>1. f[k] = fa[k] /\ fa[k] \in 1 .. Len(a)
      BY <1>9, <2>1
    <3> QED BY <1>2, <3>1
  <2>2. CASE k - na \in 1 .. nc /\ k = na + (k - na)
    <3>1. f[k] = m + fc[k - na] /\ fc[k - na] \in 1 .. Len(c)
      BY <1>10, <2>2
    <3> QED BY <1>2, <3>1
  <2> QED BY <1>11, <2>1, <2>2
<1> HIDE DEF f
<1>14. ASSUME NEW k \in 1 .. n, NEW l \in 1 .. n, k < l
       PROVE  f[k] < f[l]
  <2>1. CASE l \in 1 .. na
    <3>1. k \in 1 .. na
      BY <1>14, <2>1
    <3> QED BY <1>9, <1>14, <2>1, <3>1
  <2>2. CASE k \in 1 .. na /\ (l - na \in 1 .. nc /\ l = na + (l - na))
    <3>1. f[k] \in 1 .. Len(a) /\ f[l] = m + fc[l - na] /\ fc[l - na] \in 1 .. Len(c)
      BY <1>9, <1>10, <2>2
    <3> QED BY <1>2, <3>1
  <2>3. CASE (k - na \in 1 .. nc /\ k = na + (k - na))
              /\ (l - na \in 1 .. nc /\ l = na + (l - na))
    <3>1. k - na < l - na
      BY <1>14
    <3>2. /\ f[k] = m + fc[k - na] /\ f[l] = m + fc[l - na]
          /\ fc[k - na] < fc[l - na]
          /\ fc[k - na] \in Nat /\ fc[l - na] \in Nat
      BY <1>2, <1>10, <2>3, <3>1
    <3> QED BY <1>2, <3>2
  <2> QED BY <1>11, <2>1, <2>2, <2>3
<1>15. Starts(s) \subseteq {f[k] : k \in 1 .. n}
  <2> SUFFICES ASSUME NEW i \in Starts(s) PROVE \E k \in 1 .. n : i = f[k]
    OBVIOUS
  <2>1. i \in InWord(s) /\ i \in 1 .. m + Len(c) /\ i # m
    BY <1>3 DEF Starts
  <2>2. CASE i \in 1 .. Len(a)
    <3>1. i \in Starts(a)
      BY <1>5, <2>2
    <3>2. PICK k \in 1 .. na : i = fa[k]
      BY <3>1 DEF ListStarts
    <3>3. k \in 1 .. n /\ i = f[k]
      BY <1>9, <3>2 DEF n
    <3> QED BY <3>3
  <2>3. CASE i - m \in 1 .. Len(c) /\ i = m + (i - m)
    <3>1. i - m \in Starts(c)
      BY <1>6, <2>3
    <3>2. PICK k \in 1 .. nc : i - m = fc[k]
      BY <3>1 DEF ListStarts
    <3>3. na + k \in 1 .. n /\ i = f[na + k]
      BY <1>10, <2>3, <3>2 DEF n
    <3> QED BY <3>3
  <2>4. i \in 1 .. Len(a) \/ (i - m \in 1 .. Len(c) /\ i = m + (i - m))
    BY <1>2, <2>1
  <2> QED BY <2>2, <2>3, <2>4
<1>16. {f[k] : k \in 1 .. n} \subseteq Starts(s)
  <2> SUFFICES ASSUME NEW k \in 1 .. n PROVE f[k] \in Starts(s)
    OBVIOUS
  <2>1. CASE k \in 1 .. na
    BY <1>5, <1>9, <2>1
  <2>2. CASE k - na \in 1 .. nc /\ k = na + (k - na)
    BY <1>6, <1>10, <2>2
  <2> QED BY <1>11, <2>1, <2>2
<1>17. ListStarts(f, n, s)
  BY <1>13, <1>14, <1>15, <1>16 DEF ListStarts
<1>18. Words(s) = [k \in 1 .. n |-> Word(s, f[k])]
  BY <1>12, <1>17, WordsListed
<1>19. /\ Words(a) = [k \in 1 .. na |-> Word(a, fa[k])]
       /\ Words(c) = [k \in 1 .. nc |-> Word(c, fc[k])]
  BY WordsListed
<1>20. /\ Words(a) \in Seq(Seq(S)) /\ Len(Words(a)) = na
       /\ Words(c) \in Seq(Seq(S)) /\ Len(Words(c)) = nc
       /\ Words(s) \in Seq(Seq(S)) /\ Len(Words(s)) = n
  <2>1. /\ Words(a) \in Seq(Seq(S)) /\ Words(c) \in Seq(Seq(S))
        /\ Words(s) \in Seq(Seq(S))
    BY <1>1, WordsType
  <2>2. DOMAIN Words(a) = 1 .. na
    BY <1>19
  <2>3. DOMAIN Words(c) = 1 .. nc
    BY <1>19
  <2>4. DOMAIN Words(s) = 1 .. n
    BY <1>18
  <2>5. \A w \in Seq(Seq(S)), j \in Nat : DOMAIN w = 1 .. j => Len(w) = j
    OBVIOUS
  <2> QED BY <1>12, <2>1, <2>2, <2>3, <2>4, <2>5
<1>21. \A k \in 1 .. na : Words(s)[k] = Words(a)[k]
  <2> TAKE k \in 1 .. na
  <2>1. k \in 1 .. n /\ f[k] = fa[k] /\ fa[k] \in InWord(a)
    BY <1>9 DEF n
  <2>2. Words(s)[k] = Word(s, fa[k])
    BY <1>18, <2>1
  <2>3. Words(a)[k] = Word(a, fa[k])
    BY <1>19
  <2> QED BY <1>7, <2>1, <2>2, <2>3
<1>22. \A k \in 1 .. nc : Words(s)[na + k] = Words(c)[k]
  <2> TAKE k \in 1 .. nc
  <2>1. na + k \in 1 .. n /\ f[na + k] = m + fc[k] /\ fc[k] \in InWord(c)
    BY <1>10 DEF n
  <2>2. Words(s)[na + k] = Word(s, m + fc[k])
    BY <1>18, <2>1
  <2>3. Words(c)[k] = Word(c, fc[k])
    BY <1>19
  <2> QED BY <1>8, <2>1, <2>2, <2>3
<1> DEFINE w == Words(a) \o Words(c)
<1>23. /\ w \in Seq(Seq(S)) /\ Len(w) = n
       /\ \A k \in 1 .. n : w[k] = IF k <= na THEN Words(a)[k] ELSE Words(c)[k - na]
  BY <1>20, ConcatProperties DEF n
<1> HIDE DEF w
<1>24. \A k \in 1 .. n : Words(s)[k] = w[k]
  <2> TAKE k \in 1 .. n
  <2>1. CASE k \in 1 .. na
    BY <1>21, <1>23, <2>1
  <2>2. CASE k - na \in 1 .. nc /\ k = na + (k - na)
    <3>1. ~(k <= na)
      BY <2>2
    <3> QED BY <1>22, <1>23, <2>2, <3>1
  <2> QED BY <1>11, <2>1, <2>2
<1>25. Words(s) = w
  BY <1>20, <1>23, <1>24, SeqEqual
<1> QED BY <1>25 DEF w

\* A sequence may be cut at a blank.
LEMMA WordsOfCut ==
  ASSUME NEW S, NEW s \in Seq(S), NEW m \in 1 .. Len(s), s[m] \in Blank
  PROVE  Words(s) = Words(UpTo(s, m - 1)) \o Words(From(s, m + 1))
PROOF
<1> DEFINE a == UpTo(s, m - 1)
           c == From(s, m + 1)
<1>1. Len(s) \in Nat /\ m \in Nat /\ m - 1 \in Nat
  BY LenProperties
<1>2. /\ a \in Seq(S) /\ Len(a) = m - 1
      /\ \A i \in 1 .. Len(a) : a[i] = s[i]
  <2>1. /\ a \in Seq(S)
        /\ Len(a) = IF m - 1 < Len(s) THEN m - 1 ELSE Len(s)
        /\ \A i \in 1 .. Len(a) : a[i] = s[i]
    BY <1>1, Pieces
  <2> QED BY <1>1, <2>1
<1>3. /\ c \in Seq(S) /\ Len(c) = Len(s) - m
      /\ \A i \in 1 .. Len(s) - m : c[i] = s[m + i]
  <2>1. /\ c \in Seq(S)
        /\ Len(c) = IF m < Len(s) THEN Len(s) - m ELSE 0
        /\ \A i \in 1 .. Len(s) - m : c[i] = s[m + i]
    BY <1>1, Pieces
  <2> QED BY <1>1, <2>1
<1> HIDE DEF a, c
<1>4. Split(S, s, a, m, c)
  BY <1>1, <1>2, <1>3 DEF Split
<1>5. Words(s) = Words(a) \o Words(c)
  BY <1>4, WordsOfSplit
<1> QED BY <1>5 DEF a, c

\* Blanks at the beginning make no difference to the words.
LEMMA BlanksBefore ==
  ASSUME NEW S, NEW s \in Seq(S), NEW n \in 0 .. Len(s),
         \A i \in 1 .. n : s[i] \in Blank
  PROVE  Words(s) = Words(From(s, n + 1))
PROOF
<1>1. Len(s) \in Nat
  BY LenProperties
<1>2. CASE n = 0
  <2>1. From(s, n + 1) = s
    BY <1>2, SubSeqFull DEF From
  <2> QED BY <2>1
<1>3. CASE n # 0
  <2> DEFINE a == UpTo(s, n - 1)
  <2>1. n \in 1 .. Len(s) /\ n - 1 \in Nat
    BY <1>1, <1>3
  <2>2. a \in Seq(S) /\ Len(a) = n - 1 /\ \A i \in 1 .. Len(a) : a[i] = s[i]
    <3>1. /\ a \in Seq(S)
          /\ Len(a) = IF n - 1 < Len(s) THEN n - 1 ELSE Len(s)
          /\ \A i \in 1 .. Len(a) : a[i] = s[i]
      BY <2>1, Pieces
    <3> QED BY <1>1, <2>1, <3>1
  <2>3. AllBlank(a)
    BY <1>1, <2>1, <2>2, LenProperties DEF AllBlank
  <2>4. Words(a) = <<>>
    BY <2>2, <2>3, WordsOfBlanks
  <2>5. Words(s) = Words(a) \o Words(From(s, n + 1))
    BY <2>1, WordsOfCut
  <2>6. Words(From(s, n + 1)) \in Seq(Seq(S))
    <3>1. n \in Nat
      OBVIOUS
    <3>2. From(s, n + 1) \in Seq(S)
      BY <3>1, Pieces
    <3> QED BY <3>2, WordsType
  <2> QED BY <2>4, <2>5, <2>6, ConcatEmptySeq
<1> QED BY <1>2, <1>3

\* Nor do blanks at the end.
LEMMA BlanksAfter ==
  ASSUME NEW S, NEW s \in Seq(S), NEW n \in 0 .. Len(s),
         \A i \in n + 1 .. Len(s) : s[i] \in Blank
  PROVE  Words(s) = Words(UpTo(s, n))
PROOF
<1>1. Len(s) \in Nat
  BY LenProperties
<1>2. CASE n = Len(s)
  <2>1. UpTo(s, n) = s
    BY <1>1, <1>2, SubSeqFull DEF UpTo
  <2> QED BY <2>1
<1>3. CASE n < Len(s)
  <2> DEFINE m == n + 1
             c == From(s, m + 1)
  <2>1. m \in 1 .. Len(s) /\ m \in Nat /\ m - 1 = n
    BY <1>1, <1>3
  <2>2. s[m] \in Blank
    BY <2>1
  <2> HIDE DEF m
  <2>3. /\ c \in Seq(S) /\ Len(c) = Len(s) - m
        /\ \A i \in 1 .. Len(s) - m : c[i] = s[m + i]
    <3>1. /\ c \in Seq(S)
          /\ Len(c) = IF m < Len(s) THEN Len(s) - m ELSE 0
          /\ \A i \in 1 .. Len(s) - m : c[i] = s[m + i]
      BY <2>1, Pieces
    <3> QED BY <1>1, <2>1, <3>1
  <2>4. AllBlank(c)
    <3>1. DOMAIN c = 1 .. Len(s) - m
      BY <2>3, LenProperties
    <3> SUFFICES ASSUME NEW i \in 1 .. Len(s) - m PROVE c[i] \in Blank
      BY <3>1 DEF AllBlank
    <3>2. m + i \in n + 1 .. Len(s)
      BY <1>1, <2>1
    <3> QED BY <2>3, <3>2
  <2>5. Words(c) = <<>>
    BY <2>3, <2>4, WordsOfBlanks
  <2>6. Words(s) = Words(UpTo(s, m - 1)) \o Words(c)
    BY <2>1, <2>2, WordsOfCut
  <2>7. Words(UpTo(s, m - 1)) \in Seq(Seq(S))
    BY <2>1, Pieces, WordsType
  <2>8. Words(s) = Words(UpTo(s, m - 1))
    BY <2>5, <2>6, <2>7, ConcatEmptySeq
  <2> QED BY <2>1, <2>8
<1> QED BY <1>1, <1>2, <1>3

\* Where the first blank is, or the end.
LEMMA FirstBlank ==
  ASSUME NEW S, NEW s \in Seq(S)
  PROVE  \E n \in 0 .. Len(s) : /\ \A i \in 1 .. n : s[i] \notin Blank
                                /\ n < Len(s) => s[n + 1] \in Blank
PROOF
<1>1. Len(s) \in Nat
  BY LenProperties
<1> DEFINE K == {k \in 1 .. Len(s) + 1 : k = Len(s) + 1 \/ s[k] \in Blank}
           n == Min(K) - 1
<1>2. K \subseteq Nat /\ Len(s) + 1 \in K
  BY <1>1
<1>3. Min(K) \in K /\ \A k \in K : Min(K) <= k
  BY <1>2, MinOfPositions
<1>4. n \in 0 .. Len(s) /\ n + 1 = Min(K)
  BY <1>1, <1>3
<1>5. \A i \in 1 .. n : s[i] \notin Blank
  <2> SUFFICES ASSUME NEW i \in 1 .. n, s[i] \in Blank PROVE FALSE
    OBVIOUS
  <2>1. i \in K /\ i < Min(K)
    BY <1>1, <1>4
  <2> QED BY <1>2, <1>3, <2>1
<1>6. n < Len(s) => s[n + 1] \in Blank
  <2> SUFFICES ASSUME n < Len(s) PROVE s[Min(K)] \in Blank
    BY <1>4
  <2>1. Min(K) # Len(s) + 1
    BY <1>1, <1>4
  <2> QED BY <1>3, <2>1
<1> QED BY <1>4, <1>5, <1>6

\* What stands before the first blank is the first word.
LEMMA FirstWord ==
  ASSUME NEW S, NEW s \in Seq(S), NEW n \in 1 .. Len(s),
         \A i \in 1 .. n : s[i] \notin Blank, n < Len(s) => s[n + 1] \in Blank
  PROVE  Words(s) = <<UpTo(s, n)>> \o Words(From(s, (n + 1) + 1))
PROOF
<1> DEFINE a == UpTo(s, n)
           c == From(s, (n + 1) + 1)
<1>1. Len(s) \in Nat /\ n \in Nat /\ n + 1 \in Nat
  BY LenProperties
<1>2. a \in Seq(S) /\ Len(a) = n /\ \A i \in 1 .. Len(a) : a[i] = s[i]
  <2>1. /\ a \in Seq(S)
        /\ Len(a) = IF n < Len(s) THEN n ELSE Len(s)
        /\ \A i \in 1 .. Len(a) : a[i] = s[i]
    BY <1>1, Pieces
  <2> QED BY <1>1, <2>1
<1>3. a # <<>> /\ NoBlank(a)
  BY <1>1, <1>2, LenProperties, EmptySeq DEF NoBlank
<1>4. Words(a) = <<a>>
  BY <1>2, <1>3, WordsOfOne
<1>5. c \in Seq(S) /\ (n = Len(s) => Len(c) = 0)
  <2>1. c \in Seq(S) /\ Len(c) = IF n + 1 < Len(s) THEN Len(s) - (n + 1) ELSE 0
    BY ZenonT(60), <1>1, Pieces
  <2> QED BY <1>1, <2>1
<1>6. CASE n = Len(s)
  <2>1. a = s
    BY <1>1, <1>6, SubSeqFull DEF UpTo
  <2>2. c = <<>> /\ AllBlank(c)
    BY <1>5, <1>6, EmptySeq DEF AllBlank
  <2>3. Words(c) = <<>>
    BY <1>5, <2>2, WordsOfBlanks
  <2>4. <<a>> \in Seq(Seq(S))
    BY <1>2
  <2> QED BY <1>4, <2>1, <2>3, <2>4, ConcatEmptySeq
<1>7. CASE n < Len(s)
  <2> DEFINE m == n + 1
  <2>1. m \in 1 .. Len(s) /\ m - 1 = n
    BY <1>1, <1>7
  <2>2. s[m] \in Blank
    BY <1>7
  <2> HIDE DEF m
  <2>3. Words(s) = Words(UpTo(s, m - 1)) \o Words(From(s, m + 1))
    BY <2>1, <2>2, WordsOfCut
  <2> QED BY <1>4, <2>1, <2>3 DEF m
<1> QED BY <1>1, <1>6, <1>7

\* A sequence that begins with a word has one.
LEMMA WordsOfNonBlank ==
  ASSUME NEW S, NEW s \in Seq(S), s # <<>>, s[1] \notin Blank
  PROVE  \E n \in 1 .. Len(s) :
           /\ \A i \in 1 .. n : s[i] \notin Blank
           /\ n < Len(s) => s[n + 1] \in Blank
           /\ Words(s) = <<UpTo(s, n)>> \o Words(From(s, (n + 1) + 1))
           /\ Words(From(s, (n + 1) + 1)) \in Seq(Seq(S))
PROOF
<1>1. Len(s) \in Nat \ {0}
  BY EmptySeq
<1> PICK n \in 0 .. Len(s) : /\ \A i \in 1 .. n : s[i] \notin Blank
                             /\ n < Len(s) => s[n + 1] \in Blank
  BY FirstBlank
<1>2. n # 0
  BY <1>1
<1>3. n \in 1 .. Len(s) /\ n + 1 \in Nat
  BY <1>1, <1>2
<1>4. Words(s) = <<UpTo(s, n)>> \o Words(From(s, (n + 1) + 1))
  BY <1>3, FirstWord
<1>5. Words(From(s, (n + 1) + 1)) \in Seq(Seq(S))
  BY <1>3, Pieces, WordsType
<1> QED BY <1>3, <1>4, <1>5

\* The least of some positions.
LEMMA LeastIs ==
  ASSUME NEW K, K \subseteq Nat, NEW k \in K, \A x \in K : k <= x
  PROVE  Least(K) = k
PROOF
<1>1. ASSUME NEW x \in K, \A y \in K : x <= y PROVE x = k
  <2>1. x <= k /\ k <= x /\ x \in Nat /\ k \in Nat
    BY <1>1
  <2> QED BY <2>1
<1> QED BY <1>1 DEF Least

\* The greatest of some positions.
LEMMA GreatestIs ==
  ASSUME NEW K, K \subseteq Nat, NEW k \in K, \A x \in K : k >= x
  PROVE  Greatest(K) = k
PROOF
<1>1. ASSUME NEW x \in K, \A y \in K : x >= y PROVE x = k
  <2>1. x <= k /\ k <= x /\ x \in Nat /\ k \in Nat
    BY <1>1
  <2> QED BY <2>1
<1> QED BY <1>1 DEF Greatest

\* Where the first element with a property is, or the end.
LEMMA FirstAmong ==
  ASSUME NEW L \in Nat, NEW K, K \subseteq 1 .. L
  PROVE  \E n \in 0 .. L : /\ \A i \in 1 .. n : i \notin K
                           /\ n < L => n + 1 \in K /\ Least(K) = n + 1
                           /\ n = L <=> K = {}
PROOF
<1>1. CASE K = {}
  BY <1>1
<1>2. CASE K # {}
  <2> DEFINE n == Min(K) - 1
  <2>1. K \subseteq Nat
    OBVIOUS
  <2>2. Min(K) \in K /\ \A k \in K : Min(K) <= k
    BY <1>2, <2>1, MinOfPositions
  <2>3. Least(K) = Min(K)
    BY <2>1, <2>2, LeastIs
  <2>4. n \in 0 .. L /\ n < L /\ n + 1 = Min(K)
    <3>1. Min(K) \in 1 .. L
      BY <2>2
    <3> QED BY <3>1
  <2>5. \A i \in 1 .. n : i \notin K
    <3> SUFFICES ASSUME NEW i \in 1 .. n, i \in K PROVE FALSE
      OBVIOUS
    <3>1. i < Min(K) /\ i \in Nat /\ Min(K) \in Nat
      BY <2>4
    <3>2. Min(K) <= i
      BY <2>2
    <3> QED BY <3>1, <3>2
  <2> QED BY <1>2, <2>2, <2>3, <2>4, <2>5
<1> QED BY <1>1, <1>2

\* Skipping blanks leaves what follows them.
LEMMA SkipBlanksIs ==
  ASSUME NEW S, NEW s \in Seq(S)
  PROVE  \E n \in 0 .. Len(s) : /\ SkipBlanks(s) = From(s, n + 1)
                                /\ \A i \in 1 .. n : s[i] \in Blank
                                /\ n < Len(s) => s[n + 1] \notin Blank
PROOF
<1> DEFINE K == {i \in DOMAIN s : s[i] \notin Blank}
<1>1. Len(s) \in Nat /\ DOMAIN s = 1 .. Len(s) /\ K \subseteq 1 .. Len(s)
  BY LenProperties
<1>2. \A i \in 1 .. Len(s) : i \in K <=> s[i] \notin Blank
  BY <1>1
<1>3. SkipBlanks(s) = IF K = {} THEN <<>> ELSE From(s, Least(K))
  BY DEF SkipBlanks
<1> HIDE DEF K
<1> PICK n \in 0 .. Len(s) : /\ \A i \in 1 .. n : i \notin K
                             /\ n < Len(s) => n + 1 \in K /\ Least(K) = n + 1
                             /\ n = Len(s) <=> K = {}
  BY <1>1, FirstAmong
<1>0. (n = Len(s) \/ n < Len(s)) /\ \A i \in 1 .. n : i \in 1 .. Len(s)
  <2>1. Len(s) \in Nat
    BY <1>1
  <2> QED BY <2>1
<1>4. ASSUME NEW i \in 1 .. n PROVE s[i] \in Blank
  <2>1. i \in 1 .. Len(s)
    BY <1>0
  <2>2. i \notin K
    OBVIOUS
  <2> QED BY <1>2, <2>1, <2>2
<1>5. n < Len(s) => s[n + 1] \notin Blank
  BY <1>1, <1>2
<1>6. SkipBlanks(s) = From(s, n + 1)
  <2>1. CASE n = Len(s)
    <3>1. From(s, n + 1) \in Seq(S) /\ Len(From(s, n + 1)) = 0
      BY <1>1, <2>1, Pieces
    <3> QED BY <1>3, <2>1, <3>1, EmptySeq
  <2>2. CASE n < Len(s)
    <3>1. K # {} /\ Least(K) = n + 1
      BY <1>1, <2>2
    <3>2. SkipBlanks(s) = From(s, Least(K))
      BY <1>3, <3>1, Zenon
    <3> QED BY <3>1, <3>2, Zenon
  <2> QED BY <1>0, <2>1, <2>2
<1> QED BY <1>4, <1>5, <1>6

\* Skipping blanks keeps the words.
LEMMA SkipBlanksWords ==
  ASSUME NEW S, NEW s \in Seq(S)
  PROVE  /\ SkipBlanks(s) \in Seq(S)
         /\ Words(SkipBlanks(s)) = Words(s)
         /\ SkipBlanks(s) # <<>> => SkipBlanks(s)[1] \notin Blank
PROOF
<1> PICK n \in 0 .. Len(s) : /\ SkipBlanks(s) = From(s, n + 1)
                             /\ \A i \in 1 .. n : s[i] \in Blank
                             /\ n < Len(s) => s[n + 1] \notin Blank
  BY SkipBlanksIs
<1>1. n \in Nat /\ Len(s) \in Nat
  BY LenProperties
<1>2. /\ From(s, n + 1) \in Seq(S)
      /\ Len(From(s, n + 1)) = IF n < Len(s) THEN Len(s) - n ELSE 0
      /\ \A i \in 1 .. Len(s) - n : From(s, n + 1)[i] = s[n + i]
  BY <1>1, Pieces
<1>3. Words(s) = Words(From(s, n + 1))
  BY BlanksBefore
<1>4. ASSUME From(s, n + 1) # <<>> PROVE From(s, n + 1)[1] \notin Blank
  <2>1. n < Len(s) /\ 1 \in 1 .. Len(s) - n
    BY <1>1, <1>2, <1>4, EmptySeq
  <2> QED BY <1>2, <2>1
<1> QED BY <1>2, <1>3, <1>4

\* Trimming blanks at the end leaves what is before them, and at least one symbol.
LEMMA TrimEndIs ==
  ASSUME NEW S, NEW s \in Seq(S), s # <<>>, NEW B
  PROVE  \E n \in 1 .. Len(s) : /\ TrimEnd(s, B) = UpTo(s, n)
                                /\ \A i \in n + 1 .. Len(s) : s[i] \in B
                                /\ n = 1 \/ s[n] \notin B
PROOF
<1> DEFINE K == {1} \union {i \in DOMAIN s : s[i] \notin B}
           L == Len(s)
           D == {L - k : k \in K}
<1>1. L \in Nat \ {0} /\ DOMAIN s = 1 .. L
  BY LenProperties, EmptySeq
<1>2. K \subseteq 1 .. L /\ 1 \in K /\ \A i \in 1 .. L : i \in K <=> i = 1 \/ s[i] \notin B
  BY <1>1
<1>3. TrimEnd(s, B) = SubSeq(s, 1, Greatest(K))
  BY DEF TrimEnd
<1> HIDE DEF K
<1>4. D \subseteq Nat /\ L - 1 \in D
  BY <1>1, <1>2
<1>5. Min(D) \in D /\ \A d \in D : Min(D) <= d
  BY <1>4, MinOfPositions
<1> PICK n \in K : L - n = Min(D)
  BY <1>5
<1>6. n \in 1 .. L /\ K \subseteq Nat
  BY <1>1, <1>2
<1>7. \A k \in K : n >= k
  <2> TAKE k \in K
  <2>1. k \in 1 .. L /\ L - k \in D
    BY <1>2
  <2>2. L - n <= L - k
    BY <1>5, <2>1
  <2> QED BY <1>1, <1>6, <2>1, <2>2
<1>8. Greatest(K) = n
  BY <1>6, <1>7, GreatestIs
<1>9. UpTo(s, n) = SubSeq(s, 1, n)
  BY <1>1, <1>6 DEF UpTo
<1>10. \A i \in n + 1 .. L : s[i] \in B
  <2> SUFFICES ASSUME NEW i \in n + 1 .. L, s[i] \notin B PROVE FALSE
    OBVIOUS
  <2>1. i \in 1 .. L /\ i > n
    BY <1>1, <1>6
  <2>2. i \in K
    BY <1>2, <2>1
  <2> QED BY <1>6, <1>7, <2>1, <2>2
<1> QED BY <1>2, <1>3, <1>6, <1>8, <1>9, <1>10

\* Trimming blanks keeps the words.
LEMMA TrimEndWords ==
  ASSUME NEW S, NEW s \in Seq(S), NEW B, B \subseteq Blank
  PROVE  /\ TrimEnd(s, B) \in Seq(S)
         /\ Words(TrimEnd(s, B)) = Words(s)
         /\ TrimEnd(s, B) = <<>> <=> s = <<>>
PROOF
<1>1. CASE s = <<>>
  BY <1>1 DEF TrimEnd
<1>2. CASE s # <<>>
  <2> PICK n \in 1 .. Len(s) : /\ TrimEnd(s, B) = UpTo(s, n)
                               /\ \A i \in n + 1 .. Len(s) : s[i] \in B
    BY <1>2, TrimEndIs
  <2>1. n \in Nat \ {0} /\ n \in 0 .. Len(s) /\ Len(s) \in Nat
    BY LenProperties
  <2>2. UpTo(s, n) \in Seq(S) /\ Len(UpTo(s, n)) = n
    <3>1. UpTo(s, n) \in Seq(S) /\ Len(UpTo(s, n)) = IF n < Len(s) THEN n ELSE Len(s)
      BY <2>1, Pieces
    <3> QED BY <2>1, <3>1
  <2>3. Words(s) = Words(UpTo(s, n))
    <3>1. \A i \in n + 1 .. Len(s) : s[i] \in Blank
      OBVIOUS
    <3> QED BY <2>1, <3>1, BlanksAfter
  <2>4. UpTo(s, n) # <<>>
    BY <2>1, <2>2, EmptySeq
  <2> QED BY <1>2, <2>2, <2>3, <2>4
<1> QED BY <1>1, <1>2

-----------------------------------------------------------------------------
(***************************************************************************)
(* What the client has counted and what the server looks for.              *)
(***************************************************************************)
\* Two elements, one after the other.
LEMMA PairIs ==
  ASSUME NEW S, NEW a \in S, NEW b \in S
  PROVE  <<a>> \o <<b>> = <<a, b>>
PROOF
<1> DEFINE h == <<b>>
           t == <<a, b>>
           r == <<a>> \o h
<1>1. h \in Seq(S) /\ Len(h) = 1 /\ h[1] = b
  OBVIOUS
<1>2. t \in Seq(S) /\ Len(t) = 2 /\ t[1] = a /\ t[2] = b
  OBVIOUS
<1>0. r = <<a>> \o h
  OBVIOUS
<1> HIDE DEF h, t, r
<1>3. /\ r \in Seq(S) /\ Len(r) = Len(h) + 1 /\ r[1] = a
      /\ \A i \in 1 .. Len(h) : r[i + 1] = h[i]
  BY <1>0, <1>1, Prepended
<1>4. Len(r) = 2 /\ r[2] = b
  BY <1>1, <1>3
<1>5. \A i \in 1 .. 2 : r[i] = t[i]
  <2>1. \A i \in 1 .. 2 : i = 1 \/ i = 2
    OBVIOUS
  <2> QED BY <1>2, <1>3, <1>4, <2>1
<1>6. r = t
  BY <1>2, <1>3, <1>4, <1>5, SeqEqual
<1> QED BY <1>6 DEF r, t, h

\* A prefix, symbol by symbol.
LEMMA PrefixIs ==
  ASSUME NEW S, NEW a \in Seq(S), NEW s \in Seq(S)
  PROVE  IsPrefix(a, s) <=> Len(a) <= Len(s) /\ \A i \in 1 .. Len(a) : s[i] = a[i]
PROOF
<1>1. Len(a) \in Nat /\ Len(s) \in Nat
  BY LenProperties
<1>2. SubSeq(a, 1, Len(a)) = a
  BY SubSeqFull
<1>3. ASSUME Len(a) <= Len(s)
      PROVE  /\ SubSeq(s, 1, Len(a)) \in Seq(S) /\ Len(SubSeq(s, 1, Len(a))) = Len(a)
             /\ \A i \in 1 .. Len(a) : SubSeq(s, 1, Len(a))[i] = s[i]
  <2>1. \A i \in 1 .. Len(a) : s[i] \in S
    BY <1>1, <1>3, ElementOfSeq
  <2>2. /\ SubSeq(s, 1, Len(a)) \in Seq(S)
        /\ Len(SubSeq(s, 1, Len(a))) = IF 1 <= Len(a) THEN Len(a) - 1 + 1 ELSE 0
        /\ \A i \in 1 .. Len(a) - 1 + 1 : SubSeq(s, 1, Len(a))[i] = s[1 + i - 1]
    BY <1>1, <2>1, SubSeqProperties
  <2> QED BY <1>1, <2>2
<1>4. ASSUME Len(a) <= Len(s), SubSeq(s, 1, Len(a)) = a
      PROVE  \A i \in 1 .. Len(a) : s[i] = a[i]
  BY <1>3, <1>4
<1>5. ASSUME Len(a) <= Len(s), \A i \in 1 .. Len(a) : s[i] = a[i]
      PROVE  SubSeq(s, 1, Len(a)) = a
  BY <1>3, <1>5, SeqEqual
<1> QED BY <1>2, <1>4, <1>5 DEF IsPrefix

\* How a line begins.
LEMMA Begins ==
  ASSUME NEW S, NEW line \in Seq(S), line # <<>>, line[1] = "/", NEW cmd
  PROVE  /\ IsPrefix(<<"/", cmd>>, line) <=> Len(line) >= 2 /\ line[2] = cmd
         /\ IsPrefix(<<"/", cmd, " ">>, line)
              <=> Len(line) >= 3 /\ line[2] = cmd /\ line[3] = " "
PROOF
<1> DEFINE U == S \union {"/", cmd, " "}
           a == <<"/", cmd>>
           b == <<"/", cmd, " ">>
<1>1. line \in Seq(U) /\ Len(line) \in Nat \ {0}
  BY SeqMonotonic, EmptySeq
<1>2. a \in Seq(U) /\ Len(a) = 2 /\ a[1] = "/" /\ a[2] = cmd
  OBVIOUS
<1>3. b \in Seq(U) /\ Len(b) = 3 /\ b[1] = "/" /\ b[2] = cmd /\ b[3] = " "
  OBVIOUS
<1> HIDE DEF U, a, b
<1>4. IsPrefix(a, line) <=> Len(a) <= Len(line) /\ \A i \in 1 .. Len(a) : line[i] = a[i]
  BY <1>1, <1>2, PrefixIs
<1>5. IsPrefix(b, line) <=> Len(b) <= Len(line) /\ \A i \in 1 .. Len(b) : line[i] = b[i]
  <2>1. line \in Seq(U) /\ b \in Seq(U)
    BY <1>1, <1>3
  <2> QED BY <2>1, PrefixIs
<1>6. IsPrefix(a, line) <=> Len(line) >= 2 /\ line[2] = cmd
  <2>1. \A i \in 1 .. 2 : i = 1 \/ i = 2
    OBVIOUS
  <2> QED BY <1>1, <1>2, <1>4, <2>1
<1>7. IsPrefix(b, line) <=> Len(line) >= 3 /\ line[2] = cmd /\ line[3] = " "
  <2>1. \A i \in 1 .. 3 : i = 1 \/ i = 2 \/ i = 3
    OBVIOUS
  <2>2. IsPrefix(b, line) <=> 3 <= Len(line) /\ \A i \in 1 .. 3 : line[i] = b[i]
    BY <1>3, <1>5
  <2>3. (\A i \in 1 .. 3 : line[i] = b[i])
          <=> line[1] = b[1] /\ line[2] = b[2] /\ line[3] = b[3]
    BY <2>1
  <2> QED BY <1>1, <1>3, <2>2, <2>3
<1> QED BY <1>6, <1>7 DEF a, b

\* A command with a valid number of words is one of the client's.
LEMMA ArityCases ==
  ASSUME NEW words, Arity(words)
  PROVE  \/ words[1] \in {<<"exit">>, <<"help">>, <<"leave">>} /\ Len(words) = 1
         \/ words[1] = <<"join">> /\ Len(words) = 2
         \/ words[1] = <<"broadcast">> /\ Len(words) >= 2
         \/ words[1] = <<"whisper">> /\ Len(words) >= 3
         \/ words[1] = <<"sendfile">> /\ Len(words) = 3
PROOF
<1> QED BY DEF Arity

\* The symbol after the slash is the command, and the rest of the line has the
\* other words.
LEMMA CommandWords ==
  ASSUME NEW S, NEW line \in Seq(S), Len(line) >= 2, line[2] \notin Blank,
         Arity(ClientWords(line))
  PROVE  /\ ClientWords(line) = <<<<line[2]>>>> \o Words(From(line, 4))
         /\ From(line, 4) \in Seq(S) /\ Words(From(line, 4)) \in Seq(Seq(S))
         /\ Len(line) = 2 \/ line[3] \in Blank
         /\ <<line[2]>> \in Seq(S)
PROOF
<1> DEFINE t == Tail(line)
<1>1. Len(line) \in Nat /\ line # <<>>
  BY LenProperties, EmptySeq
<1>2. /\ t \in Seq(S) /\ Len(t) = Len(line) - 1
      /\ \A i \in 1 .. Len(line) - 1 : t[i] = line[i + 1]
  BY <1>1, HeadTailProperties
<1> HIDE DEF t
<1>3. t # <<>> /\ t[1] = line[2]
  BY <1>1, <1>2, EmptySeq
<1> PICK n \in 1 .. Len(t) :
      /\ \A i \in 1 .. n : t[i] \notin Blank
      /\ n < Len(t) => t[n + 1] \in Blank
      /\ Words(t) = <<UpTo(t, n)>> \o Words(From(t, (n + 1) + 1))
      /\ Words(From(t, (n + 1) + 1)) \in Seq(Seq(S))
  BY <1>2, <1>3, WordsOfNonBlank
<1>4. n \in Nat /\ Len(t) \in Nat
  BY <1>1, <1>2
<1>5. UpTo(t, n) \in Seq(S) /\ Len(UpTo(t, n)) = n
  <2>1. UpTo(t, n) \in Seq(S) /\ Len(UpTo(t, n)) = IF n < Len(t) THEN n ELSE Len(t)
    BY <1>2, <1>4, Pieces
  <2> QED BY <1>4, <2>1
<1>6. Words(t)[1] = UpTo(t, n)
  BY <1>5, Prepended
<1>7. Words(t) = ClientWords(line)
  BY DEF ClientWords, t
<1>8. Len(UpTo(t, n)) = 1
  <2>1. UpTo(t, n) \in {<<"exit">>, <<"help">>, <<"leave">>, <<"join">>,
                        <<"broadcast">>, <<"whisper">>, <<"sendfile">>}
    BY <1>6, <1>7, ArityCases
  <2> QED BY <2>1
<1>9. n = 1
  BY <1>5, <1>8
<1>10. UpTo(t, n) = <<line[2]>>
  <2>1. SubSeq(t, 1, 1) = <<t[1]>> \o SubSeq(t, 1 + 1, 1)
    BY <1>2, <1>4, <1>9, SubSeqRecursiveFirst
  <2>2. SubSeq(t, 1 + 1, 1) = <<>>
    BY SubSeqEmpty
  <2>3. UpTo(t, n) = SubSeq(t, 1, 1)
    BY <1>4, <1>9 DEF UpTo
  <2>4. t[1] \in S
    BY <1>2, <1>4, ElementOfSeq
  <2>5. <<t[1]>> \in Seq(S)
    BY <2>4
  <2>6. <<t[1]>> \o <<>> = <<t[1]>>
    BY <2>5, ConcatEmptySeq
  <2> QED BY <1>3, <2>1, <2>2, <2>3, <2>6
<1>11. From(t, (n + 1) + 1) = From(line, 4) /\ From(line, 4) \in Seq(S)
  <2> DEFINE two == 2
             three == 3
             f == From(t, two + 1)
             g == From(line, three + 1)
  <2>0. two \in Nat /\ three \in Nat
    OBVIOUS
  <2> HIDE DEF two, three
  <2>1. /\ f \in Seq(S) /\ Len(f) = IF two < Len(t) THEN Len(t) - two ELSE 0
        /\ \A i \in 1 .. Len(t) - two : f[i] = t[two + i]
    BY ZenonT(60), <1>2, <2>0, Pieces
  <2>2. /\ g \in Seq(S) /\ Len(g) = IF three < Len(line) THEN Len(line) - three ELSE 0
        /\ \A i \in 1 .. Len(line) - three : g[i] = line[three + i]
    BY ZenonT(60), <2>0, Pieces
  <2> HIDE DEF f, g
  <2> USE DEF two, three
  <2>3. Len(f) = Len(g)
    BY <1>1, <1>2, <2>1, <2>2
  <2>4. ASSUME NEW i \in 1 .. Len(f) PROVE f[i] = g[i]
    <3>1. /\ i \in 1 .. Len(t) - 2 /\ i \in 1 .. Len(line) - 3
          /\ 2 + i \in 1 .. Len(line) - 1 /\ (2 + i) + 1 = 3 + i
      BY <1>1, <1>2, <2>1
    <3>2. f[i] = t[2 + i] /\ t[2 + i] = line[(2 + i) + 1] /\ g[i] = line[3 + i]
      BY <1>2, <2>1, <2>2, <3>1
    <3> QED BY <3>1, <3>2
  <2>5. f = g
    BY <2>1, <2>2, <2>3, <2>4, SeqEqual
  <2>7. (n + 1) + 1 = two + 1 /\ three + 1 = 4
    BY <1>9
  <2>8. From(t, (n + 1) + 1) = f /\ From(line, 4) = g
    BY <2>7 DEF f, g
  <2> QED BY <2>2, <2>5, <2>8
<1>12. Len(line) = 2 \/ line[3] \in Blank
  <2> SUFFICES ASSUME Len(line) # 2 PROVE line[3] \in Blank
    OBVIOUS
  <2>1. n < Len(t) /\ n + 1 \in 1 .. Len(line) - 1 /\ (n + 1) + 1 = 3
    <3>1. Len(line) >= 2
      OBVIOUS
    <3>2. Len(t) = Len(line) - 1 /\ Len(line) \in Nat
      BY <1>1, <1>2
    <3> QED BY <1>9, <3>1, <3>2
  <2>2. t[n + 1] = line[(n + 1) + 1]
    BY <1>2, <2>1
  <2> QED BY <2>1, <2>2
<1> QED BY <1>5, <1>7, <1>10, <1>11, <1>12

\* Where there is a symbol that is no blank there is a word.
LEMMA HasWord ==
  ASSUME NEW S, NEW s \in Seq(S), NEW i \in 1 .. Len(s), s[i] \notin Blank
  PROVE  Words(s) # <<>>
PROOF
<1> DEFINE y == SkipBlanks(s)
<1>1. y \in Seq(S) /\ Words(y) = Words(s) /\ (y # <<>> => y[1] \notin Blank)
  BY SkipBlanksWords
<1>2. y # <<>>
  <2> PICK n \in 0 .. Len(s) : /\ SkipBlanks(s) = From(s, n + 1)
                               /\ \A j \in 1 .. n : s[j] \in Blank
    BY SkipBlanksIs
  <2>1. n \in Nat /\ Len(s) \in Nat /\ n < i
    BY LenProperties
  <2>2. Len(From(s, n + 1)) = IF n < Len(s) THEN Len(s) - n ELSE 0
    BY <2>1, Pieces
  <2>3. Len(y) # 0
    BY <2>1, <2>2
  <2> QED BY <2>3, EmptySeq
<1> HIDE DEF y
<1> PICK n \in 1 .. Len(y) :
      /\ Words(y) = <<UpTo(y, n)>> \o Words(From(y, (n + 1) + 1))
      /\ Words(From(y, (n + 1) + 1)) \in Seq(Seq(S))
  BY <1>1, <1>2, WordsOfNonBlank
<1>3. UpTo(y, n) \in Seq(S)
  BY <1>1, Pieces
<1>4. Words(y) # <<>>
  BY <1>3, Prepended
<1> QED BY <1>1, <1>4

\* A sequence with one word that does not end in a blank is that word, but for the
\* blanks before it.
LEMMA OneWord ==
  ASSUME NEW S, NEW x \in Seq(S), Len(Words(x)) = 1, x # <<>>, x[Len(x)] \notin Blank
  PROVE  Words(x) = <<SkipBlanks(x)>> /\ NoBlank(SkipBlanks(x))
PROOF
<1>0. Len(x) \in Nat \ {0}
  BY EmptySeq
<1>pieces. \A t \in Seq(S), k \in Nat :
        /\ From(t, k + 1) \in Seq(S)
        /\ Len(From(t, k + 1)) = IF k < Len(t) THEN Len(t) - k ELSE 0
        /\ \A i \in 1 .. Len(t) - k : From(t, k + 1)[i] = t[k + i]
  BY Pieces
<1> PICK p \in 0 .. Len(x) : /\ SkipBlanks(x) = From(x, p + 1)
                             /\ \A i \in 1 .. p : x[i] \in Blank
  BY SkipBlanksIs
<1> DEFINE y == SkipBlanks(x)
<1>1. y \in Seq(S) /\ Words(y) = Words(x) /\ (y # <<>> => y[1] \notin Blank)
  BY SkipBlanksWords
<1>2. y # <<>> /\ Len(y) \in Nat \ {0} /\ y[Len(y)] \notin Blank
  <2>1. p \in Nat /\ p < Len(x)
    BY <1>0
  <2>2. Len(y) = Len(x) - p /\ \A i \in 1 .. Len(x) - p : y[i] = x[p + i]
    BY ZenonT(60), <2>1, Pieces
  <2>3. Len(y) \in Nat \ {0} /\ Len(y) \in 1 .. Len(x) - p /\ p + Len(y) = Len(x)
    BY <1>0, <2>1, <2>2
  <2>4. y[Len(y)] = x[p + Len(y)]
    BY <2>2, <2>3
  <2> QED BY <2>3, <2>4, EmptySeq
<1> HIDE DEF y
<1> PICK n \in 1 .. Len(y) :
      /\ \A i \in 1 .. n : y[i] \notin Blank
      /\ n < Len(y) => y[n + 1] \in Blank
      /\ Words(y) = <<UpTo(y, n)>> \o Words(From(y, (n + 1) + 1))
      /\ Words(From(y, (n + 1) + 1)) \in Seq(Seq(S))
  BY <1>1, <1>2, WordsOfNonBlank
<1> DEFINE z == From(y, (n + 1) + 1)
<1>3. n \in Nat /\ n + 1 \in Nat
  BY <1>2
<1>4. UpTo(y, n) \in Seq(S)
  BY <1>1, <1>3, Pieces
<1>5. /\ z \in Seq(S) /\ Len(z) = IF n + 1 < Len(y) THEN Len(y) - (n + 1) ELSE 0
      /\ \A i \in 1 .. Len(y) - (n + 1) : z[i] = y[(n + 1) + i]
  <2> DEFINE k == n + 1
  <2>1. k \in Nat /\ y \in Seq(S)
    BY <1>1, <1>3
  <2> HIDE DEF k
  <2>2. /\ From(y, k + 1) \in Seq(S)
        /\ Len(From(y, k + 1)) = IF k < Len(y) THEN Len(y) - k ELSE 0
        /\ \A i \in 1 .. Len(y) - k : From(y, k + 1)[i] = y[k + i]
    BY <1>pieces, <2>1, Zenon
  <2> QED BY <2>2, Zenon DEF k
<1>6. Len(Words(y)) = Len(Words(z)) + 1 /\ Words(z) \in Seq(Seq(S))
  BY <1>4, Prepended
<1> HIDE DEF z
<1>7. Words(z) = <<>>
  <2>1. Len(Words(z)) \in Nat /\ Len(Words(z)) + 1 = 1
    BY <1>1, <1>6, LenProperties
  <2>2. Len(Words(z)) = 0
    BY <2>1
  <2> QED BY <1>6, <2>2, EmptySeq
<1>8. n = Len(y)
  <2> SUFFICES ASSUME n < Len(y) PROVE FALSE
    BY <1>2
  <2>1. n + 1 # Len(y)
    BY <1>2
  <2>2. n + 1 < Len(y)
    BY <1>2, <1>3, <2>1
  <2>3. /\ Len(z) = Len(y) - (n + 1) /\ Len(z) \in 1 .. Len(y) - (n + 1)
        /\ (n + 1) + Len(z) = Len(y)
    <3>1. Len(z) = Len(y) - (n + 1)
      BY <1>5, <2>2
    <3> QED BY <1>2, <1>3, <2>2, <3>1
  <2>4. z[Len(z)] = y[Len(y)]
    BY <1>5, <2>3
  <2>5. Len(z) \in 1 .. Len(z)
    BY <1>2, <1>3, <2>3
  <2> QED BY <1>2, <1>5, <1>7, <2>4, <2>5, HasWord
<1>9. UpTo(y, n) = y
  BY <1>1, <1>2, <1>8, SubSeqFull DEF UpTo
<1>10. <<y>> \in Seq(Seq(S)) /\ Words(y) = <<y>> \o <<>>
  <2>1. Words(y) = <<UpTo(y, n)>> \o Words(z)
    BY DEF z
  <2>2. Words(y) = <<y>> \o <<>>
    BY <1>7, <1>9, <2>1, Zenon
  <2>3. <<y>> \in Seq(Seq(S))
    <3>1. y \in Seq(S)
      BY <1>1
    <3> QED BY <3>1
  <2> QED BY <2>2, <2>3, Zenon
<1>11. Words(y) = <<y>>
  BY <1>10, ConcatEmptySeq
<1>12. NoBlank(y)
  BY <1>1, <1>8, LenProperties DEF NoBlank
<1> QED BY <1>1, <1>11, <1>12 DEF y

\* A user's name is a word.
LEMMA PeerIsWord ==
  ASSUME NEW name \in Peer
  PROVE  name \in Seq(Alnum) /\ name # <<>> /\ NoBlank(name) /\ Words(name) = <<name>>
PROOF
<1>1. name \in Seq(Alnum) /\ name # <<>>
  BY ClientInputAssumption
<1>2. \A a \in Alnum : a \notin Blank
  BY ClientInputAssumption
<1>3. NoBlank(name)
  BY <1>1, <1>2, LenProperties, ElementOfSeq DEF NoBlank
<1> QED BY <1>1, <1>3, WordsOfOne

\* The first space parts a sequence.
LEMMA FirstSpace ==
  ASSUME NEW S, NEW s \in Seq(S), Spaces(s) # {}
  PROVE  \E m \in 1 .. Len(s) :
           /\ Before(s) = UpTo(s, m - 1) /\ After(s) = From(s, m + 1)
           /\ s[m] = " " /\ \A i \in 1 .. m - 1 : s[i] # " "
           /\ Before(s) \in Seq(S) /\ After(s) \in Seq(S)
           /\ Words(s) = Words(Before(s)) \o Words(After(s))
PROOF
<1>1. Len(s) \in Nat /\ DOMAIN s = 1 .. Len(s)
  BY LenProperties
<1>2. /\ Spaces(s) \subseteq 1 .. Len(s)
      /\ \A i \in 1 .. Len(s) : i \in Spaces(s) <=> s[i] = " "
  BY <1>1 DEF Spaces
<1> PICK n \in 0 .. Len(s) :
      /\ \A i \in 1 .. n : i \notin Spaces(s)
      /\ n < Len(s) => n + 1 \in Spaces(s) /\ Least(Spaces(s)) = n + 1
      /\ n = Len(s) <=> Spaces(s) = {}
  BY <1>1, <1>2, FirstAmong
<1> DEFINE m == n + 1
<1>0. n # Len(s)
  OBVIOUS
<1>3. m \in 1 .. Len(s) /\ m \in Nat /\ m - 1 = n /\ m - 1 \in Nat /\ n < Len(s)
  <2>1. Len(s) \in Nat
    BY <1>1
  <2> QED BY <1>0, <2>1
<1>4. Least(Spaces(s)) = m /\ s[m] = " "
  BY <1>2, <1>3
<1>5. ASSUME NEW i \in 1 .. m - 1 PROVE s[i] # " "
  <2>1. i \in 1 .. n
    BY <1>3, Zenon
  <2>3. i \in 1 .. Len(s)
    <3>1. Len(s) \in Nat /\ n \in Nat /\ n < Len(s)
      BY <1>1, <1>3
    <3> QED BY <2>1, <3>1
  <2> QED BY <1>2, <2>1, <2>3
<1> HIDE DEF m
<1>6. Before(s) = UpTo(s, m - 1)
  BY <1>3, <1>4 DEF Before, UpTo
<1>7. After(s) = From(s, m + 1)
  BY <1>4 DEF After
<1>8. Before(s) \in Seq(S) /\ After(s) \in Seq(S)
  <2>1. UpTo(s, m - 1) \in Seq(S)
    BY <1>3, Pieces
  <2>2. From(s, m + 1) \in Seq(S)
    BY <1>3, Pieces
  <2> QED BY <1>6, <1>7, <2>1, <2>2
<1>9. Words(s) = Words(Before(s)) \o Words(After(s))
  BY ZenonT(60), <1>3, <1>4, <1>6, <1>7, WordsOfCut DEF Blank
<1> QED BY <1>3, <1>4, <1>5, <1>6, <1>7, <1>8, <1>9

-----------------------------------------------------------------------------
(***************************************************************************)
(* What the server takes from the rest of a line.                          *)
(***************************************************************************)
\* A broadcast has the words the client checked.
LEMMA BroadcastUnderstood ==
  ASSUME NEW S, NEW rest \in Seq(S), BroadcastRequest(rest) # Refused
  PROVE  BroadcastRequest(rest) = Accepted("broadcast", Words(rest))
PROOF
<1> DEFINE text == TrimEnd(SkipBlanks(rest), Blank)
<1>1. Words(text) = Words(rest)
  BY SkipBlanksWords, TrimEndWords
<1> QED BY <1>1 DEF BroadcastRequest

\* A whisper that the server does not refuse has the words the client checked:
\* its target is the first of them.
LEMMA WhisperUnderstood ==
  ASSUME NEW S, NEW rest \in Seq(S), WhisperRequest(rest) # Refused
  PROVE  WhisperRequest(rest) = Accepted("whisper", Words(rest))
PROOF
<1>1. Spaces(rest) # {} /\ IsPeer(Before(rest))
      /\ WhisperRequest(rest)
           = Accepted("whisper", <<Before(rest)>> \o Words(After(rest)))
  BY DEF WhisperRequest
<1>2. Words(Before(rest)) = <<Before(rest)>>
  BY <1>1, PeerIsWord DEF IsPeer
<1>3. Words(rest) = Words(Before(rest)) \o Words(After(rest))
  BY <1>1, FirstSpace
<1> QED BY <1>1, <1>2, <1>3

\* The target is what follows the first space, without the spaces around it.
LEMMA TargetWords ==
  ASSUME NEW S, NEW rest \in Seq(S), After(rest) \in Seq(S)
  PROVE  /\ SendfileTarget(rest) \in Seq(S)
         /\ Words(SendfileTarget(rest)) = Words(After(rest))
PROOF
<1> DEFINE t == After(rest)
           K == {i \in DOMAIN t : t[i] # " "}
<1>1. Len(t) \in Nat /\ K \subseteq 1 .. Len(t) /\ \A i \in 1 .. Len(t) : i \in K <=> t[i] # " "
  BY LenProperties
<1>2. SendfileTarget(rest) = IF K = {} THEN <<>> ELSE TrimEnd(From(t, Least(K)), {" "})
  BY DEF SendfileTarget
<1> HIDE DEF K
<1> PICK n \in 0 .. Len(t) : /\ \A i \in 1 .. n : i \notin K
                             /\ n < Len(t) => n + 1 \in K /\ Least(K) = n + 1
                             /\ n = Len(t) <=> K = {}
  BY <1>1, FirstAmong
<1> HIDE DEF t
<1>0. t \in Seq(S)
  BY DEF t
<1>3. n \in Nat /\ (n = Len(t) \/ n < Len(t)) /\ \A i \in 1 .. n : i \in 1 .. Len(t)
  <2>1. Len(t) \in Nat
    BY <1>1
  <2> QED BY <2>1
<1>4. \A i \in 1 .. n : t[i] \in Blank
  BY <1>1, <1>3 DEF Blank
<1>5. /\ From(t, n + 1) \in Seq(S) /\ Words(t) = Words(From(t, n + 1))
      /\ Len(From(t, n + 1)) = IF n < Len(t) THEN Len(t) - n ELSE 0
  BY <1>0, <1>3, <1>4, Pieces, BlanksBefore
<1>6. CASE n = Len(t)
  <2>1. K = {} /\ SendfileTarget(rest) = <<>>
    BY <1>2, <1>6
  <2>2. From(t, n + 1) = <<>>
    BY <1>1, <1>5, <1>6, EmptySeq
  <2> QED BY <1>5, <2>1, <2>2 DEF t
<1>7. CASE n < Len(t)
  <2>1. K # {} /\ Least(K) = n + 1
    BY <1>7, <1>1
  <2>2. SendfileTarget(rest) = TrimEnd(From(t, Least(K)), {" "})
    BY <1>2, <2>1, Zenon
  <2>3. SendfileTarget(rest) = TrimEnd(From(t, n + 1), {" "})
    BY <2>1, <2>2, Zenon
  <2>4. {" "} \subseteq Blank
    BY DEF Blank
  <2>5. /\ TrimEnd(From(t, n + 1), {" "}) \in Seq(S)
        /\ Words(TrimEnd(From(t, n + 1), {" "})) = Words(From(t, n + 1))
    BY <1>5, <2>4, TrimEndWords
  <2> QED BY <1>5, <2>3, <2>5, Zenon DEF t
<1> QED BY <1>3, <1>6, <1>7

\* The file name and the target of an accepted sendfile are the two words the
\* client checked, but for tabs before the name, which only the client skips.
LEMMA SendfileUnderstood ==
  ASSUME NEW S, NEW rest \in Seq(S), SendfileRequest(rest) # Refused,
         Len(Words(rest)) = 2
  PROVE  \E f, p : /\ SendfileRequest(rest) = Accepted("sendfile", <<f, p>>)
                   /\ <<SkipBlanks(f), p>> = Words(rest)
PROOF
<1> DEFINE f == Before(rest)
           p == SendfileTarget(rest)
<1>1. /\ Spaces(rest) # {} /\ ValidExtension(f) /\ IsPeer(p)
      /\ SendfileRequest(rest) = Accepted("sendfile", <<f, p>>)
  BY DEF SendfileRequest
<1>2. f \in Seq(S) /\ After(rest) \in Seq(S) /\ Words(rest) = Words(f) \o Words(After(rest))
  BY <1>1, FirstSpace
<1>3. Words(After(rest)) = <<p>> /\ p \in Seq(S)
  BY <1>1, <1>2, TargetWords, PeerIsWord DEF IsPeer
<1>4. f # <<>> /\ f[Len(f)] \notin Blank
  BY <1>1, ClientInputAssumption DEF ValidExtension, Last
<1>5. Words(f) \in Seq(Seq(S)) /\ <<p>> \in Seq(Seq(S)) /\ Len(<<p>>) = 1
  BY <1>2, <1>3, WordsType
<1>6. Len(Words(f)) = 1
  <2>1. Len(Words(rest)) = Len(Words(f)) + Len(<<p>>) /\ Len(Words(f)) \in Nat
    BY <1>2, <1>3, <1>5, ConcatProperties, LenProperties
  <2>2. \A k \in Nat : k + 1 = 2 => k = 1
    OBVIOUS
  <2>3. Len(Words(f)) + 1 = 2
    BY <1>5, <2>1, Zenon
  <2> QED BY <2>1, <2>2, <2>3, Zenon
<1>7. Words(f) = <<SkipBlanks(f)>>
  BY <1>2, <1>4, <1>6, OneWord
<1> HIDE DEF f, p
<1>8. Words(rest) = <<SkipBlanks(f), p>>
  <2>1. Words(rest) = <<SkipBlanks(f)>> \o <<p>>
    BY <1>2, <1>3, <1>7, Zenon
  <2>2. SkipBlanks(f) \in Seq(S)
    BY <1>2, SkipBlanksWords
  <2>3. ASSUME NEW a \in Seq(S), NEW b \in Seq(S) PROVE <<a>> \o <<b>> = <<a, b>>
    BY PairIs
  <2> QED BY <1>3, <2>1, <2>2, <2>3, Zenon
<1> QED BY <1>1, <1>8

\* A valid name that is cut off from the rest of the line is the beginning of the
\* first word.
LEMMA JoinUnderstood ==
  ASSUME NEW S, NEW rest \in Seq(S), JoinRequest(rest) # Refused
  PROVE  \E name : /\ JoinRequest(rest) = Accepted("join", <<name>>)
                   /\ IsPrefix(name, Words(rest)[1])
PROOF
<1> DEFINE u == UpTo(rest, RoomNameSize)
           v == SkipBlanks(u)
           name == TrimEnd(v, Blank)
<1>1. /\ name # <<>> /\ AllAlnum(name)
      /\ JoinRequest(rest) = Accepted("join", <<name>>)
  BY DEF JoinRequest
<1>2. RoomNameSize \in Nat \ {0} /\ Len(rest) \in Nat
  BY ClientInputAssumption, LenProperties
<1>3. /\ u \in Seq(S) /\ Len(u) \in Nat /\ Len(u) <= Len(rest)
      /\ \A i \in 1 .. Len(u) : u[i] = rest[i]
  BY <1>2, Pieces
<1> HIDE DEF u
<1> PICK p \in 0 .. Len(u) : /\ v = From(u, p + 1)
                             /\ \A i \in 1 .. p : u[i] \in Blank
                             /\ p < Len(u) => u[p + 1] \notin Blank
  BY <1>3, SkipBlanksIs
<1>4. p \in Nat /\ p <= Len(u)
  BY <1>3
<1>5. /\ v \in Seq(S) /\ Len(v) = IF p < Len(u) THEN Len(u) - p ELSE 0
      /\ \A i \in 1 .. Len(u) - p : v[i] = u[p + i]
  BY SMTT(40), <1>3, <1>4, Pieces
<1> HIDE DEF v
<1>6. v # <<>>
  BY <1>1 DEF TrimEnd
<1> PICK q \in 1 .. Len(v) : name = UpTo(v, q)
  BY <1>5, <1>6, TrimEndIs
<1>7. q \in Nat \ {0} /\ q <= Len(v) /\ Len(v) = Len(u) - p /\ p < Len(u)
  BY <1>3, <1>4, <1>5
<1>8. name \in Seq(S) /\ Len(name) = q /\ \A i \in 1 .. q : name[i] = v[i]
  <2>1. /\ UpTo(v, q) \in Seq(S)
        /\ Len(UpTo(v, q)) = IF q < Len(v) THEN q ELSE Len(v)
        /\ \A i \in 1 .. Len(UpTo(v, q)) : UpTo(v, q)[i] = v[i]
    BY <1>5, <1>7, Pieces
  <2>2. Len(UpTo(v, q)) = q
    BY <1>7, <2>1
  <2> QED BY <2>1, <2>2
<1> HIDE DEF name
<1>9. \A i \in 1 .. q : name[i] = rest[p + i] /\ rest[p + i] \notin Blank
  <2> TAKE i \in 1 .. q
  <2>1. i \in 1 .. Len(u) - p /\ p + i \in 1 .. Len(u)
    BY <1>4, <1>7
  <2>2. name[i] = rest[p + i]
    BY <1>3, <1>5, <1>8, <2>1
  <2>3. name[i] \in Alnum
    BY <1>1, <1>8, LenProperties DEF AllAlnum
  <2> QED BY <2>2, <2>3, ClientInputAssumption
<1> DEFINE x == From(rest, p + 1)
<1>10. Words(rest) = Words(x)
  <2>1. p \in 0 .. Len(rest) /\ \A i \in 1 .. p : i \in 1 .. Len(u)
    BY <1>2, <1>3, <1>4
  <2>2. \A i \in 1 .. p : rest[i] \in Blank
    BY <1>3, <2>1
  <2> QED BY <2>1, <2>2, BlanksBefore
<1>11. /\ x \in Seq(S) /\ Len(x) = Len(rest) - p /\ Len(x) \in Nat /\ q <= Len(x)
       /\ \A i \in 1 .. Len(x) : x[i] = rest[p + i]
  <2>1. /\ x \in Seq(S) /\ Len(x) = IF p < Len(rest) THEN Len(rest) - p ELSE 0
        /\ \A i \in 1 .. Len(rest) - p : x[i] = rest[p + i]
    BY <1>4, Pieces
  <2>2. Len(x) = Len(rest) - p
    BY <1>2, <1>3, <1>7, <2>1
  <2> QED BY SMTT(40), <1>2, <1>3, <1>7, <2>1, <2>2
<1> HIDE DEF x
<1>12. \A i \in 1 .. q : x[i] = name[i] /\ x[i] \notin Blank
  <2> TAKE i \in 1 .. q
  <2>1. i \in 1 .. Len(x)
    BY <1>7, <1>11
  <2>2. x[i] = rest[p + i]
    BY <1>11, <2>1
  <2> QED BY <1>9, <2>2
<1>13. x # <<>> /\ x[1] \notin Blank
  BY <1>7, <1>11, <1>12, EmptySeq
<1> PICK n \in 1 .. Len(x) :
      /\ n < Len(x) => x[n + 1] \in Blank
      /\ Words(x) = <<UpTo(x, n)>> \o Words(From(x, (n + 1) + 1))
      /\ Words(From(x, (n + 1) + 1)) \in Seq(Seq(S))
  BY <1>11, <1>13, WordsOfNonBlank
<1>14. n \in Nat /\ n <= Len(x)
  BY <1>11
<1>15. /\ UpTo(x, n) \in Seq(S) /\ Len(UpTo(x, n)) = n
       /\ \A i \in 1 .. n : UpTo(x, n)[i] = x[i]
  <2>1. /\ UpTo(x, n) \in Seq(S)
        /\ Len(UpTo(x, n)) = IF n < Len(x) THEN n ELSE Len(x)
        /\ \A i \in 1 .. Len(UpTo(x, n)) : UpTo(x, n)[i] = x[i]
    BY <1>11, <1>14, Pieces
  <2>2. Len(UpTo(x, n)) = n
    <3>1. Len(UpTo(x, n)) = IF n < Len(x) THEN n ELSE Len(x)
      BY <2>1
    <3>2. n < Len(x) \/ n = Len(x)
      <4>1. n \in Nat /\ n <= Len(x) /\ Len(x) \in Nat
        BY <1>11, <1>14
      <4> QED BY <4>1
    <3> QED BY <3>1, <3>2
  <2> QED BY <2>1, <2>2
<1>16. Words(x)[1] = UpTo(x, n)
  BY <1>15, Prepended
<1>17. q <= n
  <2> SUFFICES ASSUME n < q PROVE FALSE
    BY <1>7, <1>14
  <2>1. n < Len(x) /\ n + 1 \in 1 .. q
    BY <1>7, <1>11, <1>14
  <2> QED BY <1>12, <2>1
<1>18. \A i \in 1 .. q : UpTo(x, n)[i] = name[i]
  <2> TAKE i \in 1 .. q
  <2>1. i \in 1 .. n
    BY <1>7, <1>14, <1>17
  <2> QED BY <1>12, <1>15, <2>1
<1>19. IsPrefix(name, UpTo(x, n))
  BY <1>8, <1>15, <1>17, <1>18, PrefixIs
<1> QED BY <1>1, <1>10, <1>16, <1>19

\* What becomes of a line that begins with a slash.
LEMMA RequestCases ==
  ASSUME NEW S, NEW line \in Seq(S), Len(line) >= 2, line[1] = "/"
  PROVE  LET rest == From(line, 4)
             has(cmd) == Len(line) >= 3 /\ line[2] = cmd /\ line[3] = " "
         IN  \/ has("join") /\ Request(line) = JoinRequest(rest)
             \/ line[2] = "leave" /\ Request(line) = Accepted("leave", <<>>)
             \/ has("broadcast") /\ Request(line) = BroadcastRequest(rest)
             \/ has("whisper") /\ Request(line) = WhisperRequest(rest)
             \/ has("sendfile") /\ Request(line) = SendfileRequest(rest)
             \/ line[2] = "exit" /\ Request(line) = Accepted("exit", <<>>)
             \/ /\ Request(line) = Refused
                /\ line[2] \notin {"leave", "exit"}
                /\ \A cmd \in {"join", "broadcast", "whisper", "sendfile"} : ~has(cmd)
PROOF
<1>1. line # <<>> /\ Len(line) \in Nat
  BY LenProperties, EmptySeq
<1> DEFINE is(cmd) == IsPrefix(<<"/", cmd>>, line)
           has(cmd) == IsPrefix(<<"/", cmd, " ">>, line)
           rest == From(line, 4)
<1>2. /\ is("leave") <=> line[2] = "leave"
      /\ is("exit") <=> line[2] = "exit"
  BY <1>1, Begins
<1>3. /\ has("join") <=> Len(line) >= 3 /\ line[2] = "join" /\ line[3] = " "
      /\ has("broadcast") <=> Len(line) >= 3 /\ line[2] = "broadcast" /\ line[3] = " "
      /\ has("whisper") <=> Len(line) >= 3 /\ line[2] = "whisper" /\ line[3] = " "
      /\ has("sendfile") <=> Len(line) >= 3 /\ line[2] = "sendfile" /\ line[3] = " "
  BY <1>1, Begins
<1>4. Request(line) =
        CASE has("join")      -> JoinRequest(rest)
          [] is("leave")      -> Accepted("leave", <<>>)
          [] has("broadcast") -> BroadcastRequest(rest)
          [] has("whisper")   -> WhisperRequest(rest)
          [] has("sendfile")  -> SendfileRequest(rest)
          [] is("exit")       -> Accepted("exit", <<>>)
          [] OTHER            -> Refused
  BY DEF Request
<1> HIDE DEF is, has, rest
<1>5. \/ has("join") /\ Request(line) = JoinRequest(rest)
      \/ is("leave") /\ Request(line) = Accepted("leave", <<>>)
      \/ has("broadcast") /\ Request(line) = BroadcastRequest(rest)
      \/ has("whisper") /\ Request(line) = WhisperRequest(rest)
      \/ has("sendfile") /\ Request(line) = SendfileRequest(rest)
      \/ is("exit") /\ Request(line) = Accepted("exit", <<>>)
      \/ /\ Request(line) = Refused /\ ~is("leave") /\ ~is("exit") /\ ~has("join")
         /\ ~has("broadcast") /\ ~has("whisper") /\ ~has("sendfile")
  BY <1>4
<1> QED BY <1>2, <1>3, <1>5 DEF rest

\* How many words there are after a command.
LEMMA ArityOf ==
  ASSUME NEW words, NEW c, words[1] = <<c>>, Arity(words)
  PROVE  \/ c \in {"exit", "help", "leave"} /\ Len(words) = 1
         \/ c = "join" /\ Len(words) = 2
         \/ c = "broadcast" /\ Len(words) >= 2
         \/ c = "whisper" /\ Len(words) >= 3
         \/ c = "sendfile" /\ Len(words) = 3
PROOF
<1>1. \A d : <<c>> = <<d>> => c = d
  OBVIOUS
<1> QED BY <1>1, ArityCases

\* A line taken apart into its command and the rest, as the client counts the words.
Taken(S, line, words, rest) ==
  /\ Len(line) \in Nat /\ Len(line) >= 2 /\ line[1] = "/"
  /\ Len(line) = 2 \/ line[3] \in Blank
  /\ rest \in Seq(S) /\ Words(rest) \in Seq(Seq(S))
  /\ words \in Seq(Seq(S)) /\ words[1] = <<line[2]>>
  /\ Len(words) = Len(Words(rest)) + 1 /\ Tail(words) = Words(rest)
  /\ \A i \in 1 .. Len(Words(rest)) : words[i + 1] = Words(rest)[i]
  /\ \/ line[2] \in {"exit", "help", "leave"} /\ Len(words) = 1
     \/ line[2] = "join" /\ Len(words) = 2
     \/ line[2] = "broadcast" /\ Len(words) >= 2
     \/ line[2] = "whisper" /\ Len(words) >= 3
     \/ line[2] = "sendfile" /\ Len(words) = 3

\* A line that the client has let through can be taken apart.
LEMMA LetThroughWords ==
  ASSUME NEW S, NEW line \in Seq(S), line # <<>>, LetThrough(line),
         Len(line) >= 2 => line[2] \notin Blank,
         NEW words, words = ClientWords(line), NEW rest, rest = From(line, 4)
  PROVE  Taken(S, line, words, rest)
PROOF
<1>1. line[1] = "/" /\ words # <<>> /\ Arity(words)
  BY DEF LetThrough, ClientAccepts
<1>2. Len(line) \in Nat \ {0}
  BY EmptySeq
<1>3. Len(line) # 1
  <2> SUFFICES ASSUME Len(line) = 1 PROVE FALSE
    OBVIOUS
  <2>1. Tail(line) \in Seq(S) /\ Len(Tail(line)) = 0
    BY HeadTailProperties
  <2>2. Tail(line) = <<>>
    BY <2>1, EmptySeq
  <2>3. AllBlank(<<>>) /\ <<>> \in Seq(S)
    BY DEF AllBlank
  <2>4. Words(<<>>) = <<>>
    BY <2>3, WordsOfBlanks
  <2> QED BY <1>1, <2>2, <2>4 DEF ClientWords
<1>4. Len(line) >= 2
  <2>1. \A k \in Nat \ {0} : k # 1 => k >= 2
    OBVIOUS
  <2> QED BY <1>2, <1>3, <2>1
<1>5. /\ words = <<<<line[2]>>>> \o Words(rest)
      /\ rest \in Seq(S) /\ Words(rest) \in Seq(Seq(S))
      /\ Len(line) = 2 \/ line[3] \in Blank
      /\ <<line[2]>> \in Seq(S)
  BY <1>1, <1>4, CommandWords
<1>6. /\ words \in Seq(Seq(S)) /\ words[1] = <<line[2]>>
      /\ Len(words) = Len(Words(rest)) + 1 /\ Tail(words) = Words(rest)
      /\ \A i \in 1 .. Len(Words(rest)) : words[i + 1] = Words(rest)[i]
  BY SMTT(40), <1>5, Prepended
<1>7. \/ line[2] \in {"exit", "help", "leave"} /\ Len(words) = 1
      \/ line[2] = "join" /\ Len(words) = 2
      \/ line[2] = "broadcast" /\ Len(words) >= 2
      \/ line[2] = "whisper" /\ Len(words) >= 3
      \/ line[2] = "sendfile" /\ Len(words) = 3
  BY <1>1, <1>6, ArityOf
<1> QED BY <1>1, <1>2, <1>4, <1>5, <1>6, <1>7 DEF Taken

\* What the server understands of such a line is what the client has checked.
LEMMA LineUnderstood ==
  ASSUME NEW S, NEW line \in Seq(S), line # <<>>, LetThrough(line),
         Request(line) # Refused
  PROVE  LET words == ClientWords(line)
             o == Request(line)
         IN  /\ words[1] = <<o.cmd>>
             /\ Len(o.words) = Len(words) - 1
             /\ CASE o.cmd = "join" -> IsPrefix(o.words[1], words[2])
                  [] o.cmd = "sendfile" ->
                       <<SkipBlanks(o.words[1]), o.words[2]>> = Tail(words)
                  [] OTHER -> o.words = Tail(words)
PROOF
<1> DEFINE words == ClientWords(line)
           o == Request(line)
           rest == From(line, 4)
           has(cmd) == Len(line) >= 3 /\ line[2] = cmd /\ line[3] = " "
<1>0. line[1] = "/"
  BY DEF LetThrough
<1>1. ASSUME Len(line) >= 2
      PROVE  \/ line[2] = "join" /\ o = JoinRequest(rest)
             \/ line[2] = "leave" /\ o = Accepted("leave", <<>>)
             \/ line[2] = "broadcast" /\ o = BroadcastRequest(rest)
             \/ line[2] = "whisper" /\ o = WhisperRequest(rest)
             \/ line[2] = "sendfile" /\ o = SendfileRequest(rest)
             \/ line[2] = "exit" /\ o = Accepted("exit", <<>>)
  BY <1>0, <1>1, RequestCases
<1>2. Len(line) >= 2 => line[2] \notin Blank
  BY <1>1 DEF Blank
<1>3. /\ Len(line) >= 2
      /\ rest \in Seq(S) /\ Words(rest) \in Seq(Seq(S))
      /\ words \in Seq(Seq(S)) /\ words[1] = <<line[2]>>
      /\ Len(words) = Len(Words(rest)) + 1 /\ Tail(words) = Words(rest)
      /\ \A i \in 1 .. Len(Words(rest)) : words[i + 1] = Words(rest)[i]
      /\ \/ line[2] \in {"exit", "help", "leave"} /\ Len(words) = 1
         \/ line[2] = "join" /\ Len(words) = 2
         \/ line[2] = "broadcast" /\ Len(words) >= 2
         \/ line[2] = "whisper" /\ Len(words) >= 3
         \/ line[2] = "sendfile" /\ Len(words) = 3
  <2>1. Taken(S, line, words, rest)
    BY <1>2, LetThroughWords
  <2> HIDE DEF words, rest
  <2> QED BY <2>1 DEF Taken
<1> HIDE DEF words, rest
<1>11. /\ line[2] = "join" => Len(words) = 2
       /\ line[2] = "sendfile" => Len(words) = 3
       /\ line[2] \in {"leave", "exit"} => Len(words) = 1
       /\ line[2] # "help" \/ Len(words) = 1
  BY <1>3
<1>4. Len(Words(rest)) \in Nat
  BY <1>3, LenProperties
<1>5. \A c, w : Accepted(c, w).cmd = c /\ Accepted(c, w).words = w
  BY DEF Accepted
<1> DEFINE Agrees ==
      /\ words[1] = <<o.cmd>>
      /\ Len(o.words) = Len(words) - 1
      /\ CASE o.cmd = "join" -> IsPrefix(o.words[1], words[2])
           [] o.cmd = "sendfile" ->
                <<SkipBlanks(o.words[1]), o.words[2]>> = Tail(words)
           [] OTHER -> o.words = Tail(words)
<1>6. ASSUME NEW cmd \in {"leave", "exit", "broadcast", "whisper"},
             line[2] = cmd, o = Accepted(cmd, Words(rest))
      PROVE  Agrees
  <2>1. o.cmd = cmd /\ o.words = Words(rest)
    BY <1>5, <1>6
  <2>2. cmd # "join" /\ cmd # "sendfile"
    OBVIOUS
  <2>3. Len(words) - 1 = Len(Words(rest))
    BY <1>3, <1>4
  <2> HIDE DEF o
  <2> QED BY SMTT(40), <1>3, <1>6, <2>1, <2>2, <2>3
<1>7. ASSUME NEW cmd \in {"leave", "exit"}, line[2] = cmd, o = Accepted(cmd, <<>>)
      PROVE  Agrees
  <2>1. Len(Words(rest)) = 0
    BY <1>3, <1>4, <1>7
  <2>2. Words(rest) = <<>>
    BY <1>3, <2>1, EmptySeq
  <2> QED BY <1>6, <1>7, <2>2
<1>8. ASSUME line[2] = "join", o = JoinRequest(rest) PROVE Agrees
  <2>1. PICK name : o = Accepted("join", <<name>>) /\ IsPrefix(name, Words(rest)[1])
    BY <1>3, <1>8, JoinUnderstood
  <2>2. o.cmd = "join" /\ o.words = <<name>>
    BY <1>5, <2>1
  <2>3. Len(Words(rest)) = 1 /\ Len(words) = 2
    <3>1. Len(words) = 2 /\ Len(words) = Len(Words(rest)) + 1
      BY <1>3, <1>8, <1>11
    <3>2. \A k \in Nat : k + 1 = 2 => k = 1
      OBVIOUS
    <3> QED BY <1>4, <3>1, <3>2, Zenon
  <2>4. words[2] = Words(rest)[1]
    BY <1>3, <2>3
  <2>5. Len(<<name>>) = 1 /\ <<name>>[1] = name
    OBVIOUS
  <2>6. o.words[1] = name /\ Len(o.words) = Len(words) - 1
    BY <2>2, <2>3, <2>5
  <2>7. words[1] = <<"join">> /\ IsPrefix(name, words[2])
    BY <1>3, <1>8, <2>1, <2>4
  <2> HIDE DEF o
  <2> QED BY <2>2, <2>6, <2>7
<1>9. ASSUME line[2] = "sendfile", o = SendfileRequest(rest) PROVE Agrees
  <2>1. Len(Words(rest)) = 2 /\ Len(words) = 3
    <3>1. Len(words) = 3 /\ Len(words) = Len(Words(rest)) + 1
      BY <1>3, <1>9, <1>11
    <3>2. \A k \in Nat : k + 1 = 3 => k = 2
      OBVIOUS
    <3> QED BY <1>4, <3>1, <3>2, Zenon
  <2>2. PICK f, p : /\ o = Accepted("sendfile", <<f, p>>)
                    /\ <<SkipBlanks(f), p>> = Words(rest)
    BY <1>3, <1>9, <2>1, SendfileUnderstood
  <2>3. o.cmd = "sendfile" /\ o.words = <<f, p>>
    BY <1>5, <2>2
  <2>4. Len(<<f, p>>) = 2 /\ <<f, p>>[1] = f /\ <<f, p>>[2] = p
    OBVIOUS
  <2>5. o.words[1] = f /\ o.words[2] = p /\ Len(o.words) = Len(words) - 1
    BY <2>1, <2>3, <2>4
  <2>6. words[1] = <<"sendfile">> /\ Tail(words) = <<SkipBlanks(f), p>>
    BY <1>3, <1>9, <2>2
  <2>7. "sendfile" # "join"
    OBVIOUS
  <2> HIDE DEF o
  <2> QED BY <2>3, <2>5, <2>6, <2>7
<1>10. Agrees
  <2>1. line[2] = "broadcast" /\ o = BroadcastRequest(rest) => Agrees
    BY <1>3, <1>6, BroadcastUnderstood
  <2>2. line[2] = "whisper" /\ o = WhisperRequest(rest) => Agrees
    BY <1>3, <1>6, WhisperUnderstood
  <2> HIDE DEF o, Agrees
  <2> QED BY <1>1, <1>3, <1>7, <1>8, <1>9, <2>1, <2>2
<1> QED BY <1>10 DEF words

-----------------------------------------------------------------------------
(***************************************************************************)
(* Lines whose only blanks are single spaces.                              *)
(***************************************************************************)
Tidy(s) ==
  /\ s # <<>> /\ s[1] \notin Blank
  /\ \A i \in 1 .. Len(s) :
       s[i] \in Blank => s[i] = " " /\ i < Len(s) /\ s[i + 1] \notin Blank

\* There is nothing to skip or to trim in a word.
LEMMA NoBlankKept ==
  ASSUME NEW S, NEW s \in Seq(S), s # <<>>, NoBlank(s)
  PROVE  SkipBlanks(s) = s /\ \A B : B \subseteq Blank => TrimEnd(s, B) = s
PROOF
<1>1. Len(s) \in Nat \ {0} /\ \A i \in 1 .. Len(s) : s[i] \notin Blank
  BY EmptySeq, LenProperties DEF NoBlank
<1>2. SkipBlanks(s) = s
  <2> PICK n \in 0 .. Len(s) : /\ SkipBlanks(s) = From(s, n + 1)
                               /\ \A i \in 1 .. n : s[i] \in Blank
    BY SkipBlanksIs
  <2>1. n = 0
    BY <1>1
  <2> QED BY <2>1, SubSeqFull DEF From
<1>3. ASSUME NEW B, B \subseteq Blank PROVE TrimEnd(s, B) = s
  <2> PICK n \in 1 .. Len(s) : /\ TrimEnd(s, B) = UpTo(s, n)
                               /\ \A i \in n + 1 .. Len(s) : s[i] \in B
    BY TrimEndIs
  <2>1. n = Len(s)
    <3> SUFFICES ASSUME n # Len(s) PROVE FALSE
      OBVIOUS
    <3>1. Len(s) \in n + 1 .. Len(s) /\ Len(s) \in 1 .. Len(s)
      BY <1>1
    <3> QED BY <1>1, <1>3, <3>1
  <2> QED BY <1>1, <2>1, SubSeqFull DEF UpTo
<1> QED BY <1>2, <1>3

\* A tidy sequence is a word, or a word, a space and a tidy sequence.
LEMMA TidyWords ==
  ASSUME NEW S, NEW s \in Seq(S), Tidy(s)
  PROVE  \/ NoBlank(s) /\ Words(s) = <<s>>
         \/ /\ Spaces(s) # {} /\ Tidy(After(s))
            /\ Before(s) \in Seq(S) /\ After(s) \in Seq(S)
            /\ Words(s) = <<Before(s)>> \o Words(After(s))
            /\ Words(After(s)) \in Seq(Seq(S)) /\ Words(After(s)) # <<>>
PROOF
<1>1. /\ Len(s) \in Nat \ {0} /\ DOMAIN s = 1 .. Len(s) /\ s # <<>> /\ s[1] \notin Blank
      /\ \A i \in 1 .. Len(s) :
           s[i] \in Blank => s[i] = " " /\ i < Len(s) /\ s[i + 1] \notin Blank
  BY EmptySeq, LenProperties DEF Tidy
<1>4. ASSUME NEW L \in Nat, NEW m \in 1 .. L, m # 1
      PROVE  /\ m \in Nat /\ m - 1 \in Nat \ {0} /\ m - 1 < L
             /\ \A i \in 1 .. m - 1 : i \in 1 .. L
  BY <1>4
<1>5. \A L \in Nat \ {0} : \A m \in 1 .. L : m < L => L - m \in Nat \ {0}
  OBVIOUS
<1>6. \A k \in Nat \ {0} : 1 \in 1 .. k
  OBVIOUS
<1>7. \A L \in Nat \ {0} : \A m \in 1 .. L : \A i \in 1 .. L - m : m + i \in 1 .. L
  OBVIOUS
<1>8. \A L \in Nat \ {0} : \A m \in 1 .. L : \A i \in 1 .. L - m : m + i < L =>
        i + 1 \in 1 .. L - m /\ i < L - m
  OBVIOUS
<1>9. \A L \in Nat \ {0} : \A m \in 1 .. L : \A i \in 1 .. L - m :
        m + (i + 1) = (m + i) + 1
  OBVIOUS
<1>2. CASE Spaces(s) = {}
  <2>1. \A i \in 1 .. Len(s) : s[i] # " "
    BY <1>1, <1>2 DEF Spaces
  <2>2. NoBlank(s)
    BY <1>1, <2>1 DEF NoBlank
  <2> QED BY <1>1, <2>2, WordsOfOne
<1>3. CASE Spaces(s) # {}
  <2> PICK m \in 1 .. Len(s) :
        /\ Before(s) = UpTo(s, m - 1) /\ After(s) = From(s, m + 1)
        /\ s[m] = " " /\ \A i \in 1 .. m - 1 : s[i] # " "
        /\ Before(s) \in Seq(S) /\ After(s) \in Seq(S)
        /\ Words(s) = Words(Before(s)) \o Words(After(s))
    BY <1>3, FirstSpace
  <2>1. s[m] \in Blank
    BY DEF Blank
  <2>2. m # 1
    BY <1>1, <2>1
  <2>3. m < Len(s) /\ s[m + 1] \notin Blank
    BY <1>1, <2>1
  <2>4. /\ m \in Nat /\ m - 1 \in Nat \ {0} /\ m - 1 < Len(s)
        /\ \A i \in 1 .. m - 1 : i \in 1 .. Len(s)
    BY <1>1, <1>4, <2>2
  <2>5. /\ Len(Before(s)) = m - 1
        /\ \A i \in 1 .. m - 1 : Before(s)[i] = s[i]
    <3> DEFINE k == m - 1
    <3>1. k \in Nat /\ k < Len(s)
      BY <2>4
    <3> HIDE DEF k
    <3>2. /\ Len(UpTo(s, k)) = IF k < Len(s) THEN k ELSE Len(s)
          /\ \A i \in 1 .. Len(UpTo(s, k)) : UpTo(s, k)[i] = s[i]
      BY <3>1, Pieces
    <3>3. Len(UpTo(s, k)) = k /\ Before(s) = UpTo(s, k)
      BY <3>1, <3>2 DEF k
    <3> QED BY <3>2, <3>3 DEF k
  <2>6. NoBlank(Before(s))
    <3>1. DOMAIN Before(s) = 1 .. m - 1
      BY <2>5, LenProperties
    <3> SUFFICES ASSUME NEW i \in 1 .. m - 1 PROVE Before(s)[i] \notin Blank
      BY <3>1 DEF NoBlank
    <3>2. i \in 1 .. Len(s)
      BY <2>4, Zenon
    <3> QED BY <1>1, <2>5, <3>2
  <2>7. Before(s) # <<>>
    BY <2>4, <2>5, EmptySeq
  <2>8. Words(Before(s)) = <<Before(s)>>
    BY <2>6, <2>7, WordsOfOne
  <2>9. /\ Len(After(s)) = Len(s) - m
        /\ \A i \in 1 .. Len(s) - m : After(s)[i] = s[m + i]
    <3>1. /\ Len(From(s, m + 1)) = IF m < Len(s) THEN Len(s) - m ELSE 0
          /\ \A i \in 1 .. Len(s) - m : From(s, m + 1)[i] = s[m + i]
      BY <2>4, Pieces
    <3> QED BY <2>3, <3>1
  <2>10. /\ Len(s) - m \in Nat \ {0} /\ 1 \in 1 .. Len(s) - m
         /\ \A i \in 1 .. Len(s) - m :
              /\ m + i \in 1 .. Len(s)
              /\ m + i < Len(s) => /\ i + 1 \in 1 .. Len(s) - m /\ i < Len(s) - m
                                   /\ m + (i + 1) = (m + i) + 1
    <3>1. Len(s) \in Nat \ {0} /\ m < Len(s)
      BY <1>1, <2>3
    <3>2. Len(s) - m \in Nat \ {0}
      BY <1>5, <3>1, Zenon
    <3>3. 1 \in 1 .. Len(s) - m
      BY <1>6, <3>2, Zenon
    <3>4. ASSUME NEW i \in 1 .. Len(s) - m PROVE m + i \in 1 .. Len(s)
      BY <1>7, <3>1, Zenon
    <3>5. ASSUME NEW i \in 1 .. Len(s) - m, m + i < Len(s)
          PROVE  /\ i + 1 \in 1 .. Len(s) - m /\ i < Len(s) - m
                 /\ m + (i + 1) = (m + i) + 1
      <4>1. i + 1 \in 1 .. Len(s) - m /\ i < Len(s) - m
        BY <1>8, <3>1, <3>5, Zenon
      <4>2. m + (i + 1) = (m + i) + 1
        BY <1>9, <3>1, Zenon
      <4> QED BY <4>1, <4>2, Zenon
    <3> QED BY <3>2, <3>3, <3>4, <3>5, Zenon
  <2>11. Tidy(After(s))
    <3>1. After(s) # <<>>
      BY <2>9, <2>10, EmptySeq
    <3>2. After(s)[1] \notin Blank
      BY <2>3, <2>9, <2>10, Zenon
    <3>3. ASSUME NEW i \in 1 .. Len(s) - m, After(s)[i] \in Blank
          PROVE  /\ After(s)[i] = " " /\ i < Len(s) - m
                 /\ After(s)[i + 1] \notin Blank
      <4>1. m + i \in 1 .. Len(s) /\ After(s)[i] = s[m + i]
        BY <2>9, <2>10, Zenon
      <4>2. s[m + i] = " " /\ m + i < Len(s) /\ s[(m + i) + 1] \notin Blank
        BY <1>1, <3>3, <4>1, Zenon
      <4>3. i + 1 \in 1 .. Len(s) - m /\ m + (i + 1) = (m + i) + 1 /\ i < Len(s) - m
        BY <2>10, <4>2, Zenon
      <4>4. After(s)[i + 1] = s[m + (i + 1)]
        BY <2>9, <4>3, Zenon
      <4> QED BY <4>1, <4>2, <4>3, <4>4, Zenon
    <3> QED BY <2>9, <3>1, <3>2, <3>3 DEF Tidy
  <2>12. Words(After(s)) \in Seq(Seq(S)) /\ Words(After(s)) # <<>>
    <3>1. 1 \in 1 .. Len(After(s)) /\ After(s)[1] \notin Blank
      BY <2>9, <2>10, <2>11, Zenon DEF Tidy
    <3> QED BY <3>1, WordsType, HasWord
  <2> QED BY <1>3, <2>8, <2>11, <2>12
<1> QED BY <1>2, <1>3

\* Why a plain join is refused: the name of the room.
LEMMA JoinRefused ==
  ASSUME NEW S, NEW rest \in Seq(S), Tidy(rest), Len(Words(rest)) = 1,
         JoinRequest(rest) = Refused
  PROVE  ~AllAlnum(UpTo(Words(rest)[1], RoomNameSize))
PROOF
<1>1. NoBlank(rest) /\ Words(rest) = <<rest>>
  <2> SUFFICES ASSUME ~(NoBlank(rest) /\ Words(rest) = <<rest>>) PROVE FALSE
    OBVIOUS
  <2> DEFINE w == Words(After(rest))
  <2>1. /\ Before(rest) \in Seq(S) /\ Words(rest) = <<Before(rest)>> \o w
        /\ w \in Seq(Seq(S)) /\ w # <<>>
    BY TidyWords
  <2> HIDE DEF w
  <2>2. Len(Words(rest)) = Len(w) + 1 /\ Len(w) \in Nat \ {0}
    BY <2>1, Prepended, EmptySeq
  <2> QED BY SMTT(40), <2>2
<1> DEFINE u == UpTo(rest, RoomNameSize)
<1>2. RoomNameSize \in Nat \ {0} /\ Len(rest) \in Nat \ {0}
  BY ClientInputAssumption, EmptySeq DEF Tidy
<1>3. u \in Seq(S) /\ u # <<>> /\ NoBlank(u)
  <2>1. /\ u \in Seq(S)
        /\ Len(u) = IF RoomNameSize < Len(rest) THEN RoomNameSize ELSE Len(rest)
        /\ \A i \in 1 .. Len(u) : u[i] = rest[i]
    BY <1>2, Pieces
  <2>2. Len(u) \in Nat \ {0} /\ Len(u) <= Len(rest)
    BY <1>2, <2>1
  <2>3. \A i \in 1 .. Len(u) : rest[i] \notin Blank
    BY <1>1, <1>2, <2>2, LenProperties DEF NoBlank
  <2> HIDE DEF u
  <2> QED BY <2>1, <2>2, <2>3, EmptySeq, LenProperties DEF NoBlank
<1> HIDE DEF u
<1>4. TrimEnd(SkipBlanks(u), Blank) = u
  BY <1>3, NoBlankKept
<1>5. Accepted("join", <<u>>) # Refused
  BY DEF Accepted, Refused
<1>6. ~AllAlnum(u)
  BY <1>3, <1>4, <1>5 DEF JoinRequest, u
<1> QED BY <1>1, <1>6 DEF u

\* A broadcast is never refused.
LEMMA BroadcastAccepted ==
  ASSUME NEW S, NEW rest \in Seq(S), Words(rest) # <<>>
  PROVE  BroadcastRequest(rest) # Refused
PROOF
<1> DEFINE text == TrimEnd(SkipBlanks(rest), Blank)
<1>1. text \in Seq(S) /\ Words(text) = Words(rest)
  BY SkipBlanksWords, TrimEndWords
<1>2. <<>> \in Seq(S) /\ AllBlank(<<>>)
  BY DEF AllBlank
<1>3. text # <<>>
  BY <1>1, <1>2, WordsOfBlanks
<1>4. Accepted("broadcast", Words(text)) # Refused
  BY DEF Accepted, Refused
<1> QED BY <1>3, <1>4 DEF BroadcastRequest

\* Why a plain whisper is refused: its target is no peer.
LEMMA WhisperRefused ==
  ASSUME NEW S, NEW rest \in Seq(S), Tidy(rest), Len(Words(rest)) >= 2,
         WhisperRequest(rest) = Refused
  PROVE  ~IsPeer(Words(rest)[1])
PROOF
<1>1. Words(rest) # <<rest>>
  <2>1. Len(<<rest>>) = 1 /\ ~(1 >= 2) /\ 1 # 2
    OBVIOUS
  <2> QED BY <2>1, Zenon
<1>2. /\ Spaces(rest) # {} /\ Before(rest) \in Seq(S) /\ After(rest) \in Seq(S)
      /\ Words(rest) = <<Before(rest)>> \o Words(After(rest))
      /\ Words(After(rest)) \in Seq(Seq(S)) /\ Words(After(rest)) # <<>>
  BY <1>1, TidyWords
<1>3. SkipBlanks(After(rest)) # <<>>
  <2>1. Words(SkipBlanks(After(rest))) = Words(After(rest))
    BY <1>2, SkipBlanksWords
  <2>2. <<>> \in Seq(S) /\ AllBlank(<<>>)
    BY DEF AllBlank
  <2> QED BY <1>2, <2>1, <2>2, WordsOfBlanks
<1>4. \A w : Accepted("whisper", w) # Refused
  BY DEF Accepted, Refused
<1>5. ~IsPeer(Before(rest))
  BY <1>2, <1>3, <1>4 DEF WhisperRequest
<1>6. Words(rest)[1] = Before(rest)
  BY <1>2, Prepended
<1> QED BY <1>5, <1>6

\* Why a plain sendfile is refused: its extension or its target.
LEMMA SendfileRefused ==
  ASSUME NEW S, NEW rest \in Seq(S), Tidy(rest), Len(Words(rest)) = 2,
         SendfileRequest(rest) = Refused
  PROVE  ~(ValidExtension(Words(rest)[1]) /\ IsPeer(Words(rest)[2]))
PROOF
<1> DEFINE t == After(rest)
<1>1. Words(rest) # <<rest>>
  <2>1. Len(<<rest>>) = 1 /\ ~(1 >= 2) /\ 1 # 2
    OBVIOUS
  <2> QED BY <2>1, Zenon
<1>2. /\ Spaces(rest) # {} /\ Before(rest) \in Seq(S) /\ t \in Seq(S) /\ Tidy(t)
      /\ Words(rest) = <<Before(rest)>> \o Words(t)
      /\ Words(t) \in Seq(Seq(S)) /\ Words(t) # <<>>
  BY <1>1, TidyWords
<1> HIDE DEF t
<1>3. /\ Words(rest)[1] = Before(rest)
      /\ Len(Words(rest)) = Len(Words(t)) + 1
      /\ \A i \in 1 .. Len(Words(t)) : Words(rest)[i + 1] = Words(t)[i]
  BY <1>2, Prepended
<1>4. Len(Words(t)) = 1
  <2>1. Len(Words(t)) \in Nat /\ \A k \in Nat : k + 1 = 2 => k = 1
    BY <1>2, LenProperties
  <2>2. Len(Words(t)) + 1 = 2
    BY <1>3, Zenon
  <2> QED BY <2>1, <2>2, Zenon
<1>5. NoBlank(t) /\ Words(t) = <<t>>
  <2> SUFFICES ASSUME ~(NoBlank(t) /\ Words(t) = <<t>>) PROVE FALSE
    OBVIOUS
  <2> DEFINE w == Words(After(t))
  <2>1. /\ Before(t) \in Seq(S) /\ Words(t) = <<Before(t)>> \o w
        /\ w \in Seq(Seq(S)) /\ w # <<>>
    BY <1>2, TidyWords
  <2> HIDE DEF w
  <2>2. Len(Words(t)) = Len(w) + 1 /\ Len(w) \in Nat \ {0}
    BY <2>1, Prepended, EmptySeq
  <2> QED BY <1>4, <2>2
<1>6. Words(rest)[2] = t
  <2>1. 1 \in 1 .. Len(Words(t)) /\ 1 + 1 = 2
    BY <1>4
  <2>2. Words(rest)[1 + 1] = Words(t)[1]
    BY <1>3, <2>1
  <2>3. <<t>>[1] = t
    OBVIOUS
  <2> QED BY <1>5, <2>1, <2>2, <2>3
<1>7. SendfileTarget(rest) = t
  <2> DEFINE K == {i \in DOMAIN t : t[i] # " "}
  <2>1. t # <<>> /\ Len(t) \in Nat \ {0} /\ DOMAIN t = 1 .. Len(t)
    BY <1>2, EmptySeq, LenProperties DEF Tidy
  <2>2. K = 1 .. Len(t)
    BY <1>5, <2>1 DEF NoBlank, Blank
  <2>3. Least(K) = 1 /\ K # {}
    <3>1. 1 \in K /\ K \subseteq Nat /\ \A k \in K : 1 <= k
      <4>1. \A L \in Nat \ {0} :
              1 \in 1 .. L /\ 1 .. L \subseteq Nat /\ \A k \in 1 .. L : 1 <= k
        OBVIOUS
      <4> HIDE DEF K
      <4> QED BY <2>1, <2>2, <4>1, Zenon
    <3> HIDE DEF K
    <3> QED BY <3>1, LeastIs
  <2>4. SendfileTarget(rest) = TrimEnd(From(t, Least(K)), {" "})
    BY <2>3 DEF SendfileTarget, t
  <2>5. From(t, 1) = t
    BY <1>2, SubSeqFull DEF From
  <2>6. {" "} \subseteq Blank
    BY DEF Blank
  <2>7. TrimEnd(t, {" "}) = t
    BY <1>2, <1>5, <2>1, <2>6, NoBlankKept
  <2> QED BY <2>3, <2>4, <2>5, <2>7
<1>8. \A w : Accepted("sendfile", w) # Refused
  BY DEF Accepted, Refused
<1>9. ~(ValidExtension(Before(rest)) /\ IsPeer(SendfileTarget(rest)))
  BY <1>2, <1>8 DEF SendfileRequest
<1> QED BY <1>3, <1>6, <1>7, <1>9

\* A plain line that the client lets through is refused only for an argument.
LEMMA LineRefused ==
  ASSUME NEW S, NEW line \in Seq(S), line # <<>>, LetThrough(line),
         Request(line) = Refused, Plain(line)
  PROVE  Objection(ClientWords(line))
PROOF
<1> DEFINE words == ClientWords(line)
           rest == From(line, 4)
<1>1. /\ Len(line) \in Nat \ {0} /\ DOMAIN line = 1 .. Len(line) /\ line[1] = "/"
      /\ ~IsPrefix(<<"/", "help">>, line)
  BY EmptySeq, LenProperties DEF LetThrough
<1>20. \A k \in Nat : k + 1 = 2 => k = 1
  OBVIOUS
<1>21. \A k \in Nat : k + 1 = 3 => k = 2
  OBVIOUS
<1>22. \A k \in Nat : k + 1 >= 3 => k >= 2
  OBVIOUS
<1>23. \A k \in Nat : k + 1 >= 2 => k # 0
  OBVIOUS
<1>24. \A k \in Nat : k # 0 => 1 \in 1 .. k
  OBVIOUS
<1>25. \A k \in Nat : k >= 3 => 3 \in 2 .. k
  OBVIOUS
<1>26. \A k \in Nat : \A i \in 1 .. k - 3 :
         3 + i < k => /\ i + 1 \in 1 .. k - 3 /\ i < k - 3
                     /\ (3 + i) + 1 = 3 + (i + 1)
  OBVIOUS
<1>27. 1 + 1 = 2 /\ 2 + 1 = 3 /\ 3 + 1 = 4 /\ 1 \in 1 .. 2 /\ 2 \in 1 .. 2 /\ 1 \in 1 .. 1
  OBVIOUS
<1>28. 2 >= 2 /\ 3 >= 2 /\ ~(0 >= 2) /\ \A k \in Nat : k >= 3 => k >= 2
  OBVIOUS
<1>2. ASSUME NEW i \in 2 .. Len(line)
      PROVE  /\ line[i] \in Blank => line[i] = " "
             /\ line[i] = " " => i > 2 /\ i < Len(line) /\ line[i + 1] # " "
             /\ i < Len(line) /\ line[i + 1] # " " => line[i + 1] \notin Blank
  <2>1. \A j \in 1 .. Len(line) : line[j] # "tab"
    BY <1>1 DEF Plain
  <2>2. i \in DOMAIN line \ {1} /\ i \in 1 .. Len(line)
    BY <1>1
  <2>3. line[i] = " " => i > 2 /\ i < Len(line) /\ line[i + 1] # " "
    BY <2>2 DEF Plain
  <2>4. i < Len(line) => i + 1 \in 1 .. Len(line)
    BY <1>1
  <2> QED BY <2>1, <2>2, <2>3, <2>4 DEF Blank
<1>3. Len(line) >= 2 => line[2] \notin Blank
  <2> SUFFICES ASSUME Len(line) >= 2, line[2] \in Blank PROVE FALSE
    OBVIOUS
  <2>1. 2 \in 2 .. Len(line) /\ ~(2 > 2)
    BY <1>1
  <2> QED BY <1>2, <2>1
<1>4. Taken(S, line, words, rest)
  BY <1>3, LetThroughWords
<1> HIDE DEF words
<1>5. \A cmd, w : Accepted(cmd, w) # Refused \/ cmd = "error"
  BY DEF Accepted, Refused
<1>6. line[2] # "help"
  BY <1>1, <1>4, Begins DEF Taken
<1>7. /\ rest \in Seq(S) /\ Len(rest) = IF 3 < Len(line) THEN Len(line) - 3 ELSE 0
      /\ \A i \in 1 .. Len(line) - 3 : rest[i] = line[3 + i]
  <2> DEFINE three == 3
  <2>1. three \in Nat
    OBVIOUS
  <2> HIDE DEF three
  <2>2. /\ From(line, three + 1) \in Seq(S)
        /\ Len(From(line, three + 1)) = IF three < Len(line) THEN Len(line) - three ELSE 0
        /\ \A i \in 1 .. Len(line) - three : From(line, three + 1)[i] = line[three + i]
    BY <2>1, Pieces
  <2> QED BY <2>2 DEF three
<1> HIDE DEF rest
<1>8. /\ line[2] = "join" => Len(words) = 2
      /\ line[2] = "broadcast" => Len(words) >= 2
      /\ line[2] = "whisper" => Len(words) >= 3
      /\ line[2] = "sendfile" => Len(words) = 3
      /\ line[2] \in {"exit", "help", "leave", "join", "broadcast", "whisper", "sendfile"}
  BY <1>4 DEF Taken
<1>9. /\ Len(words) = Len(Words(rest)) + 1 /\ Len(Words(rest)) \in Nat
      /\ \A i \in 1 .. Len(Words(rest)) : words[i + 1] = Words(rest)[i]
      /\ words[1] = <<line[2]>>
      /\ Len(line) = 2 \/ (Len(line) >= 3 /\ line[3] \in Blank)
  <2>1. /\ Len(words) = Len(Words(rest)) + 1 /\ Words(rest) \in Seq(Seq(S))
        /\ words[1] = <<line[2]>> /\ Len(line) >= 2
        /\ \A i \in 1 .. Len(Words(rest)) : words[i + 1] = Words(rest)[i]
        /\ Len(line) = 2 \/ line[3] \in Blank
    BY <1>4, Zenon DEF Taken
  <2>2. Len(Words(rest)) \in Nat
    BY <2>1, LenProperties
  <2>3. Len(line) \in Nat
    BY <1>1
  <2>4. \A k \in Nat : k >= 2 => k = 2 \/ k >= 3
    OBVIOUS
  <2> QED BY <2>1, <2>2, <2>3, <2>4, Zenon
<1>10. ASSUME Len(line) >= 3, line[3] = " "
       PROVE  Tidy(rest)
  <2>1. 3 \in 2 .. Len(line) /\ 3 < Len(line) /\ line[4] \notin Blank
    <3>1. Len(line) \in Nat
      BY <1>1
    <3>2. 3 \in 2 .. Len(line) /\ 3 + 1 = 4
      BY <1>25, <1>27, <1>10, <3>1, Zenon
    <3> QED BY <1>2, <1>10, <3>2, Zenon
  <2>2. Len(rest) = Len(line) - 3 /\ Len(line) - 3 \in Nat \ {0}
    BY <1>1, <1>7, <2>1
  <2>3. rest # <<>> /\ rest[1] \notin Blank
    <3>1. 1 \in 1 .. Len(line) - 3 /\ 3 + 1 = 4
      BY <2>2
    <3> QED BY <1>7, <2>1, <2>2, <3>1, EmptySeq
  <2>4. ASSUME NEW i \in 1 .. Len(rest), rest[i] \in Blank
        PROVE  rest[i] = " " /\ i < Len(rest) /\ rest[i + 1] \notin Blank
    <3>1. i \in 1 .. Len(line) - 3 /\ 3 + i \in 2 .. Len(line)
      BY <1>1, <2>2
    <3>2. rest[i] = line[3 + i]
      BY <1>7, <3>1
    <3>3. /\ line[3 + i] = " " /\ 3 + i < Len(line) /\ line[(3 + i) + 1] \notin Blank
      BY <1>2, <2>4, <3>1, <3>2
    <3>4. /\ i + 1 \in 1 .. Len(line) - 3 /\ i < Len(rest) /\ (3 + i) + 1 = 3 + (i + 1)
      <4>1. Len(line) \in Nat
        BY <1>1
      <4> QED BY <1>26, <2>2, <3>1, <3>3, <4>1, Zenon
    <3>5. rest[i + 1] = line[3 + (i + 1)]
      BY <1>7, <3>4
    <3> QED BY <3>2, <3>3, <3>4, <3>5
  <2> QED BY <2>3, <2>4 DEF Tidy
<1> DEFINE has(cmd) == Len(line) >= 3 /\ line[2] = cmd /\ line[3] = " "
<1>11. /\ has("join") /\ JoinRequest(rest) = Refused
          => Objection(words)
  <2> SUFFICES ASSUME has("join"), JoinRequest(rest) = Refused PROVE Objection(words)
    OBVIOUS
  <2>1. Len(Words(rest)) = 1 /\ Len(words) = 2
    <3>1. Len(words) = 2
      BY <1>8
    <3>2. Len(Words(rest)) \in Nat /\ Len(Words(rest)) + 1 = 2
      BY <1>9, <3>1, Zenon
    <3> QED BY <1>20, <3>1, <3>2, Zenon
  <2>2. ~AllAlnum(UpTo(Words(rest)[1], RoomNameSize))
    BY <1>7, <1>10, <2>1, JoinRefused
  <2>3. words[2] = Words(rest)[1]
    <3>1. 1 \in 1 .. Len(Words(rest)) /\ 1 + 1 = 2
      BY <1>27, <2>1, Zenon
    <3> QED BY <1>9, <3>1, Zenon
  <2> QED BY <1>9, <2>2, <2>3 DEF Objection
<1>12. has("broadcast") => BroadcastRequest(rest) # Refused
  <2> SUFFICES ASSUME has("broadcast") PROVE BroadcastRequest(rest) # Refused
    OBVIOUS
  <2>1. 1 \in 1 .. Len(rest) /\ rest[1] \notin Blank
    <3>1. Tidy(rest)
      BY <1>10
    <3>2. rest # <<>> /\ rest[1] \notin Blank
      BY <3>1 DEF Tidy
    <3>3. Len(rest) \in Nat /\ Len(rest) # 0
      BY <1>7, <3>2, EmptySeq
    <3> QED BY <1>24, <3>2, <3>3, Zenon
  <2>2. Words(rest) # <<>>
    BY <1>7, <2>1, HasWord
  <2> QED BY <1>7, <2>2, BroadcastAccepted
<1>13. has("whisper") /\ WhisperRequest(rest) = Refused => Objection(words)
  <2> SUFFICES ASSUME has("whisper"), WhisperRequest(rest) = Refused
               PROVE  Objection(words)
    OBVIOUS
  <2>1. Len(Words(rest)) >= 2 /\ 1 \in 1 .. Len(Words(rest)) /\ 1 + 1 = 2
    <3>1. Len(words) >= 3
      BY <1>8
    <3>2. Len(Words(rest)) \in Nat /\ Len(Words(rest)) + 1 >= 3
      BY <1>9, <3>1, Zenon
    <3>3. Len(Words(rest)) >= 2
      BY <1>22, <3>2, Zenon
    <3>4. Len(Words(rest)) # 0
      BY <1>28, <3>3, Zenon
    <3> QED BY <1>24, <1>27, <3>2, <3>3, <3>4, Zenon
  <2>2. ~IsPeer(Words(rest)[1])
    BY <1>7, <1>10, <2>1, WhisperRefused
  <2>3. words[2] = Words(rest)[1]
    BY <1>9, <2>1
  <2> QED BY <1>9, <2>2, <2>3 DEF Objection
<1>14. has("sendfile") /\ SendfileRequest(rest) = Refused => Objection(words)
  <2> SUFFICES ASSUME has("sendfile"), SendfileRequest(rest) = Refused
               PROVE  Objection(words)
    OBVIOUS
  <2>1. /\ Len(Words(rest)) = 2 /\ 1 \in 1 .. Len(Words(rest)) /\ 1 + 1 = 2
        /\ 2 \in 1 .. Len(Words(rest)) /\ 2 + 1 = 3
    <3>1. Len(words) = 3
      BY <1>8
    <3>2. Len(Words(rest)) \in Nat /\ Len(Words(rest)) + 1 = 3
      BY <1>9, <3>1, Zenon
    <3> QED BY <1>21, <1>27, <3>2, Zenon
  <2>2. ~(ValidExtension(Words(rest)[1]) /\ IsPeer(Words(rest)[2]))
    BY <1>7, <1>10, <2>1, SendfileRefused
  <2>3. words[2] = Words(rest)[1] /\ words[3] = Words(rest)[2]
    BY <1>9, <2>1
  <2> QED BY <1>9, <2>2, <2>3 DEF Objection
<1>15. ASSUME line[2] \in {"join", "broadcast", "whisper", "sendfile"}
       PROVE  Len(line) >= 3 /\ line[3] = " "
  <2>1. Len(Words(rest)) # 0
    <3>1. Len(words) = 2 \/ Len(words) >= 2 \/ Len(words) >= 3 \/ Len(words) = 3
      BY <1>8, <1>15
    <3>2. Len(words) >= 2
      <4>1. Len(words) \in Nat
        BY <1>9
      <4> QED BY <1>28, <3>1, <4>1, Zenon
    <3> QED BY <1>9, <1>23, <3>2, Zenon
  <2>2. Len(line) # 2
    <3> SUFFICES ASSUME Len(line) = 2 PROVE FALSE
      OBVIOUS
    <3>1. Len(rest) = 0
      BY <1>7
    <3>2. rest = <<>> /\ AllBlank(rest)
      BY <1>7, <3>1, EmptySeq DEF AllBlank
    <3>3. Words(rest) = <<>>
      BY <1>7, <3>2, WordsOfBlanks
    <3>4. Len(<<>>) = 0
      OBVIOUS
    <3> QED BY <2>1, <3>3, <3>4, Zenon
  <2>3. Len(line) >= 3 /\ line[3] \in Blank
    BY <1>9, <2>2
  <2>4. 3 \in 2 .. Len(line)
    BY <1>1, <2>3
  <2> QED BY <1>2, <2>3, <2>4
<1>16. \/ has("join") /\ Request(line) = JoinRequest(rest)
       \/ line[2] = "leave" /\ Request(line) = Accepted("leave", <<>>)
       \/ has("broadcast") /\ Request(line) = BroadcastRequest(rest)
       \/ has("whisper") /\ Request(line) = WhisperRequest(rest)
       \/ has("sendfile") /\ Request(line) = SendfileRequest(rest)
       \/ line[2] = "exit" /\ Request(line) = Accepted("exit", <<>>)
       \/ /\ line[2] \notin {"leave", "exit"}
          /\ \A cmd \in {"join", "broadcast", "whisper", "sendfile"} : ~has(cmd)
  <2>1. Len(line) >= 2
    BY <1>4 DEF Taken
  <2> QED BY <1>1, <2>1, RequestCases DEF rest
<1>17. Objection(words)
  BY <1>5, <1>6, <1>8, <1>11, <1>12, <1>13, <1>14, <1>15, <1>16
<1> QED BY <1>17 DEF words

-----------------------------------------------------------------------------
(***************************************************************************)
(* What the server understands, and what it refuses.                       *)
(***************************************************************************)
\* A line that has been served is one that the client has let through.
LEMMA ServedLine ==
  ASSUME IndInv, outcome # Nothing
  PROVE  /\ message \in Seq(Symbol) /\ message # <<>> /\ LetThrough(message)
         /\ outcome = Request(message)
PROOF
<1>1. message \in Seq(Symbol) /\ message # <<>> /\ outcome = Request(message)
  BY DEF IndInv, BufferInv, RequestInv
<1>2. phase \in {"command", "done"}
  BY DEF IndInv, TypeOK, RequestInv
<1> QED BY <1>1, <1>2 DEF IndInv, RequestInv

\* What the server understands of a line is the command and the words that the
\* client has checked, but for a room name, which is cut at its greatest length,
\* and a tab before the name of a file (server_helper.c:1018).
THEOREM UnderstoodCorrect == Spec => []ServerUnderstandsClient
PROOF
<1>1. ASSUME IndInv PROVE ServerUnderstandsClient
  <2> SUFFICES ASSUME outcome.cmd \notin {"none", "error"} PROVE ServerUnderstandsClient
    BY DEF ServerUnderstandsClient
  <2>1. outcome # Nothing /\ outcome # Refused
    BY DEF Nothing, Refused
  <2>2. /\ message \in Seq(Symbol) /\ message # <<>> /\ LetThrough(message)
        /\ outcome = Request(message)
    BY <1>1, <2>1, ServedLine
  <2> DEFINE words == ClientWords(message)
  <2>3. /\ words[1] = <<outcome.cmd>>
        /\ Len(outcome.words) = Len(words) - 1
        /\ CASE outcome.cmd = "join" -> IsPrefix(outcome.words[1], words[2])
             [] outcome.cmd = "sendfile" ->
                  <<SkipBlanks(outcome.words[1]), outcome.words[2]>> = Tail(words)
             [] OTHER -> outcome.words = Tail(words)
    BY <2>1, <2>2, LineUnderstood
  <2> QED BY <2>3, Zenon DEF ServerUnderstandsClient
<1> QED BY <1>1, InputInvariance, PTL

\* A line that the client lets through is refused for an argument the server does
\* not like, or for its blanks.
THEOREM RefusalCorrect == Spec => []RefusedForAReason
PROOF
<1>1. ASSUME IndInv PROVE RefusedForAReason
  <2> SUFFICES ASSUME outcome = Refused, Plain(message)
               PROVE  Objection(ClientWords(message))
    BY DEF RefusedForAReason
  <2>1. outcome # Nothing
    BY DEF Nothing, Refused
  <2>2. /\ message \in Seq(Symbol) /\ message # <<>> /\ LetThrough(message)
        /\ Request(message) = Refused
    BY <1>1, <2>1, ServedLine
  <2> QED BY <2>2, LineRefused
<1> QED BY <1>1, InputInvariance, PTL
=============================================================================
