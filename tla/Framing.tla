------------------------------ MODULE Framing -------------------------------
(***************************************************************************)
(* One direction of a connection as the stream of bytes it is: the loops   *)
(* of send_message and receive_message (the server's and the client's are  *)
(* the same), of send_file_to_client and of receive_file_from_server.      *)
(*                                                                         *)
(* A message is its length in Prefix bytes, most significant first, and    *)
(* its text.  A file is a header message that announces its size, then the *)
(* size once more, then the data.  Several threads send to one socket:     *)
(* the handler of the connection, and the handlers that broadcast, whisper *)
(* or send a file to its client.  Nothing but the kernel orders their      *)
(* calls; each call, and each turn of a loop, moves as many bytes as fit.  *)
(* One thread reads.                                                       *)
(***************************************************************************)
EXTENDS Naturals, Sequences

CONSTANTS Writer,      \* threads that send to the socket
          Base,        \* number of values of a byte (256)
          Prefix,      \* bytes of a length (4)
          BufferSize,  \* size of the reader's buffer
          Capacity,    \* bytes the kernel holds between the two ends
          Text,        \* texts of plain messages
          Data,        \* contents of files
          MaxSent      \* bound on the number of items sent

Byte == 0..(Base - 1)
Mark == Base - 1       \* stands for FILE_DOWNLOAD: at the head of a text

\* Base to the power of n: the weight of a byte that n others follow.
Power[n \in 0..Prefix] == IF n = 0 THEN 1 ELSE Base * Power[n - 1]

\* No text is empty or fills the reader's buffer, and none but a header looks
\* like one: what users write follows a word such as WHISPER or BROADCAST.
ASSUME FramingAssumption ==
  /\ Base \in Nat \ {0, 1} /\ Prefix \in Nat \ {0}
  /\ Capacity \in Nat \ {0} /\ MaxSent \in Nat
  /\ BufferSize \in 3..Power[Prefix]
  /\ \A t \in Text : /\ t \in Seq(Byte)
                     /\ Len(t) \in 1..(BufferSize - 1)
                     /\ t[1] # Mark
  /\ \A d \in Data : d \in Seq(Byte) /\ Len(d) < Base

VARIABLES
  out,       \* what each writer has still to send of its current item
  sent,      \* the items, in the order of their first byte
  wire,      \* bytes sent and not yet received
  closed,    \* the sending process has closed the socket
  part,      \* what the reader is in the middle of, "ended" when it stopped
  need, got, \* bytes this part has, and those received
  announced, \* the size in the header of the file being received
  delivered, \* the items received
  spoiled,   \* bytes of two items have mixed, or a file was given up
  cut        \* the connection ended in the middle of something

writing == <<out, sent>>
reading == <<part, need, got, announced, delivered>>
vars    == <<writing, wire, closed, reading, spoiled, cut>>

-----------------------------------------------------------------------------
Message(t) == [file |-> FALSE, bytes |-> t]
File(d)    == [file |-> TRUE, bytes |-> d]
Item       == {Message(t) : t \in Text} \union {File(d) : d \in Data}

\* htonl and ntohl.
Encode(n) == [i \in 1..Prefix |-> (n \div Power[Prefix - i]) % Base]
Decode(s) ==
  LET value[i \in 0..Len(s)] == IF i = 0 THEN 0 ELSE value[i - 1] * Base + s[i]
  IN  value[Len(s)]

Framed(t)   == <<Encode(Len(t)), t>>
Header(d)   == <<Mark, Len(d)>>
IsHeader(t) == Len(t) = 2 /\ t[1] = Mark

\* The loops a writer goes through for an item, each with what it sends.
Parts(i) ==
  IF i.file
    THEN Framed(Header(i.bytes)) \o <<Encode(Len(i.bytes))>>
           \o (IF i.bytes = <<>> THEN <<>> ELSE <<i.bytes>>)
    ELSE Framed(i.bytes)

Init ==
  /\ out = [w \in Writer |-> <<>>]
  /\ sent = <<>>
  /\ wire = <<>>
  /\ closed = FALSE
  /\ part = "length" /\ need = Prefix /\ got = <<>>
  /\ announced = 0
  /\ delivered = <<>>
  /\ spoiled = FALSE /\ cut = FALSE

-----------------------------------------------------------------------------
\* Mutant: the rest of a part that was sent in pieces is forgotten.
TransmitOnce(w, parts) ==
  LET first == Head(parts) IN
  /\ \E k \in 1..Len(first) :
       /\ k <= Capacity - Len(wire)
       /\ wire' = wire \o SubSeq(first, 1, k)
       /\ out' = [out EXCEPT ![w] = Tail(parts)]
  /\ spoiled' = (spoiled \/ \E v \in Writer \ {w} : out[v] # <<>>)

\* send takes some bytes of the first part, while there is room for them: what a
\* short send returns, or what a blocked one has put into the kernel so far, as
\* with the size of a file (file_transfer.c:225), which is one call.
Transmit(w, parts) ==
  LET first == Head(parts) IN
  /\ \E k \in 1..Len(first) :
       /\ k <= Capacity - Len(wire)
       /\ wire' = wire \o SubSeq(first, 1, k)
       /\ out' = [out EXCEPT ![w] =
                    IF k = Len(first)
                      THEN Tail(parts)
                      ELSE <<SubSeq(first, k + 1, Len(first))>> \o Tail(parts)]
  /\ spoiled' = (spoiled \/ \E v \in Writer \ {w} : out[v] # <<>>)

\* The first send of a message or of a file.
StartSend(w, i) ==
  /\ ~closed /\ part # "ended"
  /\ out[w] = <<>>
  /\ Len(sent) < MaxSent
  /\ Transmit(w, Parts(i))
  /\ sent' = Append(sent, i)
  /\ UNCHANGED <<closed, reading, cut>>

GoOnSending(w) ==
  /\ ~closed /\ part # "ended"
  /\ out[w] # <<>>
  /\ Transmit(w, out[w])
  /\ UNCHANGED <<sent, closed, reading, cut>>

\* The connection is gone: send returns -1, and so does send_message.
SendFails(w) ==
  /\ closed \/ part = "ended"
  /\ out[w] # <<>>
  /\ out' = [out EXCEPT ![w] = <<>>]
  /\ cut' = TRUE
  /\ UNCHANGED <<sent, wire, closed, reading, spoiled>>

\* The handler of the connection closes the socket; others may be using it.
\* If it leaves something unread itself, the kernel resets the connection, and
\* what has not yet arrived at the reader is lost.
CloseSocket ==
  /\ ~closed
  /\ closed' = TRUE
  /\ \E k \in 0..Len(wire) :
       /\ wire' = SubSeq(wire, 1, k)
       /\ cut' = (cut \/ k < Len(wire) \/ \E w \in Writer : out[w] # <<>>)
  /\ UNCHANGED <<writing, reading, spoiled>>

-----------------------------------------------------------------------------
\* The reader goes on to a part of n bytes.
Expect(p, n) == part' = p /\ need' = n /\ got' = <<>>
Deliver(i)   == delivered' = Append(delivered, i)
Stop         == part' = "ended" /\ UNCHANGED <<need, got>>

\* Mutant: the terminating 0 is given a second byte of the buffer.
GotLengthTight(s) ==
  LET n == Decode(s) IN
  /\ IF n = 0 \/ n + 1 >= BufferSize THEN Stop ELSE Expect("text", n)
  /\ UNCHANGED <<announced, delivered, spoiled>>

\* Mutant: the length is not compared with the size of the buffer.
GotLengthUnchecked(s) ==
  LET n == Decode(s) IN
  /\ IF n = 0 THEN Stop ELSE Expect("text", n)
  /\ UNCHANGED <<announced, delivered, spoiled>>

\* A length of 0 looks like the end of the connection to the caller; one
\* that is too large makes it give the connection up.
GotLength(s) ==
  LET n == Decode(s) IN
  /\ IF n = 0 \/ n >= BufferSize THEN Stop ELSE Expect("text", n)
  /\ UNCHANGED <<announced, delivered, spoiled>>

GotText(s) ==
  /\ IF IsHeader(s)
       THEN /\ Expect("size", Prefix)
            /\ announced' = s[2]
            /\ UNCHANGED delivered
       ELSE /\ Expect("length", Prefix)
            /\ Deliver(Message(s))
            /\ UNCHANGED announced
  /\ UNCHANGED spoiled

\* The two sizes differ, or the file cannot be created: the receive thread
\* returns to the messages and leaves the data for them.
Abandon ==
  /\ Expect("length", Prefix)
  /\ spoiled' = TRUE
  /\ UNCHANGED <<announced, delivered>>

GotSize(s) ==
  \/ Abandon
  \/ /\ Decode(s) = announced
     /\ IF announced = 0
          THEN Expect("length", Prefix) /\ Deliver(File(<<>>))
          ELSE Expect("data", announced) /\ UNCHANGED delivered
     /\ UNCHANGED <<announced, spoiled>>

\* The last of the data may fail to be written too.
GotData(s) ==
  \/ Abandon
  \/ /\ Expect("length", Prefix)
     /\ Deliver(File(s))
     /\ UNCHANGED <<announced, spoiled>>

\* Mutant: recv is taken to return all the bytes asked for.
ReceiveOnce ==
  /\ part # "ended" /\ wire # <<>>
  /\ \E k \in 1..(need - Len(got)) :
       /\ k <= Len(wire)
       /\ wire' = SubSeq(wire, k + 1, Len(wire))
       /\ LET s == got \o SubSeq(wire, 1, k) IN
            CASE part = "length" -> GotLength(s)
              [] part = "text"   -> GotText(s)
              [] part = "size"   -> GotSize(s)
              [] part = "data"   -> GotData(s)
  /\ UNCHANGED <<writing, closed, cut>>

\* One recv returns some of the bytes asked for; the loop calls it again
\* until the part is complete.
Receive ==
  /\ part # "ended" /\ wire # <<>>
  /\ \E k \in 1..(need - Len(got)) :
       /\ k <= Len(wire)
       /\ wire' = SubSeq(wire, k + 1, Len(wire))
       /\ LET s == got \o SubSeq(wire, 1, k) IN
            IF Len(s) < need
              THEN /\ got' = s
                   /\ UNCHANGED <<part, need, announced, delivered, spoiled>>
              ELSE CASE part = "length" -> GotLength(s)
                     [] part = "text"   -> GotText(s)
                     [] part = "size"   -> GotSize(s)
                     [] part = "data"   -> GotData(s)
  /\ UNCHANGED <<writing, closed, cut>>

\* write fails in the middle of the data: the rest is left for the messages.
WriteFails ==
  /\ part = "data" /\ got # <<>>
  /\ Abandon
  /\ UNCHANGED <<writing, wire, closed, cut>>

\* recv returns 0.
ReceiveEnd ==
  /\ part # "ended" /\ wire = <<>> /\ closed
  /\ cut' = (cut \/ part # "length" \/ got # <<>>)
  /\ Stop
  /\ UNCHANGED <<writing, wire, closed, announced, delivered, spoiled>>

\* The reading process ends or closes its socket.
Quit ==
  /\ part # "ended"
  /\ Stop
  /\ cut' = TRUE
  /\ UNCHANGED <<writing, wire, closed, announced, delivered, spoiled>>

-----------------------------------------------------------------------------
Write(w) == GoOnSending(w) \/ SendFails(w)
Read     == Receive \/ WriteFails \/ ReceiveEnd

Next ==
  \/ \E w \in Writer : Write(w) \/ \E i \in Item : StartSend(w, i)
  \/ Read \/ CloseSocket \/ Quit

\* A thread in the loop of a send goes on when it can, and the reader reads;
\* when an item is sent, and when the connection ends, is not up to them.
Fairness == WF_vars(Read) /\ \A w \in Writer : WF_vars(Write(w))

Spec == Init /\ [][Next]_vars /\ Fairness

-----------------------------------------------------------------------------
\* The types of the loops' variables: whatever the bytes are, a text that is
\* read leaves room in the buffer for the 0 written behind it
\* (server_helper.c:249), and no loop asks for more bytes than it has room for.
TypeOK ==
  /\ out \in [Writer -> Seq(Seq(Byte) \ {<<>>})]
  /\ sent \in Seq(Item) /\ Len(sent) <= MaxSent
  /\ wire \in Seq(Byte) /\ Len(wire) <= Capacity
  /\ closed \in BOOLEAN /\ spoiled \in BOOLEAN /\ cut \in BOOLEAN
  /\ part \in {"length", "text", "size", "data", "ended"}
  /\ need \in Nat /\ got \in Seq(Byte) /\ Len(got) < need
  /\ part = "text" => need \in 1..(BufferSize - 1)
  /\ part \in {"length", "size"} => need = Prefix
  /\ part = "data" => need = announced
  /\ announced \in Byte
  /\ delivered \in Seq([file : BOOLEAN, bytes : Seq(Byte)])

\* README, Network Protocol: reliable message boundaries and partial reads and
\* writes.  However sends and recvs cut the stream into pieces, the reader gets
\* the items that were sent, whole and in order, as long as no two threads'
\* items overlap on the socket and every file is read to its end.
Channel == INSTANCE MessageChannel WITH broken <- spoiled
ImplementsMessageChannel == Channel!Spec

\* Unless bytes were mixed, the reader ends only where the connection does: no
\* length that was sent is taken for the end of it or for one too large.
EndsWithConnection ==
  part = "ended" /\ ~spoiled /\ ~cut => closed /\ delivered = sent

\* The two ends of a socket never wait for each other: when nothing is in flight
\* and no thread has anything left to send, the reader is between two messages and
\* has every item.  Neither loop gives up early or asks for more than was sent.
QuietMeansDelivered ==
  part # "ended" /\ ~spoiled /\ ~cut /\ wire = <<>> /\ (\A w \in Writer : out[w] = <<>>)
    => part = "length" /\ got = <<>> /\ delivered = sent

\* What has begun to be sent arrives, also when the sender closes the socket
\* behind it: the bytes in flight and those still in the loops, unless the
\* connection is lost in the middle or mixed bytes have spoiled it.
SentIsDelivered ==
  \A n \in 1..MaxSent :
    Len(sent) >= n ~> (Len(delivered) >= n \/ spoiled \/ cut)
=============================================================================
