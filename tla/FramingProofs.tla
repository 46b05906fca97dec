--------------------------- MODULE FramingProofs ----------------------------
(***************************************************************************)
(* Proofs about Framing, for any number of writers, any base and length of *)
(* a length, and any texts and files: what is read is what was written,    *)
(* however the sends and recvs cut the stream, and so Framing implements   *)
(* MessageChannel.                                                         *)
(*                                                                         *)
(* As long as no two items overlap, there is one sequence of bytes, the    *)
(* stream, in which the items lie one behind the other (Layout), and of    *)
(* which got, wire and the parts still to be sent are three intervals that *)
(* follow each other (StreamInv).  The reader is at the part of an item    *)
(* that its variables say (Reading), so that what it has when the part is  *)
(* complete is what the writer put there.                                  *)
(***************************************************************************)
EXTENDS Framing, SequenceLemmas

-----------------------------------------------------------------------------
(***************************************************************************)
(* Lengths: htonl and ntohl.                                               *)
(***************************************************************************)
\* What holds of 0, and with n also of n + 1, holds up to N.
LEMMA UpwardInduction ==
  ASSUME NEW N \in Nat, NEW K, 0 \in K,
         \A n \in 0 .. N - 1 : n \in K => n + 1 \in K
  PROVE  \A n \in 0 .. N : n \in K
PROOF
<1> DEFINE Bad == (0 .. N) \ K
<1> SUFFICES ASSUME Bad # {} PROVE FALSE
  OBVIOUS
<1>1. Bad \subseteq Nat
  OBVIOUS
<1>2. Min(Bad) \in Bad /\ \A k \in Bad : Min(Bad) <= k
  BY <1>1, MinOfPositions
<1> DEFINE m == Min(Bad)
<1>3. m \in 0 .. N /\ m \notin K /\ m # 0
  BY <1>2
<1>4. m - 1 \in 0 .. N - 1 /\ m - 1 \notin Bad
  <2> HIDE DEF Bad
  <2>1. ~(m <= m - 1) /\ m - 1 \in 0 .. N - 1
    BY <1>3
  <2> QED BY <1>2, <2>1
<1>5. (m - 1) + 1 \in K
  BY <1>4
<1> QED BY <1>3, <1>5

\* f is v at 0, and g of what it was before at each n up to N.
IsRecursive(f, N, v, g) ==
  f = [n \in 0 .. N |-> IF n = 0 THEN v ELSE g[<<n, f[n - 1]>>]]

\* A recursive function on 0 .. N exists, and has its values where its steps stay.
LEMMA RecursiveFunction ==
  ASSUME NEW N \in Nat, NEW V, NEW v \in V, NEW g \in [(1 .. N) \X V -> V]
  PROVE  \E f \in [0 .. N -> V] : IsRecursive(f, N, v, g)
PROOF
<1> DEFINE F(f, m) == \A n \in 0 .. m : f[n] = IF n = 0 THEN v ELSE g[<<n, f[n - 1]>>]
           K == {m \in 0 .. N : \E f \in [0 .. m -> V] : F(f, m)}
<1>1. 0 \in K
  <2> DEFINE f == [n \in 0 .. 0 |-> v]
  <2>1. f \in [0 .. 0 -> V] /\ f[0] = v /\ \A n \in 0 .. 0 : n = 0
    OBVIOUS
  <2>2. F(f, 0)
    BY <2>1
  <2> HIDE DEF f, F
  <2>3. \E h \in [0 .. 0 -> V] : F(h, 0)
    BY <2>1, <2>2
  <2> QED BY <2>3
<1>2. ASSUME NEW m \in 0 .. N - 1, m \in K PROVE m + 1 \in K
  <2> PICK f \in [0 .. m -> V] : F(f, m)
    BY <1>2
  <2> DEFINE e == [n \in 0 .. m + 1 |-> IF n = m + 1 THEN g[<<m + 1, f[m]>>] ELSE f[n]]
  <2>1. m + 1 \in 1 .. N /\ f[m] \in V /\ g[<<m + 1, f[m]>>] \in V
    OBVIOUS
  <2>2. e \in [0 .. m + 1 -> V]
    BY <2>1
  <2>3. /\ e[m + 1] = g[<<m + 1, f[m]>>] /\ e[m] = f[m]
        /\ \A n \in 0 .. m : e[n] = f[n]
    OBVIOUS
  <2> HIDE DEF e
  <2>4. ASSUME NEW n \in 0 .. m + 1
        PROVE  e[n] = IF n = 0 THEN v ELSE g[<<n, e[n - 1]>>]
    <3>1. CASE n = m + 1
      <4>1. n # 0 /\ n - 1 = m
        BY <3>1
      <4> QED BY <3>1, <4>1, <2>3
    <3>2. CASE n # m + 1
      <4>1. n \in 0 .. m /\ (n # 0 => n - 1 \in 0 .. m)
        BY <3>2
      <4> QED BY <4>1, <2>3
    <3> QED BY <3>1, <3>2
  <2>5. m + 1 \in 0 .. N /\ F(e, m + 1)
    BY <2>4
  <2> QED BY <2>2, <2>5
<1>3. N \in K
  <2> HIDE DEF K
  <2> QED BY <1>1, <1>2, UpwardInduction
<1> PICK f \in [0 .. N -> V] : F(f, N)
  BY <1>3
<1>4. f = [n \in 0 .. N |-> f[n]]
  OBVIOUS
<1>5. f = [n \in 0 .. N |-> IF n = 0 THEN v ELSE g[<<n, f[n - 1]>>]]
  BY <1>4
<1> QED BY <1>5 DEF IsRecursive

\* The weights of the bytes of a length.
LEMMA PowerProperties ==
  /\ Power \in [0 .. Prefix -> Nat \ {0}]
  /\ Power[0] = 1
  /\ \A n \in 0 .. Prefix - 1 : Power[n + 1] = Base * Power[n]
PROOF
<1> DEFINE P == Nat \ {0}
           g == [x \in (1 .. Prefix) \X P |-> Base * x[2]]
           F(f) == f = [n \in 0 .. Prefix |-> IF n = 0 THEN 1 ELSE Base * f[n - 1]]
<1>0. Prefix \in Nat /\ Base \in Nat \ {0}
  BY FramingAssumption
<1>1. \A x \in P : Base * x \in P
  BY <1>0
<1>2. g \in [(1 .. Prefix) \X P -> P] /\ 1 \in P
  BY <1>1
<1>3. \A n \in 1 .. Prefix, x \in P : g[<<n, x>>] = Base * x
  OBVIOUS
<1> HIDE DEF g, P
<1>4. \E f \in [0 .. Prefix -> P] : IsRecursive(f, Prefix, 1, g)
  BY <1>0, <1>2, RecursiveFunction
<1>5. \E f : F(f) /\ f \in [0 .. Prefix -> P]
  <2> PICK f \in [0 .. Prefix -> P] : IsRecursive(f, Prefix, 1, g)
    BY <1>4
  <2>1. ASSUME NEW n \in 0 .. Prefix
        PROVE  (IF n = 0 THEN 1 ELSE g[<<n, f[n - 1]>>]) = (IF n = 0 THEN 1 ELSE Base * f[n - 1])
    <3>1. n # 0 => n \in 1 .. Prefix /\ n - 1 \in 0 .. Prefix
      BY <1>0
    <3> QED BY <3>1, <1>3
  <2>2. F(f)
    BY <2>1 DEF IsRecursive
  <2> QED BY <2>2
<1>6. F(Power)
  BY <1>5 DEF Power
<1>7. \A n \in 0 .. Prefix : Power[n] = IF n = 0 THEN 1 ELSE Base * Power[n - 1]
  BY <1>6
<1>8. DOMAIN Power = 0 .. Prefix /\ Power = [n \in 0 .. Prefix |-> Power[n]]
  BY <1>6
<1>9. Power[0] = 1 /\ \A n \in 0 .. Prefix - 1 : Power[n + 1] = Base * Power[n]
  <2>1. \A n \in 0 .. Prefix - 1 : n + 1 \in 0 .. Prefix /\ n + 1 # 0 /\ (n + 1) - 1 = n
    BY <1>0
  <2>2. 0 \in 0 .. Prefix
    BY <1>0
  <2> QED BY <1>7, <2>1, <2>2
<1> DEFINE K == {n \in 0 .. Prefix : Power[n] \in P}
<1>10. 0 \in K /\ \A n \in 0 .. Prefix - 1 : n \in K => n + 1 \in K
  BY <1>0, <1>1, <1>2, <1>9
<1>11. \A n \in 0 .. Prefix : n \in K
  <2> HIDE DEF K
  <2> QED BY <1>0, <1>10, UpwardInduction
<1>12. Power \in [0 .. Prefix -> P]
  BY <1>8, <1>11
<1> QED BY <1>9, <1>12 DEF P

\* A length has Prefix bytes.
LEMMA EncodeType ==
  ASSUME NEW n \in Nat
  PROVE  Encode(n) \in Seq(Byte) /\ Len(Encode(n)) = Prefix
PROOF
<1>0. Prefix \in Nat /\ Base \in Nat \ {0}
  BY FramingAssumption
<1>1. ASSUME NEW i \in 1 .. Prefix
      PROVE  (n \div Power[Prefix - i]) % Base \in Byte
  <2>1. Power[Prefix - i] \in Nat \ {0}
    BY <1>0, PowerProperties
  <2>2. n \div Power[Prefix - i] \in Nat
    BY <2>1
  <2>3. (n \div Power[Prefix - i]) % Base \in 0 .. Base - 1
    BY <1>0, <2>2
  <2> QED BY <2>3 DEF Byte
<1>2. Encode(n) \in [1 .. Prefix -> Byte]
  BY <1>1 DEF Encode
<1> QED BY <1>0, <1>2

\* What the receiver computes, one byte after the other.
LEMMA DecodeProperties ==
  ASSUME NEW s \in Seq(Byte)
  PROVE  \E v \in [0 .. Len(s) -> Nat] :
           /\ v[0] = 0
           /\ \A i \in 0 .. Len(s) - 1 : v[i + 1] = v[i] * Base + s[i + 1]
           /\ Decode(s) = v[Len(s)]
PROOF
<1> DEFINE N == Len(s)
           g == [x \in (1 .. N) \X Nat |-> x[2] * Base + s[x[1]]]
           F(f) == f = [i \in 0 .. N |-> IF i = 0 THEN 0 ELSE f[i - 1] * Base + s[i]]
           value == CHOOSE f : F(f)
<1>0. N \in Nat /\ Base \in Nat
  BY FramingAssumption
<1>1. \A i \in 1 .. N : s[i] \in Nat
  <2>1. \A i \in 1 .. N : s[i] \in Byte
    BY ElementOfSeq
  <2> QED BY <2>1, <1>0 DEF Byte
<1>2. \A i \in 1 .. N, x \in Nat : x * Base + s[i] \in Nat
  BY <1>0, <1>1
<1>3. g \in [(1 .. N) \X Nat -> Nat]
  BY <1>2
<1>4. \A i \in 1 .. N, x \in Nat : g[<<i, x>>] = x * Base + s[i]
  OBVIOUS
<1> HIDE DEF g, N
<1>5. \E f \in [0 .. N -> Nat] : IsRecursive(f, N, 0, g)
  BY <1>0, <1>3, RecursiveFunction
<1>6. \E f : F(f)
  <2> PICK f \in [0 .. N -> Nat] : IsRecursive(f, N, 0, g)
    BY <1>5
  <2>1. ASSUME NEW n \in 0 .. N
        PROVE  (IF n = 0 THEN 0 ELSE g[<<n, f[n - 1]>>])
               = (IF n = 0 THEN 0 ELSE f[n - 1] * Base + s[n])
    <3>1. n # 0 => n \in 1 .. N /\ n - 1 \in 0 .. N
      BY <1>0
    <3> QED BY <3>1, <1>4
  <2>2. F(f)
    BY <2>1 DEF IsRecursive
  <2> QED BY <2>2
<1>7. F(value)
  BY <1>6
<1>8. Decode(s) = value[N]
  BY DEF Decode, N
<1> HIDE DEF value
<1>9. value = [i \in 0 .. N |-> value[i]]
      /\ \A n \in 0 .. N : value[n] = IF n = 0 THEN 0 ELSE value[n - 1] * Base + s[n]
  BY <1>7
<1>10. value[0] = 0 /\ \A i \in 0 .. N - 1 : value[i + 1] = value[i] * Base + s[i + 1]
  <2>1. \A n \in 0 .. N - 1 : n + 1 \in 0 .. N /\ n + 1 # 0 /\ (n + 1) - 1 = n
    BY <1>0
  <2>2. 0 \in 0 .. N
    BY <1>0
  <2> QED BY <1>9, <2>1, <2>2
<1> DEFINE K == {n \in 0 .. N : value[n] \in Nat}
<1>11. 0 \in K /\ \A n \in 0 .. N - 1 : n \in K => n + 1 \in K
  <2>1. ASSUME NEW n \in 0 .. N - 1, value[n] \in Nat PROVE value[n + 1] \in Nat
    <3>1. n + 1 \in 1 .. N
      BY <1>0
    <3> QED BY <1>2, <1>10, <2>1, <3>1
  <2> QED BY <1>0, <1>10, <2>1
<1>12. \A n \in 0 .. N : n \in K
  <2> HIDE DEF K
  <2> QED BY <1>0, <1>11, UpwardInduction
<1>13. value \in [0 .. N -> Nat]
  BY <1>9, <1>12
<1> QED BY <1>8, <1>10, <1>13 DEF N

\* The bytes of a length give a number, whatever they are.
LEMMA DecodeType ==
  ASSUME NEW s \in Seq(Byte)
  PROVE  Decode(s) \in Nat
PROOF
<1>1. Len(s) \in Nat
  BY LenProperties
<1> QED BY <1>1, DecodeProperties

\* What n is without its last digits, from what it is without one more.
LEMMA NextDigit ==
  ASSUME NEW n \in Nat, NEW p \in Nat \ {0}, NEW b \in Nat \ {0}
  PROVE  (n \div (b * p)) * b + ((n \div p) % b) = n \div p
PROOF
<1> DEFINE m == n \div p
<1>1. m \in Nat /\ n \div (b * p) = m \div b
  OBVIOUS
<1> HIDE DEF m
<1>2. (m \div b) * b + (m % b) = m
  BY <1>1
<1> QED BY <1>1, <1>2 DEF m

\* No whole part of a smaller number.
LEMMA SmallQuotient ==
  ASSUME NEW n \in Nat, NEW p \in Nat \ {0}, n < p
  PROVE  n \div p = 0
PROOF
  OBVIOUS

\* The receiver gets the length that the sender has sent, if Prefix bytes are enough
\* for it.
LEMMA DecodeEncode ==
  ASSUME NEW n \in 0 .. Power[Prefix] - 1
  PROVE  Decode(Encode(n)) = n
PROOF
<1> DEFINE s == Encode(n)
<1>0. /\ Prefix \in Nat /\ Base \in Nat \ {0} /\ n \in Nat
      /\ Power[Prefix] \in Nat \ {0}
  BY FramingAssumption, PowerProperties
<1>1. s \in Seq(Byte) /\ Len(s) = Prefix
  BY <1>0, EncodeType
<1>2. \A i \in 1 .. Prefix : s[i] = (n \div Power[Prefix - i]) % Base
  BY DEF Encode
<1> HIDE DEF s
<1> PICK v \in [0 .. Prefix -> Nat] :
      /\ v[0] = 0
      /\ \A i \in 0 .. Prefix - 1 : v[i + 1] = v[i] * Base + s[i + 1]
      /\ Decode(s) = v[Prefix]
  BY <1>1, DecodeProperties
<1> DEFINE K == {i \in 0 .. Prefix : v[i] = n \div Power[Prefix - i]}
<1>3. 0 \in K
  <2> DEFINE p == Power[Prefix]
  <2>1. p \in Nat \ {0} /\ n < p
    BY <1>0
  <2> HIDE DEF p
  <2>2. n \div p = 0
    BY <1>0, <2>1, SmallQuotient
  <2> QED BY <1>0, <2>2 DEF p
<1>4. ASSUME NEW i \in 0 .. Prefix - 1, i \in K PROVE i + 1 \in K
  <2> DEFINE k == Prefix - (i + 1)
             p == Power[k]
  <2>1. k \in 0 .. Prefix - 1 /\ i + 1 \in 1 .. Prefix /\ k + 1 = Prefix - i
    BY <1>0
  <2>2. p \in Nat \ {0} /\ Power[Prefix - i] = Base * p
    <3> HIDE DEF k
    <3>1. Power[k + 1] = Base * Power[k]
      BY <2>1, PowerProperties
    <3>2. Power[k] \in Nat \ {0}
      BY <1>0, <2>1, PowerProperties
    <3> QED BY <2>1, <3>1, <3>2
  <2>3. v[i + 1] = (n \div Power[Prefix - i]) * Base + ((n \div p) % Base)
    BY <1>2, <1>4, <2>1
  <2> HIDE DEF p
  <2>4. v[i + 1] = n \div p
    BY ZenonT(60), <1>0, <2>2, <2>3, NextDigit
  <2> QED BY <2>1, <2>4 DEF p
<1>5. Prefix \in K
  <2> HIDE DEF K
  <2>1. \A i \in 0 .. Prefix : i \in K
    BY <1>0, <1>3, <1>4, UpwardInduction
  <2> QED BY <1>0, <2>1
<1>6. v[Prefix] = n
  <2>1. Prefix - Prefix = 0 /\ n \div 1 = n
    BY <1>0
  <2> QED BY <1>5, <2>1, PowerProperties
<1> QED BY <1>6 DEF s

-----------------------------------------------------------------------------
(***************************************************************************)
(* The parts of an item.                                                   *)
(***************************************************************************)
Piece == Seq(Byte) \ {<<>>}

\* What the base and the sizes of the buffers are.
LEMMA Sizes ==
  /\ Base \in Nat /\ Prefix \in Nat \ {0} /\ Mark \in Byte /\ 2 \in Nat
  /\ Power[Prefix] \in Nat \ {0} /\ Base <= Power[Prefix]
  /\ BufferSize \in Nat /\ BufferSize >= 3 /\ BufferSize <= Power[Prefix]
  /\ Capacity \in Nat /\ MaxSent \in Nat
PROOF
<1>1. Base \in Nat \ {0, 1} /\ Prefix \in Nat \ {0}
  BY FramingAssumption
<1>2. Power[Prefix] \in Nat \ {0}
  BY <1>1, PowerProperties
<1>3. Base <= Power[Prefix]
  <2> DEFINE k == Prefix - 1
  <2>1. k \in 0 .. Prefix - 1 /\ k \in 0 .. Prefix /\ k + 1 = Prefix
    BY <1>1
  <2> HIDE DEF k
  <2>2. Power[k] \in Nat \ {0} /\ Power[k + 1] = Base * Power[k]
    BY <2>1, PowerProperties
  <2> DEFINE p == Power[k]
  <2> HIDE DEF p
  <2>3. p \in Nat \ {0} /\ Power[Prefix] = Base * p
    BY <2>1, <2>2 DEF p
  <2>4. Base * p >= Base
    BY <1>1, <2>3
  <2> QED BY <2>3, <2>4
<1>4. Base - 1 \in Byte
  BY <1>1 DEF Byte
<1> QED BY <1>1, <1>2, <1>3, <1>4, FramingAssumption DEF Mark

\* Text and data are not empty, or fit in the announced size.
LEMMA TextIs ==
  ASSUME NEW t \in Text
  PROVE  /\ t \in Piece /\ Len(t) \in Nat \ {0} /\ Len(t) < BufferSize
         /\ Len(t) \in 0 .. Power[Prefix] - 1 /\ ~IsHeader(t)
PROOF
<1>1. t \in Seq(Byte) /\ Len(t) \in 1 .. BufferSize - 1 /\ t[1] # Mark
  BY FramingAssumption
<1>2. Len(t) \in Nat \ {0} /\ Len(t) < BufferSize /\ Len(t) \in 0 .. Power[Prefix] - 1
  BY <1>1, Sizes
<1> QED BY <1>1, <1>2, EmptySeq DEF Piece, IsHeader

\* The size of a file is a byte of its header and can be sent as a length.
LEMMA DataIs ==
  ASSUME NEW d \in Data
  PROVE  /\ d \in Seq(Byte) /\ Len(d) \in Nat /\ (Len(d) = 0 <=> d = <<>>)
         /\ Len(d) \in Byte /\ Len(d) \in 0 .. Power[Prefix] - 1
         /\ Header(d) \in Piece /\ Len(Header(d)) = 2
         /\ IsHeader(Header(d)) /\ Header(d)[2] = Len(d)
PROOF
<1>1. d \in Seq(Byte) /\ Len(d) < Base
  BY FramingAssumption
<1>2. Len(d) \in Nat /\ (Len(d) = 0 <=> d = <<>>)
  BY <1>1, EmptySeq
<1>3. Len(d) \in Byte /\ Len(d) \in 0 .. Power[Prefix] - 1
  BY <1>1, <1>2, Sizes DEF Byte
<1>4. Header(d) \in Piece /\ Len(Header(d)) = 2 /\ Header(d)[1] = Mark /\ Header(d)[2] = Len(d)
  BY <1>3, Sizes DEF Header, Piece
<1> QED BY <1>1, <1>2, <1>3, <1>4 DEF IsHeader

\* The bytes of a length are a part that is not empty.
LEMMA EncodePiece ==
  ASSUME NEW n \in Nat
  PROVE  Encode(n) \in Piece /\ Len(Encode(n)) = Prefix
PROOF
<1>1. Encode(n) \in Seq(Byte) /\ Len(Encode(n)) = Prefix
  BY EncodeType
<1>2. Encode(n) # <<>>
  <2>1. Len(<<>>) = 0 /\ Prefix # 0
    BY Sizes
  <2> QED BY <1>1, <2>1
<1> QED BY <1>1, <1>2 DEF Piece

\* A message is sent in two parts.
LEMMA MessageParts ==
  ASSUME NEW t \in Text, NEW P, P = Parts(Message(t))
  PROVE  /\ P \in Seq(Piece) /\ Len(P) = 2
         /\ P[1] = Encode(Len(t)) /\ P[2] = t
PROOF
<1>1. P = <<Encode(Len(t)), t>>
  BY DEF Parts, Message, Framed
<1>2. Encode(Len(t)) \in Piece /\ t \in Piece
  BY TextIs, EncodePiece
<1> QED BY <1>1, <1>2

\* A file is sent in three parts, or in four if it has data.
LEMMA FileParts ==
  ASSUME NEW d \in Data, NEW P, P = Parts(File(d))
  PROVE  /\ P \in Seq(Piece) /\ Len(P) = IF d = <<>> THEN 3 ELSE 4
         /\ P[1] = Encode(2) /\ P[2] = Header(d) /\ P[3] = Encode(Len(d))
         /\ d # <<>> => P[4] = d
PROOF
<1>1. P = (<<Encode(Len(Header(d))), Header(d)>> \o <<Encode(Len(d))>>)
            \o (IF d = <<>> THEN <<>> ELSE <<d>>)
  BY DEF Parts, File, Framed
<1>2. /\ Len(Header(d)) = 2 /\ Header(d) \in Piece
      /\ Encode(2) \in Piece /\ Encode(Len(d)) \in Piece
      /\ d # <<>> => d \in Piece
  BY DataIs, Sizes, EncodePiece DEF Piece
<1> DEFINE a == <<Encode(2), Header(d)>>
           b == a \o <<Encode(Len(d))>>
<1>3. a \in Seq(Piece) /\ Len(a) = 2 /\ a[1] = Encode(2) /\ a[2] = Header(d)
  BY <1>2
<1>4. P = b \o (IF d = <<>> THEN <<>> ELSE <<d>>)
  BY <1>1, <1>2
<1> HIDE DEF a
<1>5. /\ b \in Seq(Piece) /\ Len(b) = 3
      /\ b[1] = Encode(2) /\ b[2] = Header(d) /\ b[3] = Encode(Len(d))
  <2> DEFINE e == Encode(Len(d))
  <2>1. b = a \o <<e>> /\ e \in Piece
    BY <1>2
  <2> HIDE DEF b, e
  <2>2. /\ b \in Seq(Piece) /\ Len(b) = Len(a) + 1 /\ b[Len(a) + 1] = e
        /\ \A i \in 1 .. Len(a) : b[i] = a[i]
    BY <1>3, <2>1, OneMore
  <2> QED BY <1>3, <2>2 DEF e
<1> HIDE DEF b
<1>6. CASE d = <<>>
  <2>1. P = b
    BY <1>4, <1>5, <1>6, ConcatEmptySeq
  <2> QED BY <2>1, <1>5, <1>6
<1>7. CASE d # <<>>
  <2>1. P = b \o <<d>>
    BY <1>4, <1>7
  <2>2. /\ P \in Seq(Piece) /\ Len(P) = Len(b) + 1 /\ P[Len(b) + 1] = d
        /\ \A i \in 1 .. Len(b) : P[i] = b[i]
    BY SMTT(40), <1>2, <1>5, <1>7, <2>1, OneMore
  <2> QED BY <1>5, <1>7, <2>2
<1> QED BY <1>6, <1>7

\* The parts of an item are not empty, and there is one at least.
LEMMA ItemParts ==
  ASSUME NEW i \in Item
  PROVE  /\ Parts(i) \in Seq(Piece) /\ Len(Parts(i)) \in Nat \ {0}
         /\ i \in [file : BOOLEAN, bytes : Seq(Byte)]
PROOF
<1>1. CASE \E t \in Text : i = Message(t)
  <2> PICK t \in Text : i = Message(t)
    BY <1>1
  <2>1. Parts(i) \in Seq(Piece) /\ Len(Parts(i)) = 2
    BY MessageParts
  <2>2. i \in [file : BOOLEAN, bytes : Seq(Byte)]
    BY TextIs DEF Message, Piece
  <2> QED BY <2>1, <2>2
<1>2. CASE \E d \in Data : i = File(d)
  <2> PICK d \in Data : i = File(d)
    BY <1>2
  <2>1. Parts(i) \in Seq(Piece) /\ Len(Parts(i)) = IF d = <<>> THEN 3 ELSE 4
    BY FileParts
  <2>2. i \in [file : BOOLEAN, bytes : Seq(Byte)]
    BY DataIs DEF File
  <2> QED BY <2>1, <2>2
<1> QED BY <1>1, <1>2 DEF Item

-----------------------------------------------------------------------------
(***************************************************************************)
(* What a send and a recv move.                                            *)
(***************************************************************************)
\* The first k elements of a sequence, and the others.
LEMMA Cuts ==
  ASSUME NEW S, NEW s \in Seq(S), NEW k \in 0 .. Len(s)
  PROVE  /\ SubSeq(s, 1, k) \in Seq(S) /\ Len(SubSeq(s, 1, k)) = k
         /\ \A x \in 1 .. k : SubSeq(s, 1, k)[x] = s[x]
         /\ SubSeq(s, k + 1, Len(s)) \in Seq(S)
         /\ Len(SubSeq(s, k + 1, Len(s))) = Len(s) - k
         /\ \A x \in 1 .. Len(s) - k : SubSeq(s, k + 1, Len(s))[x] = s[k + x]
PROOF
<1>0. Len(s) \in Nat
  BY LenProperties
<1>1. /\ SubSeq(s, 1, k) \in Seq(S) /\ Len(SubSeq(s, 1, k)) = k
      /\ \A x \in 1 .. k : SubSeq(s, 1, k)[x] = s[x]
  <2>1. CASE k = 0
    BY <1>0, <2>1, SubSeqProperties
  <2>2. CASE k # 0
    BY <1>0, <2>2, SubSeqProperties
  <2> QED BY <2>1, <2>2
<1>2. /\ SubSeq(s, k + 1, Len(s)) \in Seq(S)
      /\ Len(SubSeq(s, k + 1, Len(s))) = Len(s) - k
      /\ \A x \in 1 .. Len(s) - k : SubSeq(s, k + 1, Len(s))[x] = s[k + x]
  <2>1. CASE k = Len(s)
    BY <1>0, <2>1, SubSeqProperties
  <2>2. CASE k < Len(s)
    BY <1>0, <2>2, SubSeqProperties
  <2> QED BY <1>0, <2>1, <2>2
<1> QED BY <1>1, <1>2

\* What is left of some parts when k bytes of the first have been sent.
Rest(parts, k, rest) ==
  /\ rest \in Seq(Piece)
  /\ k = Len(parts[1]) => /\ Len(rest) = Len(parts) - 1
                          /\ \A m \in 1 .. Len(rest) : rest[m] = parts[m + 1]
  /\ k < Len(parts[1]) => /\ Len(rest) = Len(parts)
                          /\ Len(rest[1]) = Len(parts[1]) - k
                          /\ \A x \in 1 .. Len(rest[1]) : rest[1][x] = parts[1][k + x]
                          /\ \A m \in 2 .. Len(rest) : rest[m] = parts[m]

\* The bytes of s stand in b from r + 1 on.
Holds(s, b, r) == \A x \in 1 .. Len(s) : s[x] = b[r + x]

\* The effect of Transmit, element by element.
LEMMA Transmits ==
  ASSUME TypeOK, NEW w \in Writer, NEW parts \in Seq(Piece), parts # <<>>,
         Transmit(w, parts)
  PROVE  \E k \in 1 .. Len(parts[1]) : \E rest :
           /\ Rest(parts, k, rest) /\ out' = [out EXCEPT ![w] = rest]
           /\ wire' \in Seq(Byte) /\ Len(wire') = Len(wire) + k
           /\ Len(wire') <= Capacity
           /\ Holds(wire, wire', 0)
           /\ \A x \in 1 .. k : wire'[Len(wire) + x] = parts[1][x]
           /\ spoiled' = (spoiled \/ \E v \in Writer \ {w} : out[v] # <<>>)
PROOF
<1> DEFINE first == Head(parts)
           L == Len(first)
<1>0. wire \in Seq(Byte) /\ Len(wire) \in Nat /\ Capacity \in Nat
  BY Sizes, LenProperties DEF TypeOK
<1>1. first = parts[1] /\ first \in Seq(Byte) /\ first # <<>>
  BY ElementOfSeq, EmptySeq DEF Piece
<1>2. L \in Nat \ {0}
  BY <1>1, EmptySeq
<1>3. /\ Tail(parts) \in Seq(Piece) /\ Len(Tail(parts)) = Len(parts) - 1
      /\ \A m \in 1 .. Len(Tail(parts)) : Tail(parts)[m] = parts[m + 1]
      /\ Len(parts) \in Nat \ {0}
  BY EmptySeq
<1> DEFINE Left(k) == IF k = Len(first) THEN Tail(parts)
                      ELSE <<SubSeq(first, k + 1, Len(first))>> \o Tail(parts)
<1> PICK k \in 1 .. Len(first) :
      /\ k <= Capacity - Len(wire)
      /\ wire' = wire \o SubSeq(first, 1, k)
      /\ out' = [out EXCEPT ![w] = Left(k)]
  BY DEF Transmit
<1>4. spoiled' = (spoiled \/ \E v \in Writer \ {w} : out[v] # <<>>)
  BY DEF Transmit
<1> DEFINE a == SubSeq(first, 1, k)
           z == SubSeq(first, k + 1, Len(first))
<1> HIDE DEF first
<1>5. k \in 0 .. L /\ k \in Nat
  BY <1>2
<1>6. /\ a \in Seq(Byte) /\ Len(a) = k /\ \A x \in 1 .. k : a[x] = first[x]
      /\ z \in Seq(Byte) /\ Len(z) = L - k /\ \A x \in 1 .. L - k : z[x] = first[k + x]
  BY SMTT(40), <1>1, <1>5, Cuts
<1>7. wire' = wire \o a
  OBVIOUS
<1>8. Left(k) = IF k = L THEN Tail(parts) ELSE <<z>> \o Tail(parts)
  OBVIOUS
<1> HIDE DEF a, z, Left
<1>9. /\ wire' \in Seq(Byte) /\ Len(wire') = Len(wire) + k
      /\ \A x \in 1 .. Len(wire) + k :
           wire'[x] = IF x <= Len(wire) THEN wire[x] ELSE a[x - Len(wire)]
  BY SMTT(40), <1>0, <1>6, <1>7, ConcatProperties
<1>10. Holds(wire, wire', 0) /\ Len(wire') <= Capacity
  BY <1>0, <1>5, <1>9 DEF Holds
<1>11. \A x \in 1 .. k : wire'[Len(wire) + x] = parts[1][x]
  <2> SUFFICES ASSUME NEW x \in 1 .. k
               PROVE  wire'[Len(wire) + x] = parts[1][x]
    OBVIOUS
  <2>1. Len(wire) + x \in 1 .. Len(wire) + k /\ ~(Len(wire) + x <= Len(wire))
        /\ (Len(wire) + x) - Len(wire) = x
    BY <1>0, <1>5
  <2> QED BY <1>1, <1>6, <1>9, <2>1
<1>12. Rest(parts, k, Left(k))
  <2>1. CASE k = L
    <3>1. Left(k) = Tail(parts)
      BY <1>8, <2>1
    <3>2. k = Len(parts[1]) /\ ~(k < Len(parts[1]))
      BY <1>1, <1>2, <2>1
    <3> QED BY <1>3, <3>1, <3>2 DEF Rest
  <2>2. CASE k < L
    <3>1. z \in Piece
      <4>1. Len(z) # 0 /\ Len(<<>>) = 0
        BY <1>2, <1>5, <1>6, <2>2
      <4> QED BY <1>6, <4>1 DEF Piece
    <3> DEFINE rest == <<z>> \o Tail(parts)
    <3>2. rest = <<z>> \o Tail(parts)
      OBVIOUS
    <3>3. Left(k) = rest
      BY <1>8, <2>2, <1>2
    <3> HIDE DEF rest
    <3>4. /\ rest \in Seq(Piece) /\ Len(rest) = Len(Tail(parts)) + 1 /\ rest[1] = z
          /\ \A m \in 1 .. Len(Tail(parts)) : rest[m + 1] = Tail(parts)[m]
      BY <1>3, <3>1, <3>2, Prepended
    <3>5. Len(rest) = Len(parts)
      BY <1>3, <3>4
    <3>6. ASSUME NEW m \in 2 .. Len(rest) PROVE rest[m] = parts[m]
      <4>1. m - 1 \in 1 .. Len(Tail(parts)) /\ (m - 1) + 1 = m
        BY <1>3, <3>5
      <4> QED BY <1>3, <3>4, <4>1
    <3>8. /\ Len(rest) = Len(parts)
          /\ Len(rest[1]) = Len(parts[1]) - k
          /\ \A x \in 1 .. Len(rest[1]) : rest[1][x] = parts[1][k + x]
          /\ \A m \in 2 .. Len(rest) : rest[m] = parts[m]
      BY <1>1, <1>6, <3>4, <3>5, <3>6
    <3>9. k # Len(parts[1])
      BY <1>1, <1>2, <2>2
    <3> QED BY <3>3, <3>4, <3>8, <3>9 DEF Rest
  <2> QED BY <1>2, <2>1, <2>2
<1>13. k \in 1 .. Len(parts[1])
  BY <1>1
<1> QED BY <1>4, <1>9, <1>10, <1>11, <1>12, <1>13

\* The reader has got all the bytes of a part.
Completed(s) ==
  \/ part = "length" /\ GotLength(s)
  \/ part = "text" /\ GotText(s)
  \/ part = "size" /\ GotSize(s)
  \/ part = "data" /\ GotData(s)

\* The effect of Receive, element by element.
LEMMA Receives ==
  ASSUME TypeOK, Receive
  PROVE  \E k \in 1 .. Len(wire), s \in Seq(Byte) :
           /\ Len(s) = Len(got) + k /\ Holds(got, s, 0)
           /\ \A x \in 1 .. k : s[Len(got) + x] = wire[x]
           /\ wire' \in Seq(Byte) /\ Len(wire') = Len(wire) - k
           /\ \A x \in 1 .. Len(wire) - k : wire'[x] = wire[k + x]
           /\ \/ /\ Len(s) < need /\ got' = s
                 /\ UNCHANGED <<part, need, announced, delivered, spoiled>>
              \/ Len(s) = need /\ Completed(s)
PROOF
<1>0. /\ wire \in Seq(Byte) /\ Len(wire) \in Nat
      /\ got \in Seq(Byte) /\ Len(got) \in Nat /\ need \in Nat /\ Len(got) < need
  BY LenProperties DEF TypeOK
<1> PICK k \in 1 .. (need - Len(got)) :
      /\ k <= Len(wire)
      /\ wire' = SubSeq(wire, k + 1, Len(wire))
      /\ LET s == got \o SubSeq(wire, 1, k) IN
           IF Len(s) < need
             THEN /\ got' = s
                  /\ UNCHANGED <<part, need, announced, delivered, spoiled>>
             ELSE CASE part = "length" -> GotLength(s)
                    [] part = "text"   -> GotText(s)
                    [] part = "size"   -> GotSize(s)
                    [] part = "data"   -> GotData(s)
  BY DEF Receive
<1> DEFINE a == SubSeq(wire, 1, k)
           s == got \o a
<1>1. /\ k \in 0 .. Len(wire) /\ k \in 1 .. Len(wire) /\ k \in Nat
      /\ k <= need - Len(got)
  BY <1>0
<1>2. /\ a \in Seq(Byte) /\ Len(a) = k /\ \A x \in 1 .. k : a[x] = wire[x]
      /\ wire' \in Seq(Byte) /\ Len(wire') = Len(wire) - k
      /\ \A x \in 1 .. Len(wire) - k : wire'[x] = wire[k + x]
  BY SMTT(40), <1>0, <1>1, Cuts
<1>3. IF Len(s) < need
        THEN /\ got' = s
             /\ UNCHANGED <<part, need, announced, delivered, spoiled>>
        ELSE CASE part = "length" -> GotLength(s)
               [] part = "text"   -> GotText(s)
               [] part = "size"   -> GotSize(s)
               [] part = "data"   -> GotData(s)
  OBVIOUS
<1> HIDE DEF a
<1>4. /\ s \in Seq(Byte) /\ Len(s) = Len(got) + k
      /\ \A x \in 1 .. Len(got) + k :
           s[x] = IF x <= Len(got) THEN got[x] ELSE a[x - Len(got)]
  BY <1>0, <1>2, ConcatProperties
<1> HIDE DEF s
<1>5. Holds(got, s, 0)
  BY <1>0, <1>1, <1>4 DEF Holds
<1>6. \A x \in 1 .. k : s[Len(got) + x] = wire[x]
  <2> SUFFICES ASSUME NEW x \in 1 .. k PROVE s[Len(got) + x] = wire[x]
    OBVIOUS
  <2>1. Len(got) + x \in 1 .. Len(got) + k /\ ~(Len(got) + x <= Len(got))
        /\ (Len(got) + x) - Len(got) = x
    BY <1>0, <1>1
  <2> QED BY <1>2, <1>4, <2>1
<1>7. \/ /\ Len(s) < need /\ got' = s
         /\ UNCHANGED <<part, need, announced, delivered, spoiled>>
      \/ Len(s) = need /\ Completed(s)
  <2>1. CASE Len(s) < need
    BY <1>3, <2>1
  <2>2. CASE ~(Len(s) < need)
    <3>1. Len(s) = need
      BY <1>0, <1>1, <1>4, <2>2
    <3>2. part \in {"length", "text", "size", "data"}
      BY DEF Receive, TypeOK
    <3>3. Completed(s)
      BY <1>3, <2>2, <3>2 DEF Completed
    <3> QED BY <3>1, <3>3
  <2> QED BY <2>1, <2>2
<1> QED BY <1>1, <1>2, <1>4, <1>5, <1>6, <1>7

-----------------------------------------------------------------------------
(***************************************************************************)
(* Types.                                                                  *)
(***************************************************************************)
Delivery == [file : BOOLEAN, bytes : Seq(Byte)]

\* The part of TypeOK about the reader.
ReaderTypes ==
  /\ part \in {"length", "text", "size", "data", "ended"}
  /\ need \in Nat /\ got \in Seq(Byte) /\ Len(got) < need
  /\ part = "text" => need \in 1 .. (BufferSize - 1)
  /\ part \in {"length", "size"} => need = Prefix
  /\ part = "data" => need = announced
  /\ announced \in Byte
  /\ delivered \in Seq(Delivery)

\* The reader goes on to a part, or stops.
LEMMA ExpectTypes ==
  ASSUME NEW p, NEW n \in Nat \ {0}, Expect(p, n)
  PROVE  part' = p /\ need' = n /\ got' = <<>> /\ need' \in Nat
         /\ got' \in Seq(Byte) /\ Len(got') = 0 /\ Len(got') < need'
PROOF
  BY DEF Expect

\* A part that is complete leads to the next one.
LEMMA CompletedTypes ==
  ASSUME TypeOK, NEW s \in Seq(Byte), Len(s) = need, Completed(s)
  PROVE  ReaderTypes' /\ spoiled' \in BOOLEAN
PROOF
<1>0. ReaderTypes /\ spoiled \in BOOLEAN
  BY DEF TypeOK, ReaderTypes, Delivery
<1>1. CASE part = "length" /\ GotLength(s)
  <2> DEFINE n == Decode(s)
  <2>1. n \in Nat
    BY DecodeType
  <2>2. /\ IF n = 0 \/ n >= BufferSize THEN Stop ELSE Expect("text", n)
        /\ UNCHANGED <<announced, delivered, spoiled>>
    BY <1>1 DEF GotLength
  <2> HIDE DEF n
  <2>3. CASE n = 0 \/ n >= BufferSize
    BY <1>0, <2>2, <2>3 DEF Stop, ReaderTypes
  <2>4. CASE ~(n = 0 \/ n >= BufferSize)
    <3>1. n \in Nat \ {0} /\ n \in 1 .. BufferSize - 1 /\ Expect("text", n)
      BY <2>1, <2>2, <2>4, Sizes
    <3>2. /\ part' = "text" /\ need' = n /\ need' \in Nat
          /\ got' \in Seq(Byte) /\ Len(got') < need'
      BY <3>1, ExpectTypes
    <3> QED BY <1>0, <2>2, <3>1, <3>2 DEF ReaderTypes
  <2> QED BY <2>3, <2>4
<1>2. ASSUME UNCHANGED announced, delivered' \in Seq(Delivery),
             Expect("length", Prefix)
      PROVE  ReaderTypes'
  <2>1. /\ part' = "length" /\ need' = Prefix /\ need' \in Nat
        /\ got' \in Seq(Byte) /\ Len(got') < need'
    BY <1>2, Sizes, ExpectTypes
  <2> QED BY <1>0, <1>2, <2>1 DEF ReaderTypes
<1>3. ASSUME NEW i \in Delivery, Deliver(i) PROVE delivered' \in Seq(Delivery)
  BY <1>0, <1>3 DEF Deliver, ReaderTypes
<1>4. Message(s) \in Delivery /\ File(s) \in Delivery /\ File(<<>>) \in Delivery
  BY DEF Message, File, Delivery
<1>5. ASSUME Abandon PROVE ReaderTypes' /\ spoiled' \in BOOLEAN
  <2>1. UNCHANGED announced /\ delivered' \in Seq(Delivery)
        /\ Expect("length", Prefix) /\ spoiled' = TRUE
    BY <1>0, <1>5 DEF Abandon, ReaderTypes
  <2> QED BY <1>2, <2>1
<1>6. CASE part = "text" /\ GotText(s)
  <2>1. CASE IsHeader(s)
    <3>1. Expect("size", Prefix) /\ announced' = s[2] /\ UNCHANGED <<delivered, spoiled>>
      BY <1>6, <2>1 DEF GotText
    <3>2. s[2] \in Byte
      <4>1. 2 \in 1 .. Len(s)
        BY <2>1 DEF IsHeader
      <4> QED BY <4>1, ElementOfSeq
    <3>3. /\ part' = "size" /\ need' = Prefix /\ need' \in Nat
          /\ got' \in Seq(Byte) /\ Len(got') < need'
      BY <3>1, Sizes, ExpectTypes
    <3> QED BY <1>0, <3>1, <3>2, <3>3 DEF ReaderTypes
  <2>2. CASE ~IsHeader(s)
    <3>1. /\ Expect("length", Prefix) /\ Deliver(Message(s))
          /\ UNCHANGED <<announced, spoiled>>
      BY <1>6, <2>2 DEF GotText
    <3> QED BY <1>0, <1>2, <1>3, <1>4, <3>1
  <2> QED BY <2>1, <2>2
<1>7. CASE part = "size" /\ GotSize(s) /\ ~Abandon
  <2>1. UNCHANGED <<announced, spoiled>>
    BY <1>7 DEF GotSize
  <2>2. CASE announced = 0
    <3>1. Expect("length", Prefix) /\ Deliver(File(<<>>))
      BY <1>7, <2>2 DEF GotSize
    <3> QED BY <1>0, <1>2, <1>3, <1>4, <2>1, <3>1
  <2>3. CASE announced # 0
    <3>1. Expect("data", announced) /\ UNCHANGED delivered
      BY <1>7, <2>3 DEF GotSize
    <3>2. announced \in Nat \ {0}
      BY <1>0, <2>3, Sizes DEF ReaderTypes, Byte
    <3>3. /\ part' = "data" /\ need' = announced /\ need' \in Nat
          /\ got' \in Seq(Byte) /\ Len(got') < need'
      BY <3>1, <3>2, ExpectTypes
    <3> QED BY <1>0, <2>1, <3>1, <3>3 DEF ReaderTypes
  <2> QED BY <2>2, <2>3
<1>8. CASE part = "data" /\ GotData(s) /\ ~Abandon
  <2>1. /\ Expect("length", Prefix) /\ Deliver(File(s))
        /\ UNCHANGED <<announced, spoiled>>
    BY <1>8 DEF GotData
  <2> QED BY <1>0, <1>2, <1>3, <1>4, <2>1
<1> QED BY <1>1, <1>5, <1>6, <1>7, <1>8 DEF Completed

\* The part of TypeOK about the writers, the kernel and the history.
StreamTypes ==
  /\ out \in [Writer -> Seq(Piece)]
  /\ sent \in Seq(Item) /\ Len(sent) <= MaxSent
  /\ wire \in Seq(Byte) /\ Len(wire) <= Capacity
  /\ closed \in BOOLEAN /\ spoiled \in BOOLEAN /\ cut \in BOOLEAN

\* TypeOK is the two parts.
LEMMA TypesOfParts ==
  /\ TypeOK <=> StreamTypes /\ ReaderTypes
  /\ TypeOK' <=> StreamTypes' /\ ReaderTypes'
PROOF
  BY DEF TypeOK, StreamTypes, ReaderTypes, Piece, Delivery

\* Sending some bytes of a part keeps the types of what is moved.
LEMMA TransmitTypes ==
  ASSUME TypeOK, NEW w \in Writer, NEW parts \in Seq(Piece), parts # <<>>,
         Transmit(w, parts)
  PROVE  /\ out' \in [Writer -> Seq(Piece)]
         /\ wire' \in Seq(Byte) /\ Len(wire') <= Capacity
         /\ spoiled' \in BOOLEAN
PROOF
<1> PICK k, rest :
      /\ k \in 1 .. Len(parts[1])
      /\ Rest(parts, k, rest) /\ out' = [out EXCEPT ![w] = rest]
      /\ wire' \in Seq(Byte) /\ Len(wire') <= Capacity
      /\ spoiled' = (spoiled \/ \E v \in Writer \ {w} : out[v] # <<>>)
  BY Transmits
<1>1. rest \in Seq(Piece) /\ out \in [Writer -> Seq(Piece)]
  BY TypesOfParts DEF Rest, StreamTypes
<1> QED BY <1>1

\* The first send of an item, or a later one.
LEMMA WriterTypes ==
  ASSUME TypeOK, NEW w \in Writer,
         Write(w) \/ \E i \in Item : StartSend(w, i)
  PROVE  TypeOK'
PROOF
<1>0. StreamTypes /\ ReaderTypes
  BY TypesOfParts
<1>1. ASSUME UNCHANGED reading PROVE ReaderTypes'
  BY <1>0, <1>1 DEF reading, ReaderTypes
<1>2. ASSUME NEW i \in Item, StartSend(w, i) PROVE TypeOK'
  <2>1. Parts(i) \in Seq(Piece) /\ Parts(i) # <<>>
    <3>1. Parts(i) \in Seq(Piece) /\ Len(Parts(i)) \in Nat \ {0} /\ Len(<<>>) = 0
      BY ItemParts
    <3> QED BY <3>1
  <2>2. Transmit(w, Parts(i)) /\ UNCHANGED <<closed, reading, cut>>
        /\ sent' = Append(sent, i) /\ Len(sent) < MaxSent
    BY <1>2 DEF StartSend
  <2>3. /\ out' \in [Writer -> Seq(Piece)]
        /\ wire' \in Seq(Byte) /\ Len(wire') <= Capacity
        /\ spoiled' \in BOOLEAN
    BY <2>1, <2>2, TransmitTypes
  <2>4. sent' \in Seq(Item) /\ Len(sent') <= MaxSent
    <3>1. Len(sent') = Len(sent) + 1 /\ sent' \in Seq(Item) /\ Len(sent) \in Nat
      BY <1>0, <2>2, AppendProperties, LenProperties DEF StreamTypes
    <3> QED BY <2>2, <3>1, Sizes
  <2>5. StreamTypes'
    BY <1>0, <2>2, <2>3, <2>4 DEF StreamTypes
  <2>6. ReaderTypes'
    BY <1>1, <2>2
  <2> QED BY <2>5, <2>6, TypesOfParts
<1>3. ASSUME GoOnSending(w) PROVE TypeOK'
  <2>1. out[w] \in Seq(Piece) /\ out[w] # <<>> /\ Transmit(w, out[w])
        /\ UNCHANGED <<sent, closed, reading, cut>>
    BY <1>0, <1>3 DEF GoOnSending, StreamTypes
  <2>2. /\ out' \in [Writer -> Seq(Piece)]
        /\ wire' \in Seq(Byte) /\ Len(wire') <= Capacity
        /\ spoiled' \in BOOLEAN
    BY <2>1, TransmitTypes
  <2>3. StreamTypes'
    BY <1>0, <2>1, <2>2 DEF StreamTypes
  <2>4. ReaderTypes'
    BY <1>1, <2>1
  <2> QED BY <2>3, <2>4, TypesOfParts
<1>4. ASSUME SendFails(w) PROVE TypeOK'
  <2>1. UNCHANGED <<sent, wire, closed, reading, spoiled>> /\ cut' = TRUE
        /\ out' = [out EXCEPT ![w] = <<>>]
    BY <1>4 DEF SendFails
  <2>2. out' \in [Writer -> Seq(Piece)]
    BY <1>0, <2>1 DEF StreamTypes
  <2>3. StreamTypes'
    BY <1>0, <2>1, <2>2 DEF StreamTypes
  <2>4. ReaderTypes'
    BY <1>1, <2>1
  <2> QED BY <2>3, <2>4, TypesOfParts
<1> QED BY <1>2, <1>3, <1>4 DEF Write

\* The end of the connection on the sender's side.
LEMMA CloseTypes ==
  ASSUME TypeOK, CloseSocket
  PROVE  TypeOK'
PROOF
<1>0. StreamTypes /\ ReaderTypes
  BY TypesOfParts
<1> PICK k \in 0 .. Len(wire) :
      /\ wire' = SubSeq(wire, 1, k)
      /\ cut' = (cut \/ k < Len(wire) \/ \E w \in Writer : out[w] # <<>>)
  BY DEF CloseSocket
<1>1. closed' = TRUE /\ UNCHANGED <<writing, reading, spoiled>>
  BY DEF CloseSocket
<1>2. wire' \in Seq(Byte) /\ Len(wire') <= Capacity
  <2>1. wire' \in Seq(Byte) /\ Len(wire') = k
    BY <1>0, Cuts DEF StreamTypes
  <2> QED BY <1>0, <2>1, Sizes, LenProperties DEF StreamTypes
<1>3. cut' \in BOOLEAN
  OBVIOUS
<1>4. StreamTypes'
  BY <1>0, <1>1, <1>2, <1>3 DEF StreamTypes, writing
<1>5. ReaderTypes'
  BY <1>0, <1>1 DEF ReaderTypes, reading
<1> QED BY <1>4, <1>5, TypesOfParts

\* The steps of the reader.
LEMMA ReadTypes ==
  ASSUME TypeOK, Read \/ Quit
  PROVE  TypeOK'
PROOF
<1>0. StreamTypes /\ ReaderTypes
  BY TypesOfParts
<1>1. ASSUME Receive PROVE TypeOK'
  <2> PICK k \in 1 .. Len(wire), s \in Seq(Byte) :
        /\ wire' \in Seq(Byte) /\ Len(wire') = Len(wire) - k
        /\ \/ /\ Len(s) < need /\ got' = s
              /\ UNCHANGED <<part, need, announced, delivered, spoiled>>
           \/ Len(s) = need /\ Completed(s)
    BY <1>1, Receives
  <2>1. Len(wire') <= Capacity
    BY <1>0, Sizes, LenProperties DEF StreamTypes
  <2>2. ReaderTypes' /\ spoiled' \in BOOLEAN
    <3>1. CASE Len(s) < need /\ got' = s
               /\ UNCHANGED <<part, need, announced, delivered, spoiled>>
      BY <1>0, <3>1 DEF ReaderTypes, StreamTypes
    <3>2. CASE Len(s) = need /\ Completed(s)
      BY <3>2, CompletedTypes
    <3> QED BY <3>1, <3>2
  <2>3. UNCHANGED <<writing, closed, cut>>
    BY <1>1 DEF Receive
  <2>4. StreamTypes'
    BY <1>0, <2>1, <2>2, <2>3 DEF StreamTypes, writing
  <2> QED BY <2>2, <2>4, TypesOfParts
<1>2. ASSUME WriteFails PROVE TypeOK'
  <2>1. Expect("length", Prefix) /\ spoiled' = TRUE
        /\ UNCHANGED <<announced, delivered, writing, wire, closed, cut>>
    BY <1>2 DEF WriteFails, Abandon
  <2>2. /\ part' = "length" /\ need' = Prefix /\ need' \in Nat
        /\ got' \in Seq(Byte) /\ Len(got') < need'
    BY <2>1, Sizes, ExpectTypes
  <2>3. ReaderTypes'
    BY <1>0, <2>1, <2>2 DEF ReaderTypes
  <2>4. StreamTypes'
    BY <1>0, <2>1 DEF StreamTypes, writing
  <2> QED BY <2>3, <2>4, TypesOfParts
<1>3. ASSUME ReceiveEnd \/ Quit PROVE TypeOK'
  <2>1. Stop /\ cut' \in BOOLEAN
        /\ UNCHANGED <<writing, wire, closed, announced, delivered, spoiled>>
    BY <1>0, <1>3 DEF ReceiveEnd, Quit, StreamTypes
  <2>2. ReaderTypes'
    BY <1>0, <2>1 DEF ReaderTypes, Stop
  <2>3. StreamTypes'
    BY <1>0, <2>1 DEF StreamTypes, writing
  <2> QED BY <2>2, <2>3, TypesOfParts
<1> QED BY <1>1, <1>2, <1>3 DEF Read

-----------------------------------------------------------------------------
(***************************************************************************)
(* Where parts stand in a sequence of bytes.                               *)
(***************************************************************************)
\* The first n of these parts stand in b one behind the other, from lo + 1 to hi;
\* the part m begins behind c[m].
CoversFirst(n, parts, c, lo, hi, b) ==
  /\ c \in [1 .. n + 1 -> 0 .. hi] /\ c[1] = lo /\ c[n + 1] = hi
  /\ \A m \in 1 .. n : c[m + 1] = c[m] + Len(parts[m]) /\ Holds(parts[m], b, c[m])

Covers(parts, c, lo, hi, b) == CoversFirst(Len(parts), parts, c, lo, hi, b)

\* Bytes behind hi do not matter.
LEMMA CoversAgree ==
  ASSUME NEW n \in Nat, NEW parts \in Seq(Piece), n <= Len(parts),
         NEW c, NEW lo \in Nat, NEW hi \in Nat, NEW b, NEW e,
         CoversFirst(n, parts, c, lo, hi, b), \A x \in 1 .. hi : e[x] = b[x]
  PROVE  CoversFirst(n, parts, c, lo, hi, e)
PROOF
<1>1. ASSUME NEW m \in 1 .. n PROVE Holds(parts[m], e, c[m])
  <2>1. parts[m] \in Seq(Byte) /\ Len(parts[m]) \in Nat
    <3>1. parts[m] \in Piece
      BY ElementOfSeq
    <3> QED BY <3>1 DEF Piece
  <2>2. /\ m + 1 \in 1 .. n + 1 /\ m \in 1 .. n + 1
        /\ c[m] \in Nat /\ c[m + 1] \in 0 .. hi
        /\ c[m + 1] = c[m] + Len(parts[m]) /\ Holds(parts[m], b, c[m])
    BY SMTT(40) DEF CoversFirst
  <2>3. ASSUME NEW x \in 1 .. Len(parts[m]) PROVE parts[m][x] = e[c[m] + x]
    <3>1. c[m] + x \in 1 .. hi
      BY SMTT(40), <2>1, <2>2
    <3> QED BY <2>2, <3>1 DEF Holds
  <2> QED BY <2>3 DEF Holds
<1> QED BY <1>1 DEF CoversFirst

\* A part that has been received whole is the part that was sent.
LEMMA PartRead ==
  ASSUME NEW parts \in Seq(Piece), NEW c, NEW lo, NEW hi, NEW b,
         Covers(parts, c, lo, hi, b), NEW j \in 1 .. Len(parts),
         NEW s \in Seq(Byte), Len(s) = Len(parts[j]), Holds(s, b, c[j])
  PROVE  s = parts[j]
PROOF
<1>1. Holds(parts[j], b, c[j])
  BY DEF Covers, CoversFirst
<1>2. parts[j] \in Seq(Byte)
  <2>1. parts[j] \in Piece
    BY ElementOfSeq
  <2> QED BY <2>1 DEF Piece
<1>3. \A x \in 1 .. Len(s) : s[x] = parts[j][x]
  BY <1>1 DEF Holds
<1> QED BY <1>2, <1>3, SeqEqual

\* What is left of the parts stands behind what was sent.
LEMMA CoversRest ==
  ASSUME NEW parts \in Seq(Piece), NEW c, NEW lo \in Nat, NEW hi \in Nat, NEW b,
         parts # <<>>, Covers(parts, c, lo, hi, b),
         NEW k \in 1 .. Len(parts[1]), NEW rest, Rest(parts, k, rest)
  PROVE  lo + k <= hi /\ \E d : Covers(rest, d, lo + k, hi, b)
PROOF
<1> DEFINE n == Len(parts)
           L == Len(parts[1])
<1>0. n \in Nat \ {0} /\ L \in Nat /\ k \in Nat
  <2>1. n \in Nat \ {0}
    BY EmptySeq
  <2>2. parts[1] \in Piece
    BY <2>1, ElementOfSeq
  <2>3. L \in Nat
    BY <2>2, LenProperties DEF Piece
  <2> QED BY <2>1, <2>3
<1>1. /\ c \in [1 .. n + 1 -> 0 .. hi] /\ c[1] = lo /\ c[n + 1] = hi
      /\ \A m \in 1 .. n : c[m + 1] = c[m] + Len(parts[m]) /\ Holds(parts[m], b, c[m])
  BY DEF Covers, CoversFirst
<1>2. 1 \in 1 .. n /\ 2 \in 1 .. n + 1 /\ c[2] = lo + L /\ c[2] \in 0 .. hi
  BY SMTT(40), <1>0, <1>1
<1>3. lo + k <= hi
  BY <1>0, <1>2
<1>4. CASE k = L
  <2> DEFINE d == [m \in 1 .. Len(rest) + 1 |-> c[m + 1]]
  <2>1. Len(rest) = n - 1 /\ \A m \in 1 .. Len(rest) : rest[m] = parts[m + 1]
    BY <1>4 DEF Rest
  <2>3. d \in [1 .. Len(rest) + 1 -> 0 .. hi] /\ d[1] = lo + k /\ d[Len(rest) + 1] = hi
    <3>1. \A m \in 1 .. n : m + 1 \in 1 .. n + 1
      BY <1>0
    <3> QED BY <1>0, <1>1, <1>2, <1>4, <2>1, <3>1
  <2>4. ASSUME NEW m \in 1 .. Len(rest)
        PROVE  d[m + 1] = d[m] + Len(rest[m]) /\ Holds(rest[m], b, d[m])
    <3>1. m + 1 \in 1 .. n /\ rest[m] = parts[m + 1] /\ d[m] = c[m + 1] /\ d[m + 1] = c[(m + 1) + 1]
      BY <1>0, <2>1
    <3> QED BY <1>1, <3>1
  <2> HIDE DEF d
  <2>5. Covers(rest, d, lo + k, hi, b)
    BY <2>3, <2>4 DEF Covers, CoversFirst
  <2> QED BY <1>3, <2>5
<1>5. CASE k # L
  <2> DEFINE d == [c EXCEPT ![1] = lo + k]
  <2>1. /\ Len(rest) = n /\ Len(rest[1]) = L - k
        /\ \A x \in 1 .. Len(rest[1]) : rest[1][x] = parts[1][k + x]
        /\ \A m \in 2 .. Len(rest) : rest[m] = parts[m]
    BY <1>0, <1>5 DEF Rest
  <2>2. lo + k \in 0 .. hi /\ 1 \in 1 .. n + 1 /\ n + 1 \in 2 .. n + 1
        /\ \A m \in 2 .. n + 1 : m \in 1 .. n + 1 /\ m # 1
    BY <1>0, <1>3
  <2>3. /\ d \in [1 .. Len(rest) + 1 -> 0 .. hi] /\ d[1] = lo + k
        /\ d[Len(rest) + 1] = hi /\ \A m \in 2 .. n + 1 : d[m] = c[m]
    BY <1>1, <2>1, <2>2
  <2> HIDE DEF d
  <2>4. d[1 + 1] = d[1] + Len(rest[1]) /\ Holds(rest[1], b, d[1])
    <3>1. d[2] = c[2]
      BY <1>2, <2>2, <2>3
    <3>2. d[1 + 1] = (lo + k) + (L - k)
      <4> HIDE DEF L
      <4>1. (lo + k) + (L - k) = lo + L /\ 1 + 1 = 2
        BY <1>0
      <4>2. c[2] = lo + L
        BY <1>2
      <4> QED BY <3>1, <4>1, <4>2
    <3>3. ASSUME NEW x \in 1 .. Len(rest[1]) PROVE rest[1][x] = b[(lo + k) + x]
      <4>1. k + x \in 1 .. L /\ lo + (k + x) = (lo + k) + x
        BY <1>0, <2>1
      <4>2. parts[1][k + x] = b[lo + (k + x)]
        BY <1>1, <1>2, <4>1 DEF Holds
      <4> QED BY <2>1, <4>1, <4>2
    <3>4. Holds(rest[1], b, d[1])
      BY <2>3, <3>3 DEF Holds
    <3> QED BY <2>1, <2>3, <3>2, <3>4
  <2>5. ASSUME NEW m \in 2 .. Len(rest)
        PROVE  d[m + 1] = d[m] + Len(rest[m]) /\ Holds(rest[m], b, d[m])
    <3>1. m \in 1 .. n /\ m \in 2 .. n + 1 /\ m + 1 \in 2 .. n + 1
      BY <1>0, <2>1
    <3> QED BY <1>1, <2>1, <2>3, <3>1
  <2>6. \A m \in 1 .. Len(rest) : d[m + 1] = d[m] + Len(rest[m]) /\ Holds(rest[m], b, d[m])
    <3>1. \A m \in 1 .. Len(rest) : m = 1 \/ m \in 2 .. Len(rest)
      BY <1>0, <2>1
    <3> QED BY <2>4, <2>5, <3>1
  <2>7. Covers(rest, d, lo + k, hi, b)
    BY <2>3, <2>6 DEF Covers, CoversFirst
  <2> QED BY <1>3, <2>7
<1> QED BY <1>4, <1>5

\* Parts can be put behind any bytes.
LEMMA Extension ==
  ASSUME NEW b \in Seq(Byte), NEW parts \in Seq(Piece)
  PROVE  \E e \in Seq(Byte) : \E c :
           /\ Len(b) <= Len(e) /\ \A x \in 1 .. Len(b) : e[x] = b[x]
           /\ Covers(parts, c, Len(b), Len(e), e)
PROOF
<1> DEFINE L == Len(b)
           Fits(e, c, n) == /\ L <= Len(e) /\ \A x \in 1 .. L : e[x] = b[x]
                            /\ CoversFirst(n, parts, c, L, Len(e), e)
           K == {n \in 0 .. Len(parts) : \E e \in Seq(Byte) : \E c : Fits(e, c, n)}
<1>0. L \in Nat /\ Len(parts) \in Nat
  BY LenProperties
<1>1. 0 \in K
  <2> DEFINE c == [m \in 1 .. 0 + 1 |-> L]
  <2>1. c \in [1 .. 0 + 1 -> 0 .. L] /\ c[1] = L /\ c[0 + 1] = L
    BY <1>0
  <2>2. Fits(b, c, 0)
    BY <1>0, <2>1 DEF CoversFirst
  <2>3. \E e \in Seq(Byte) : \E d : Fits(e, d, 0)
    BY <2>2
  <2> QED BY <1>0, <2>3
<1>2. ASSUME NEW n \in 0 .. Len(parts) - 1, n \in K PROVE n + 1 \in K
  <2> PICK e \in Seq(Byte) : \E c : Fits(e, c, n)
    BY <1>2
  <2> PICK c : Fits(e, c, n)
    OBVIOUS
  <2> DEFINE s == parts[n + 1]
             f == e \o s
             d == [m \in 1 .. (n + 1) + 1 |-> IF m = (n + 1) + 1 THEN Len(f) ELSE c[m]]
  <2>0. n \in Nat /\ n + 1 \in 1 .. Len(parts) /\ n + 1 \in 0 .. Len(parts)
    BY <1>0
  <2>1. s \in Seq(Byte) /\ Len(s) \in Nat /\ Len(e) \in Nat
    <3>1. s \in Piece
      BY <2>0, ElementOfSeq
    <3> QED BY <3>1, LenProperties DEF Piece
  <2>2. /\ L <= Len(e) /\ \A x \in 1 .. L : e[x] = b[x]
        /\ c \in [1 .. n + 1 -> 0 .. Len(e)] /\ c[1] = L /\ c[n + 1] = Len(e)
        /\ \A m \in 1 .. n : /\ c[m + 1] = c[m] + Len(parts[m])
                             /\ Holds(parts[m], e, c[m])
    BY DEF CoversFirst
  <2> HIDE DEF Fits, K, s
  <2>3. /\ f \in Seq(Byte) /\ Len(f) = Len(e) + Len(s)
        /\ \A x \in 1 .. Len(e) + Len(s) :
             f[x] = IF x <= Len(e) THEN e[x] ELSE s[x - Len(e)]
    BY <2>1, ConcatProperties
  <2> HIDE DEF f
  <2>4. \A x \in 1 .. Len(e) : f[x] = e[x]
    BY <2>1, <2>3
  <2>5. Holds(s, f, Len(e))
    <3> SUFFICES ASSUME NEW x \in 1 .. Len(s) PROVE s[x] = f[Len(e) + x]
      BY DEF Holds
    <3>1. Len(e) + x \in 1 .. Len(e) + Len(s) /\ ~(Len(e) + x <= Len(e))
          /\ (Len(e) + x) - Len(e) = x
      BY <2>1
    <3> QED BY <2>3, <3>1
  <2>6. CoversFirst(n, parts, c, L, Len(e), f)
    <3>1. CoversFirst(n, parts, c, L, Len(e), e)
      BY <2>2 DEF CoversFirst
    <3>2. n <= Len(parts)
      BY <1>0, <2>0
    <3> QED BY <1>0, <2>0, <2>1, <2>4, <3>1, <3>2, CoversAgree
  <2>7. /\ d \in [1 .. (n + 1) + 1 -> 0 .. Len(f)] /\ d[(n + 1) + 1] = Len(f)
        /\ \A m \in 1 .. n + 1 : d[m] = c[m]
    <3>1. /\ \A m \in 1 .. (n + 1) + 1 : m # (n + 1) + 1 => m \in 1 .. n + 1
          /\ \A m \in 1 .. n + 1 : m # (n + 1) + 1 /\ m \in 1 .. (n + 1) + 1
          /\ (n + 1) + 1 \in 1 .. (n + 1) + 1
          /\ Len(f) \in 0 .. Len(f) /\ \A x \in 0 .. Len(e) : x \in 0 .. Len(f)
      BY <2>0, <2>1, <2>3
    <3> QED BY <2>2, <3>1
  <2> HIDE DEF d
  <2>8. d[1] = L
    <3>1. 1 \in 1 .. n + 1
      BY <2>0
    <3> QED BY <2>2, <2>7, <3>1
  <2>9. ASSUME NEW m \in 1 .. n + 1
        PROVE  d[m + 1] = d[m] + Len(parts[m]) /\ Holds(parts[m], f, d[m])
    <3>1. CASE m = n + 1
      <4>1. d[m + 1] = Len(e) + Len(s) /\ d[m] = Len(e) /\ parts[m] = s
        BY <2>2, <2>3, <2>7, <3>1 DEF s
      <4> QED BY <2>5, <4>1
    <3>2. CASE m # n + 1
      <4>1. m \in 1 .. n /\ m + 1 \in 1 .. n + 1
        BY <2>0, <3>2
      <4>2. d[m + 1] = c[m + 1] /\ d[m] = c[m]
        BY <2>7, <4>1
      <4> QED BY <2>6, <4>1, <4>2 DEF CoversFirst
    <3> QED BY <3>1, <3>2
  <2>10. CoversFirst(n + 1, parts, d, L, Len(f), f)
    BY <2>7, <2>8, <2>9 DEF CoversFirst
  <2>11. L <= Len(f) /\ \A x \in 1 .. L : f[x] = b[x]
    <3>1. L <= Len(f) /\ \A x \in 1 .. L : x \in 1 .. Len(e)
      BY <1>0, <2>1, <2>2, <2>3
    <3> QED BY <2>2, <2>4, <3>1
  <2>12. Fits(f, d, n + 1)
    BY <2>10, <2>11 DEF Fits
  <2> QED BY <2>0, <2>3, <2>12 DEF K
<1>3. Len(parts) \in K
  <2> HIDE DEF K
  <2>1. \A n \in 0 .. Len(parts) : n \in K
    BY <1>0, <1>1, <1>2, UpwardInduction
  <2> QED BY <1>0, <2>1
<1> QED BY <1>3 DEF Covers

\* Where there are parts there are bytes.
LEMMA CoversSomething ==
  ASSUME NEW parts \in Seq(Piece), parts # <<>>, NEW c, NEW lo \in Nat,
         NEW hi \in Nat, NEW b, Covers(parts, c, lo, hi, b)
  PROVE  lo < hi
PROOF
<1>1. Len(parts) \in Nat \ {0} /\ 1 \in 1 .. Len(parts) /\ 2 \in 1 .. Len(parts) + 1
  BY EmptySeq
<1>2. parts[1] \in Piece
  BY <1>1, ElementOfSeq
<1>3. Len(parts[1]) \in Nat \ {0}
  BY <1>2, EmptySeq DEF Piece
<1>4. c[2] = lo + Len(parts[1]) /\ c[2] \in 0 .. hi
  BY <1>1 DEF Covers, CoversFirst
<1> QED BY <1>3, <1>4

\* The items stand in b one behind the other; the item n begins behind o[n - 1].
Layout(items, b, o) ==
  /\ b \in Seq(Byte) /\ o \in [0 .. Len(items) -> 0 .. Len(b)]
  /\ o[0] = 0 /\ o[Len(items)] = Len(b)
  /\ \A m, n \in 0 .. Len(items) : m < n => o[m] < o[n]
  /\ \A n \in 1 .. Len(items) : \E c : Covers(Parts(items[n]), c, o[n - 1], o[n], b)

\* What stands in b up to o[n] also stands in a sequence that continues b.
LEMMA StaysCovered ==
  ASSUME NEW items \in Seq(Item), NEW b, NEW o, Layout(items, b, o),
         NEW e, \A x \in 1 .. Len(b) : e[x] = b[x], NEW n \in 1 .. Len(items),
         NEW c, Covers(Parts(items[n]), c, o[n - 1], o[n], b)
  PROVE  Covers(Parts(items[n]), c, o[n - 1], o[n], e)
PROOF
<1> DEFINE P == Parts(items[n])
<1>1. Len(items) \in Nat /\ b \in Seq(Byte) /\ Len(b) \in Nat
  BY LenProperties DEF Layout
<1>2. P \in Seq(Piece) /\ Len(P) \in Nat /\ Len(P) <= Len(P)
  <2>1. items[n] \in Item
    BY ElementOfSeq
  <2> QED BY <2>1, ItemParts
<1>3. n - 1 \in 0 .. Len(items) /\ n \in 0 .. Len(items)
  BY <1>1
<1>4. o[n - 1] \in Nat /\ o[n] \in 0 .. Len(b)
  BY SMTT(40), <1>3 DEF Layout
<1>5. \A x \in 1 .. o[n] : e[x] = b[x]
  BY <1>1, <1>4
<1> HIDE DEF P
<1>6. CoversFirst(Len(P), P, c, o[n - 1], o[n], b)
  BY DEF Covers, P
<1>7. CoversFirst(Len(P), P, c, o[n - 1], o[n], e)
  <2> DEFINE L == Len(P)
             lo == o[n - 1]
             hi == o[n]
  <2>1. CoversFirst(L, P, c, lo, hi, b) /\ L \in Nat /\ L <= Len(P)
        /\ lo \in Nat /\ hi \in Nat /\ \A x \in 1 .. hi : e[x] = b[x]
    BY <1>2, <1>4, <1>5, <1>6
  <2> HIDE DEF L, lo, hi
  <2>2. CoversFirst(L, P, c, lo, hi, e)
    BY <1>2, <2>1, CoversAgree
  <2> QED BY <2>2 DEF L, lo, hi
<1> QED BY <1>7 DEF Covers, P

\* One more item behind the others.
LEMMA LayoutExtends ==
  ASSUME NEW items \in Seq(Item), NEW i \in Item, NEW b, NEW o, Layout(items, b, o),
         NEW e \in Seq(Byte), Len(b) <= Len(e), \A x \in 1 .. Len(b) : e[x] = b[x],
         NEW c, Covers(Parts(i), c, Len(b), Len(e), e)
  PROVE  \E p : /\ Layout(Append(items, i), e, p)
                /\ \A n \in 0 .. Len(items) : p[n] = o[n]
PROOF
<1> DEFINE L == Len(items)
           q == Append(items, i)
           p == [n \in 0 .. L + 1 |-> IF n = L + 1 THEN Len(e) ELSE o[n]]
<1>0. L \in Nat /\ b \in Seq(Byte) /\ Len(b) \in Nat /\ Len(e) \in Nat
  BY LenProperties DEF Layout
<1>1. q \in Seq(Item) /\ Len(q) = L + 1 /\ q[L + 1] = i /\ \A n \in 1 .. L : q[n] = items[n]
  BY <1>0, AppendProperties
<1>2. /\ o \in [0 .. L -> 0 .. Len(b)] /\ o[0] = 0 /\ o[L] = Len(b)
      /\ \A m, n \in 0 .. L : m < n => o[m] < o[n]
  BY DEF Layout
<1>3. Len(b) < Len(e)
  <2>1. Parts(i) \in Seq(Piece) /\ Parts(i) # <<>>
    <3>1. Parts(i) \in Seq(Piece) /\ Len(Parts(i)) \in Nat \ {0} /\ Len(<<>>) = 0
      BY ItemParts
    <3> QED BY <3>1
  <2> QED BY <1>0, <2>1, CoversSomething
<1>4. /\ \A n \in 0 .. L : n # L + 1 /\ n \in 0 .. L + 1
      /\ \A n \in 0 .. L + 1 : n # L + 1 => n \in 0 .. L
      /\ L + 1 \in 0 .. L + 1 /\ 0 \in 0 .. L /\ L \in 0 .. L
  BY <1>0
<1>5. /\ p \in [0 .. L + 1 -> 0 .. Len(e)] /\ p[L + 1] = Len(e)
      /\ \A n \in 0 .. L : p[n] = o[n]
  <2>1. Len(e) \in 0 .. Len(e) /\ \A n \in 0 .. L : o[n] \in 0 .. Len(e)
    BY <1>0, <1>2, <1>3
  <2> QED BY <1>4, <2>1
<1> HIDE DEF p, q
<1>6. ASSUME NEW m \in 0 .. L + 1, NEW n \in 0 .. L + 1, m < n PROVE p[m] < p[n]
  <2>1. m \in 0 .. L
    BY <1>0, <1>6
  <2>2. CASE n = L + 1
    <3>1. p[m] \in 0 .. Len(b)
      BY <1>2, <1>5, <2>1
    <3> QED BY <1>0, <1>3, <1>5, <2>2, <3>1
  <2>3. CASE n # L + 1
    BY <1>2, <1>4, <1>5, <1>6, <2>1, <2>3
  <2> QED BY <2>2, <2>3
<1>7. ASSUME NEW n \in 1 .. L + 1 PROVE \E d : Covers(Parts(q[n]), d, p[n - 1], p[n], e)
  <2>1. CASE n = L + 1
    <3>1. q[n] = i /\ p[n] = Len(e) /\ p[n - 1] = Len(b)
      <4>1. n - 1 = L
        BY <1>0, <2>1
      <4> QED BY <1>1, <1>2, <1>4, <1>5, <2>1, <4>1
    <3> QED BY <3>1
  <2>2. CASE n # L + 1
    <3>1. n \in 1 .. L /\ n \in 0 .. L /\ n - 1 \in 0 .. L
      BY <1>0, <2>2
    <3>2. q[n] = items[n] /\ p[n] = o[n] /\ p[n - 1] = o[n - 1]
      BY <1>1, <1>5, <3>1
    <3> PICK d : Covers(Parts(items[n]), d, o[n - 1], o[n], b)
      BY <3>1 DEF Layout
    <3>3. Covers(Parts(items[n]), d, o[n - 1], o[n], e)
      BY <3>1, StaysCovered
    <3> QED BY <3>2, <3>3
  <2> QED BY <2>1, <2>2
<1>8. p[0] = 0
  BY <1>2, <1>4, <1>5
<1>9. Layout(q, e, p)
  BY <1>1, <1>5, <1>6, <1>7, <1>8 DEF Layout
<1> QED BY <1>5, <1>9 DEF q

-----------------------------------------------------------------------------
(***************************************************************************)
(* The stream.                                                             *)
(***************************************************************************)
\* What has been received of the part under way and what is in flight are next to
\* each other in the stream, from r + 1 to t.
Intervals(b, r, t) ==
  /\ r \in 0 .. Len(b) /\ t \in 0 .. Len(b) /\ t = r + Len(got) + Len(wire)
  /\ Holds(got, b, r) /\ Holds(wire, b, r + Len(got))

\* What has still to be sent stands behind t: one writer at most is in an item.
Written(b, t) ==
  \/ t = Len(b) /\ \A w \in Writer : out[w] = <<>>
  \/ \E w \in Writer : /\ \A v \in Writer \ {w} : out[v] = <<>>
                       /\ \E c : Covers(out[w], c, t, Len(b), b)

\* The reader has read, up to r, the parts before j of the item that comes next.
AtPart(j, b, o, r) ==
  LET n == Len(delivered) + 1
  IN  /\ n <= Len(sent) /\ j <= Len(Parts(sent[n])) /\ need = Len(Parts(sent[n])[j])
      /\ \E c : Covers(Parts(sent[n]), c, o[n - 1], o[n], b) /\ r = c[j]

\* The reader is at the part of the item that it takes it for.
Reading(b, o, r) ==
  \/ part = "length" /\ r = o[Len(delivered)]
  \/ part = "text" /\ AtPart(2, b, o, r)
  \/ /\ part = "size" /\ AtPart(3, b, o, r)
     /\ announced = Len(sent[Len(delivered) + 1].bytes)
  \/ part = "data" /\ AtPart(4, b, o, r)

Stream(b, o, r, t) ==
  /\ Layout(sent, b, o) /\ Intervals(b, r, t) /\ Reading(b, o, r)
  /\ ~cut => Written(b, t)

StreamInv == ~spoiled /\ part # "ended" => \E b, o, r, t : Stream(b, o, r, t)

\* What has been delivered is what was sent first.
DeliveredInv ==
  ~spoiled => /\ Len(delivered) <= Len(sent)
              /\ \A n \in 1 .. Len(delivered) : delivered[n] = sent[n]

\* Something is lost only when a side has ended; a socket closed without a loss
\* leaves no writer in an item.
CutInv ==
  /\ cut => closed \/ part = "ended"
  /\ closed /\ ~cut => \A w \in Writer : out[w] = <<>>

IndInv == TypeOK /\ DeliveredInv /\ CutInv /\ StreamInv /\ EndsWithConnection

\* No parts take no room.
LEMMA CoversNothing ==
  ASSUME NEW c, NEW lo, NEW hi, NEW b, Covers(<<>>, c, lo, hi, b)
  PROVE  lo = hi
PROOF
<1>1. Len(<<>>) = 0 /\ 0 + 1 = 1
  OBVIOUS
<1> QED BY <1>1 DEF Covers, CoversFirst

\* If no writer is in an item, everything has been sent.
LEMMA NothingToSend ==
  ASSUME NEW b, NEW t, Written(b, t), \A w \in Writer : out[w] = <<>>
  PROVE  t = Len(b)
PROOF
  BY CoversNothing DEF Written

\* The bytes that are sent are the next of the stream.
LEMMA SendMoves ==
  ASSUME TypeOK, NEW w \in Writer, NEW parts \in Seq(Piece), parts # <<>>,
         Transmit(w, parts), ~spoiled', UNCHANGED got,
         NEW b \in Seq(Byte), NEW r, NEW t, Intervals(b, r, t),
         NEW c, Covers(parts, c, t, Len(b), b)
  PROVE  \E u : Intervals(b, r, u)' /\ Written(b, u)'
PROOF
<1> PICK k, rest :
      /\ k \in 1 .. Len(parts[1])
      /\ Rest(parts, k, rest) /\ out' = [out EXCEPT ![w] = rest]
      /\ wire' \in Seq(Byte) /\ Len(wire') = Len(wire) + k
      /\ Holds(wire, wire', 0)
      /\ \A x \in 1 .. k : wire'[Len(wire) + x] = parts[1][x]
      /\ spoiled' = (spoiled \/ \E v \in Writer \ {w} : out[v] # <<>>)
  BY Transmits
<1>0. /\ Len(b) \in Nat /\ r \in Nat /\ t \in Nat /\ Len(got) \in Nat /\ Len(wire) \in Nat
      /\ t = r + Len(got) + Len(wire) /\ r \in 0 .. Len(b)
  BY LenProperties DEF Intervals, TypeOK
<1>1. t + k <= Len(b) /\ \E d : Covers(rest, d, t + k, Len(b), b)
  BY ZenonT(60), <1>0, CoversRest
<1>2. k \in Nat
  <2>1. 1 \in 1 .. Len(parts)
    BY EmptySeq
  <2>2. parts[1] \in Piece
    BY <2>1, ElementOfSeq
  <2> QED BY <2>2, LenProperties DEF Piece
<1>3. Holds(wire', b, r + Len(got))
  <2> SUFFICES ASSUME NEW x \in 1 .. Len(wire) + k
               PROVE  wire'[x] = b[(r + Len(got)) + x]
    BY DEF Holds
  <2>1. CASE x \in 1 .. Len(wire)
    <3>1. wire[x] = wire'[0 + x] /\ 0 + x = x
      BY <1>0, <2>1 DEF Holds
    <3>2. wire[x] = b[(r + Len(got)) + x]
      BY <2>1 DEF Intervals, Holds
    <3> QED BY <3>1, <3>2
  <2>2. CASE x \notin 1 .. Len(wire)
    <3> DEFINE y == x - Len(wire)
    <3>1. y \in 1 .. k /\ x = Len(wire) + y /\ (r + Len(got)) + x = t + y
      BY <1>0, <1>2, <2>2
    <3> HIDE DEF y
    <3>2. y \in 1 .. Len(parts[1])
      BY <1>2, <3>1
    <3>3. parts[1][y] = b[t + y]
      <4>1. 1 \in 1 .. Len(parts)
        BY EmptySeq
      <4>2. Holds(parts[1], b, c[1]) /\ c[1] = t
        BY <4>1 DEF Covers, CoversFirst
      <4> QED BY <3>2, <4>2 DEF Holds
    <3>4. wire'[Len(wire) + y] = parts[1][y]
      BY <3>1
    <3> QED BY <3>1, <3>3, <3>4
  <2> QED BY <2>1, <2>2
<1>4. Intervals(b, r, t + k)'
  <2>1. t + k \in 0 .. Len(b) /\ t + k = r + Len(got) + (Len(wire) + k)
    BY <1>0, <1>1, <1>2
  <2>2. Holds(got', b, r)
    BY DEF Intervals
  <2>3. got' = got
    OBVIOUS
  <2> QED BY <1>0, <1>3, <2>1, <2>2, <2>3 DEF Intervals
<1>5. \A v \in Writer \ {w} : out'[v] = <<>>
  <2>1. \A v \in Writer \ {w} : out[v] = <<>>
    OBVIOUS
  <2> QED BY <2>1 DEF TypeOK
<1>6. out'[w] = rest
  BY DEF TypeOK
<1>7. Written(b, t + k)'
  BY <1>1, <1>5, <1>6 DEF Written
<1> QED BY <1>4, <1>7

\* The first send of an item continues the stream by the item.
LEMMA StartKeepsStream ==
  ASSUME IndInv, NEW w \in Writer, NEW i \in Item, StartSend(w, i)
  PROVE  StreamInv'
PROOF
<1> SUFFICES ASSUME ~spoiled', part' # "ended"
             PROVE  \E b, o, r, t : Stream(b, o, r, t)'
  BY DEF StreamInv
<1>0. /\ Transmit(w, Parts(i)) /\ sent' = Append(sent, i) /\ ~closed /\ out[w] = <<>>
      /\ part' = part /\ need' = need /\ got' = got /\ announced' = announced
      /\ delivered' = delivered /\ cut' = cut
  BY DEF StartSend, reading
<1>1. ~spoiled /\ \A v \in Writer : out[v] = <<>>
  BY <1>0 DEF Transmit
<1>2. ~cut /\ TypeOK /\ sent \in Seq(Item)
  BY <1>0 DEF IndInv, CutInv, TypeOK
<1> PICK b, o, r, t : Stream(b, o, r, t)
  BY <1>0, <1>1 DEF IndInv, StreamInv
<1>3. t = Len(b)
  BY <1>1, <1>2, NothingToSend DEF Stream
<1>4. /\ Layout(sent, b, o) /\ Intervals(b, r, t) /\ Reading(b, o, r)
      /\ b \in Seq(Byte)
  BY DEF Stream, Layout
<1>5. Parts(i) \in Seq(Piece) /\ Parts(i) # <<>>
  <2>1. Parts(i) \in Seq(Piece) /\ Len(Parts(i)) \in Nat \ {0} /\ Len(<<>>) = 0
    BY ItemParts
  <2> QED BY <2>1
<1> PICK e, c : /\ e \in Seq(Byte)
                /\ Len(b) <= Len(e) /\ \A x \in 1 .. Len(b) : e[x] = b[x]
                /\ Covers(Parts(i), c, Len(b), Len(e), e)
  BY <1>4, <1>5, Extension
<1> PICK p : /\ Layout(Append(sent, i), e, p)
             /\ \A n \in 0 .. Len(sent) : p[n] = o[n]
  BY <1>2, <1>4, LayoutExtends
<1>6. Intervals(e, r, t)
  <2>1. /\ Len(b) \in Nat /\ Len(e) \in Nat /\ Len(got) \in Nat /\ Len(wire) \in Nat
        /\ r \in 0 .. Len(b) /\ t \in 0 .. Len(b) /\ t = r + Len(got) + Len(wire)
        /\ Holds(got, b, r) /\ Holds(wire, b, r + Len(got))
    BY <1>2, <1>4, LenProperties DEF TypeOK, Intervals
  <2>2. r \in 0 .. Len(e) /\ t \in 0 .. Len(e)
    BY <2>1
  <2>3. ASSUME NEW x \in 1 .. Len(got) PROVE got[x] = e[r + x]
    <3>1. r + x \in 1 .. Len(b)
      BY <2>1
    <3> QED BY <2>1, <3>1 DEF Holds
  <2>4. ASSUME NEW x \in 1 .. Len(wire) PROVE wire[x] = e[(r + Len(got)) + x]
    <3>1. (r + Len(got)) + x \in 1 .. Len(b)
      BY <2>1
    <3> QED BY <2>1, <3>1 DEF Holds
  <2> QED BY <2>1, <2>2, <2>3, <2>4 DEF Intervals, Holds
<1>7. PICK u : Intervals(e, r, u)' /\ Written(e, u)'
  BY <1>0, <1>2, <1>3, <1>5, <1>6, SendMoves
<1>8. ASSUME NEW j, AtPart(j, b, o, r) PROVE AtPart(j, e, p, r)'
  <2> DEFINE n == Len(delivered) + 1
  <2>1. n \in 1 .. Len(sent) /\ n - 1 \in 0 .. Len(sent) /\ n \in 0 .. Len(sent)
    BY <1>2, <1>8, LenProperties DEF AtPart, TypeOK
  <2>2. /\ Len(sent') = Len(sent) + 1 /\ sent'[n] = sent[n] /\ n <= Len(sent')
        /\ p[n] = o[n] /\ p[n - 1] = o[n - 1]
    BY <1>0, <1>2, <2>1, AppendProperties, LenProperties
  <2>3. /\ j <= Len(Parts(sent[n])) /\ need = Len(Parts(sent[n])[j])
        /\ \E d : Covers(Parts(sent[n]), d, o[n - 1], o[n], b) /\ r = d[j]
    BY <1>8 DEF AtPart
  <2> HIDE DEF n
  <2> PICK d : Covers(Parts(sent[n]), d, o[n - 1], o[n], b) /\ r = d[j]
    BY <2>3
  <2>4. Covers(Parts(sent[n]), d, o[n - 1], o[n], e)
    BY <1>2, <1>4, <2>1, StaysCovered
  <2>5. /\ n <= Len(sent') /\ j <= Len(Parts(sent'[n])) /\ need' = Len(Parts(sent'[n])[j])
        /\ \E f : Covers(Parts(sent'[n]), f, p[n - 1], p[n], e) /\ r = f[j]
    BY <1>0, <2>2, <2>3, <2>4
  <2>6. n = Len(delivered') + 1
    BY <1>0 DEF n
  <2> QED BY <2>5, <2>6 DEF AtPart
<1>9. Reading(e, p, r)'
  <2>1. CASE part = "length"
    <3>1. r = o[Len(delivered)] /\ Len(delivered) \in 0 .. Len(sent)
      BY <1>1, <1>2, <1>4, <2>1, LenProperties DEF Reading, IndInv, DeliveredInv, TypeOK
    <3> QED BY <1>0, <2>1, <3>1 DEF Reading
  <2>2. CASE part = "text"
    BY <1>0, <1>4, <1>8, <2>2 DEF Reading
  <2>3. CASE part = "size"
    <3>1. AtPart(3, b, o, r) /\ announced = Len(sent[Len(delivered) + 1].bytes)
      BY <1>4, <2>3 DEF Reading
    <3>2. Len(delivered) + 1 \in 1 .. Len(sent)
      BY <1>2, <3>1, LenProperties DEF AtPart, TypeOK
    <3>3. sent'[Len(delivered') + 1] = sent[Len(delivered) + 1]
      BY <1>0, <1>2, <3>2, AppendProperties
    <3> QED BY <1>0, <1>8, <2>3, <3>1, <3>3 DEF Reading
  <2>4. CASE part = "data"
    BY <1>0, <1>4, <1>8, <2>4 DEF Reading
  <2> QED BY <1>4, <2>1, <2>2, <2>3, <2>4 DEF Reading
<1>10. Layout(sent', e, p)
  BY <1>0
<1>11. Layout(sent, e, p)'
  BY <1>10 DEF Layout
<1>12. Stream(e, p, r, u)'
  BY <1>7, <1>9, <1>11 DEF Stream
<1> QED BY <1>12

\* The reader's place and the items do not depend on the writers.
LEMMA SameReader ==
  ASSUME UNCHANGED <<sent, reading>>, NEW b, NEW o, NEW r
  PROVE  /\ Layout(sent, b, o) => Layout(sent, b, o)'
         /\ Reading(b, o, r) => Reading(b, o, r)'
PROOF
<1>1. /\ sent' = sent /\ part' = part /\ need' = need /\ got' = got
      /\ announced' = announced /\ delivered' = delivered
  BY DEF reading
<1>2. Layout(sent, b, o) => Layout(sent, b, o)'
  BY <1>1 DEF Layout
<1>3. \A j : AtPart(j, b, o, r) => AtPart(j, b, o, r)'
  BY <1>1 DEF AtPart
<1>4. Reading(b, o, r) => Reading(b, o, r)'
  BY <1>1, <1>3 DEF Reading
<1> QED BY <1>2, <1>4

\* A writer in an item sends more of it.
LEMMA GoOnKeepsStream ==
  ASSUME IndInv, NEW w \in Writer, GoOnSending(w)
  PROVE  StreamInv'
PROOF
<1> SUFFICES ASSUME ~spoiled', part' # "ended"
             PROVE  \E b, o, r, t : Stream(b, o, r, t)'
  BY DEF StreamInv
<1>0. /\ Transmit(w, out[w]) /\ out[w] # <<>> /\ ~closed
      /\ UNCHANGED <<sent, reading, cut>> /\ got' = got /\ part' = part
  BY DEF GoOnSending, reading
<1>1. ~spoiled /\ \A v \in Writer \ {w} : out[v] = <<>>
  BY <1>0 DEF Transmit
<1>2. ~cut /\ TypeOK /\ out[w] \in Seq(Piece)
  BY <1>0 DEF IndInv, CutInv, TypeOK, Piece
<1> PICK b, o, r, t : Stream(b, o, r, t)
  BY <1>0, <1>1 DEF IndInv, StreamInv
<1>3. /\ Layout(sent, b, o) /\ Intervals(b, r, t) /\ Reading(b, o, r)
      /\ Written(b, t) /\ b \in Seq(Byte)
  BY <1>2 DEF Stream, Layout
<1>4. \E c : Covers(out[w], c, t, Len(b), b)
  BY <1>0, <1>3 DEF Written
<1> PICK c : Covers(out[w], c, t, Len(b), b)
  BY <1>4
<1>5. PICK u : Intervals(b, r, u)' /\ Written(b, u)'
  BY <1>0, <1>2, <1>3, SendMoves
<1>6. Layout(sent, b, o)' /\ Reading(b, o, r)'
  BY <1>0, <1>3, SameReader
<1>7. Stream(b, o, r, u)'
  BY <1>5, <1>6 DEF Stream
<1> QED BY <1>7

\* A send that fails loses what it had to send.
LEMMA FailKeepsStream ==
  ASSUME IndInv, NEW w \in Writer, SendFails(w)
  PROVE  StreamInv'
PROOF
<1> SUFFICES ASSUME ~spoiled', part' # "ended"
             PROVE  \E b, o, r, t : Stream(b, o, r, t)'
  BY DEF StreamInv
<1>1. /\ cut' = TRUE /\ UNCHANGED <<sent, reading>>
      /\ spoiled' = spoiled /\ part' = part /\ got' = got /\ wire' = wire
  BY DEF SendFails, reading
<1> PICK b, o, r, t : Stream(b, o, r, t)
  BY <1>1 DEF IndInv, StreamInv
<1>2. Layout(sent, b, o)' /\ Reading(b, o, r)'
  BY <1>1, SameReader DEF Stream
<1>3. Intervals(b, r, t)'
  BY <1>1 DEF Stream, Intervals
<1>4. Stream(b, o, r, t)'
  BY <1>1, <1>2, <1>3 DEF Stream
<1> QED BY <1>4

\* Closing the socket leaves a beginning of what was in flight, or all of it.
LEMMA CloseKeepsStream ==
  ASSUME IndInv, CloseSocket
  PROVE  StreamInv'
PROOF
<1> SUFFICES ASSUME ~spoiled', part' # "ended"
             PROVE  \E b, o, r, t : Stream(b, o, r, t)'
  BY DEF StreamInv
<1> PICK k \in 0 .. Len(wire) :
      /\ wire' = SubSeq(wire, 1, k)
      /\ cut' = (cut \/ k < Len(wire) \/ \E w \in Writer : out[w] # <<>>)
  BY DEF CloseSocket
<1>1. /\ UNCHANGED <<sent, reading>> /\ out' = out
      /\ spoiled' = spoiled /\ part' = part /\ got' = got
  BY DEF CloseSocket, reading, writing
<1> PICK b, o, r, t : Stream(b, o, r, t)
  BY <1>1 DEF IndInv, StreamInv
<1>2. Layout(sent, b, o)' /\ Reading(b, o, r)'
  BY <1>1, SameReader DEF Stream
<1>3. /\ r \in 0 .. Len(b) /\ t \in 0 .. Len(b) /\ t = r + Len(got) + Len(wire)
      /\ Holds(got, b, r) /\ Holds(wire, b, r + Len(got))
      /\ Len(b) \in Nat /\ Len(got) \in Nat /\ wire \in Seq(Byte) /\ Len(wire) \in Nat
  BY LenProperties DEF Stream, Intervals, Layout, IndInv, TypeOK
<1>4. /\ Len(wire') = k /\ \A x \in 1 .. k : wire'[x] = wire[x]
  BY <1>3, Cuts
<1> DEFINE u == r + Len(got) + k
<1>5. Intervals(b, r, u)'
  <2>1. u \in 0 .. Len(b)
    BY <1>3
  <2>2. Holds(wire', b, r + Len(got))
    <3>1. \A x \in 1 .. k : x \in 1 .. Len(wire)
      BY <1>3
    <3> QED BY <1>3, <1>4, <3>1 DEF Holds
  <2> QED BY <1>1, <1>3, <1>4, <2>1, <2>2 DEF Intervals
<1>6. ~cut' => Written(b, u)'
  <2> SUFFICES ASSUME ~cut' PROVE Written(b, u)'
    OBVIOUS
  <2>1. ~cut /\ k = Len(wire) /\ u = t
    <3>1. ~cut /\ ~(k < Len(wire))
      OBVIOUS
    <3>2. k = Len(wire)
      BY <1>3, <3>1
    <3> QED BY <1>3, <3>1, <3>2
  <2>2. Written(b, t)
    BY <2>1 DEF Stream
  <2> QED BY <1>1, <2>1, <2>2 DEF Written
<1> HIDE DEF u
<1>7. Stream(b, o, r, u)'
  BY <1>2, <1>5, <1>6 DEF Stream
<1> QED BY <1>7

\* The length before a text fits the reader's buffer.
LEMMA ItemLength ==
  ASSUME NEW i \in Item
  PROVE  \E m \in 1 .. BufferSize - 1 :
           /\ Decode(Parts(i)[1]) = m /\ Len(Parts(i)[1]) = Prefix
           /\ Len(Parts(i)) >= 2 /\ Len(Parts(i)[2]) = m
PROOF
<1>1. ASSUME NEW t \in Text, i = Message(t)
      PROVE  /\ Len(t) \in 1 .. BufferSize - 1
             /\ Decode(Parts(i)[1]) = Len(t) /\ Len(Parts(i)[1]) = Prefix
             /\ Len(Parts(i)) >= 2 /\ Len(Parts(i)[2]) = Len(t)
  <2>1. Len(Parts(i)) = 2 /\ Parts(i)[1] = Encode(Len(t)) /\ Parts(i)[2] = t
    BY <1>1, MessageParts
  <2>2. Len(t) \in Nat \ {0} /\ Len(t) < BufferSize /\ Len(t) \in 0 .. Power[Prefix] - 1
    BY TextIs
  <2>3. Decode(Encode(Len(t))) = Len(t) /\ Len(Encode(Len(t))) = Prefix
    BY <2>2, DecodeEncode, EncodeType
  <2>4. Len(t) \in 1 .. BufferSize - 1
    BY <2>2, Sizes
  <2> QED BY <2>1, <2>3, <2>4
<1>2. ASSUME NEW d \in Data, i = File(d)
      PROVE  /\ 2 \in 1 .. BufferSize - 1
             /\ Decode(Parts(i)[1]) = 2 /\ Len(Parts(i)[1]) = Prefix
             /\ Len(Parts(i)) >= 2 /\ Len(Parts(i)[2]) = 2
  <2>1. /\ Len(Parts(i)) = IF d = <<>> THEN 3 ELSE 4
        /\ Parts(i)[1] = Encode(2) /\ Parts(i)[2] = Header(d)
    BY <1>2, FileParts
  <2>2. Len(Header(d)) = 2
    BY DataIs
  <2>3. 2 \in 0 .. Power[Prefix] - 1 /\ 2 \in 1 .. BufferSize - 1 /\ 2 \in Nat
    BY Sizes
  <2>4. Decode(Encode(2)) = 2 /\ Len(Encode(2)) = Prefix
    BY <2>3, DecodeEncode, EncodeType
  <2> QED BY <2>1, <2>2, <2>3, <2>4
<1> QED BY <1>1, <1>2 DEF Item

\* An item of more than two parts is a file.
LEMMA ItemIsFile ==
  ASSUME NEW i \in Item, Len(Parts(i)) >= 3
  PROVE  \E d \in Data : i = File(d)
PROOF
<1>1. ASSUME NEW t \in Text, i = Message(t) PROVE FALSE
  <2>1. Len(Parts(i)) = 2
    BY <1>1, MessageParts
  <2> QED BY <2>1
<1> QED BY <1>1 DEF Item

\* What the reader does with a part that it has read whole: it goes on to the next
\* part, or delivers the item and goes on to the next item.
Proceeds(b, o, r) ==
  /\ part' # "ended" /\ got' = <<>>
  /\ Reading(b, o, r)'
  /\ \/ delivered' = delivered
     \/ /\ Len(delivered) < Len(sent)
        /\ delivered' = Append(delivered, sent[Len(delivered) + 1])

\* The next part of the same item.
LEMMA NextPart ==
  ASSUME UNCHANGED <<sent, delivered>>, NEW b, NEW o, NEW c, NEW r,
         NEW n, n = Len(delivered) + 1, n <= Len(sent),
         NEW P, P = Parts(sent[n]), Covers(P, c, o[n - 1], o[n], b),
         NEW j \in 1 .. Len(P), NEW k, k = j + 1, k <= Len(P),
         r = c[j] + Len(P[j]), need' = Len(P[k])
  PROVE  AtPart(k, b, o, r)'
PROOF
<1>1. r = c[k]
  BY DEF Covers, CoversFirst
<1> QED BY <1>1 DEF AtPart

\* The last part of the item, which is delivered.
LEMMA LastPart ==
  ASSUME delivered \in Seq(Delivery), sent \in Seq(Item), NEW i \in Delivery,
         UNCHANGED sent, Deliver(i), Expect("length", Prefix),
         NEW b, NEW o, NEW c, NEW r,
         NEW n, n = Len(delivered) + 1, n <= Len(sent), i = sent[n],
         NEW P, P = Parts(i), Covers(P, c, o[n - 1], o[n], b),
         NEW j \in 1 .. Len(P), j = Len(P), r = c[j] + Len(P[j])
  PROVE  Proceeds(b, o, r)
PROOF
<1>1. r = o[n]
  BY DEF Covers, CoversFirst
<1>2. delivered' = Append(delivered, i) /\ Len(delivered') = Len(delivered) + 1
  BY AppendProperties DEF Deliver
<1>3. part' = "length" /\ got' = <<>> /\ Len(delivered) < Len(sent)
  BY LenProperties DEF Expect
<1>4. Reading(b, o, r)'
  BY <1>1, <1>2, <1>3 DEF Reading
<1> QED BY <1>2, <1>3, <1>4 DEF Proceeds

\* A length that has been read is that of the next item.
LEMMA LengthRead ==
  ASSUME TypeOK, UNCHANGED sent, NEW b, NEW o, NEW r, Layout(sent, b, o),
         part = "length", r = o[Len(delivered)], Len(delivered) <= Len(sent),
         NEW s \in Seq(Byte), Len(s) = need, Holds(s, b, r),
         NEW q, q = r + need, q <= Len(b), GotLength(s)
  PROVE  Proceeds(b, o, q)
PROOF
<1> DEFINE n == Len(delivered) + 1
           P == Parts(sent[n])
<1>0. /\ need = Prefix /\ Prefix \in Nat \ {0} /\ Len(delivered) \in Nat
      /\ sent \in Seq(Item) /\ Len(sent) \in Nat /\ b \in Seq(Byte) /\ Len(b) \in Nat
  BY Sizes, LenProperties DEF TypeOK, Layout
<1>1. n \in 1 .. Len(sent) /\ n - 1 = Len(delivered)
  <2>1. Len(delivered) # Len(sent)
    <3>1. r \in Nat /\ o[Len(sent)] = Len(b)
      BY <1>0 DEF Layout
    <3>2. r # Len(b)
      BY <1>0, <3>1
    <3> QED BY <3>1, <3>2
  <2> QED BY <1>0, <2>1
<1>2. sent[n] \in Item
  BY <1>0, <1>1, ElementOfSeq
<1>3. P \in Seq(Piece) /\ Len(P) \in Nat
  BY <1>2, ItemParts
<1> PICK m \in 1 .. BufferSize - 1 :
      /\ Decode(P[1]) = m /\ Len(P[1]) = Prefix /\ Len(P) >= 2 /\ Len(P[2]) = m
  BY <1>2, ItemLength
<1> PICK c : Covers(P, c, o[n - 1], o[n], b)
  BY <1>1 DEF Layout
<1> HIDE DEF P
<1>4. 1 \in 1 .. Len(P) /\ 2 \in 1 .. Len(P)
  BY <1>3
<1>5. c[1] = r
  BY <1>1 DEF Covers, CoversFirst
<1>6. s = P[1]
  BY <1>0, <1>3, <1>4, <1>5, PartRead
<1>7. Decode(s) = m /\ m \in Nat /\ m # 0 /\ ~(m >= BufferSize)
  BY <1>6, Sizes
<1>8. Expect("text", m) /\ UNCHANGED <<announced, delivered, spoiled>>
  BY <1>7 DEF GotLength
<1>9. part' = "text" /\ need' = m /\ got' = <<>>
  BY <1>8 DEF Expect
<1>10. AtPart(2, b, o, q)'
  <2> DEFINE j == 1
             k == 2
  <2>1. /\ k = j + 1 /\ j \in 1 .. Len(P) /\ k <= Len(P)
        /\ n = Len(delivered) + 1 /\ n <= Len(sent) /\ P = Parts(sent[n])
        /\ q = c[j] + Len(P[j]) /\ need' = Len(P[k])
    BY <1>0, <1>1, <1>3, <1>4, <1>5, <1>9 DEF P
  <2>2. UNCHANGED <<sent, delivered>> /\ Covers(P, c, o[n - 1], o[n], b)
    BY <1>8
  <2> HIDE DEF j, k, n
  <2>3. AtPart(k, b, o, q)'
    BY <2>1, <2>2, NextPart
  <2> QED BY <2>3 DEF k
<1>11. Reading(b, o, q)'
  BY <1>9, <1>10 DEF Reading
<1> QED BY <1>8, <1>9, <1>11 DEF Proceeds

\* The reader goes on to a part, to the next item, or gives the file up.
LEMMA LaterPartRead ==
  ASSUME TypeOK, UNCHANGED sent, NEW b, NEW o, NEW r, Layout(sent, b, o),
         NEW j \in {2, 3, 4}, AtPart(j, b, o, r),
         part = (IF j = 2 THEN "text" ELSE IF j = 3 THEN "size" ELSE "data"),
         j = 3 => announced = Len(sent[Len(delivered) + 1].bytes),
         NEW s \in Seq(Byte), Len(s) = need, Holds(s, b, r),
         NEW q, q = r + need, Completed(s), ~spoiled'
  PROVE  Proceeds(b, o, q)
PROOF
<1> DEFINE n == Len(delivered) + 1
           i == sent[n]
           P == Parts(i)
<1>0. /\ Len(delivered) \in Nat /\ delivered \in Seq(Delivery)
      /\ sent \in Seq(Item) /\ Len(sent) \in Nat
  BY LenProperties DEF TypeOK, Delivery
<1>1. n \in 1 .. Len(sent) /\ j <= Len(P) /\ need = Len(P[j])
  BY <1>0 DEF AtPart
<1>2. i \in Item
  BY <1>0, <1>1, ElementOfSeq
<1>3. P \in Seq(Piece) /\ Len(P) \in Nat /\ i \in Delivery
  BY <1>2, ItemParts DEF Delivery
<1> PICK c : Covers(P, c, o[n - 1], o[n], b) /\ r = c[j]
  BY DEF AtPart
<1>4. j \in 1 .. Len(P) /\ q = c[j] + Len(P[j])
  BY <1>1, <1>3
<1>5. s = P[j]
  <2> HIDE DEF P
  <2> QED BY <1>1, <1>3, <1>4, PartRead
<1>6. ~Abandon
  BY DEF Abandon
<1>7. ASSUME Deliver(i), Expect("length", Prefix), j = Len(P)
      PROVE  Proceeds(b, o, q)
  <2>1. n = Len(delivered) + 1 /\ n <= Len(sent) /\ i = sent[n] /\ P = Parts(i)
    BY <1>1
  <2> HIDE DEF n, i, P
  <2> QED BY ZenonT(60), <1>0, <1>3, <1>4, <1>7, <2>1, LastPart
<1>8. ASSUME NEW k, k = j + 1, k <= Len(P), UNCHANGED delivered, need' = Len(P[k])
      PROVE  AtPart(k, b, o, q)'
  <2>1. n = Len(delivered) + 1 /\ n <= Len(sent) /\ P = Parts(sent[n])
    BY <1>1
  <2> HIDE DEF n, i, P
  <2> QED BY <1>4, <1>8, <2>1, NextPart
<1>9. CASE j = 2 /\ \E t \in Text : i = Message(t)
  <2> PICK t \in Text : i = Message(t)
    BY <1>9
  <2>1. Len(P) = 2 /\ P[2] = t
    BY MessageParts
  <2>2. GotText(s) /\ s = t /\ ~IsHeader(s)
    BY <1>5, <1>9, <2>1, TextIs DEF Completed
  <2>3. Deliver(i) /\ Expect("length", Prefix)
    BY <2>2 DEF GotText
  <2> QED BY <1>7, <1>9, <2>1, <2>3
<1>10. CASE j = 2 /\ \E d \in Data : i = File(d)
  <2> PICK d \in Data : i = File(d)
    BY <1>10
  <2>1. Len(P) >= 3 /\ P[2] = Header(d) /\ P[3] = Encode(Len(d))
    BY FileParts
  <2>2. GotText(s) /\ IsHeader(s) /\ s[2] = Len(d) /\ Len(d) \in Nat
    BY <1>5, <1>10, <2>1, DataIs DEF Completed
  <2>3. /\ part' = "size" /\ need' = Prefix /\ got' = <<>> /\ announced' = Len(d)
        /\ delivered' = delivered
    BY <2>2 DEF GotText, Expect
  <2>4. Len(P[3]) = Prefix
    BY <2>1, <2>2, EncodeType
  <2>5. AtPart(3, b, o, q)'
    <3> DEFINE k == 3
    <3>1. k = j + 1 /\ k <= Len(P) /\ need' = Len(P[k])
      BY <1>10, <2>1, <2>3, <2>4
    <3> HIDE DEF k, P
    <3>2. AtPart(k, b, o, q)'
      BY <1>8, <2>3, <3>1
    <3> QED BY <3>2 DEF k
  <2>6. announced' = Len(sent'[Len(delivered') + 1].bytes)
    BY <2>3 DEF File
  <2>7. Reading(b, o, q)'
    BY <2>3, <2>5, <2>6 DEF Reading
  <2> QED BY <2>3, <2>7 DEF Proceeds
<1>11. CASE j \in {3, 4}
  <2>1. Len(P) >= 3
    BY <1>1, <1>3, <1>11
  <2> PICK d \in Data : i = File(d)
    BY <1>2, <2>1, ItemIsFile
  <2>2. /\ Len(P) = IF d = <<>> THEN 3 ELSE 4
        /\ P[3] = Encode(Len(d)) /\ (d # <<>> => P[4] = d)
    BY FileParts
  <2>3. Len(d) \in Nat /\ (Len(d) = 0 <=> d = <<>>) /\ i.bytes = d
    BY DataIs DEF File
  <2>4. CASE j = 3
    <3>1. GotSize(s) /\ announced = Len(d)
      BY <2>3, <2>4 DEF Completed
    <3>2. CASE d = <<>>
      <4>1. Expect("length", Prefix) /\ Deliver(File(<<>>))
        BY <1>6, <2>3, <3>1, <3>2 DEF GotSize
      <4> QED BY <1>7, <2>2, <2>4, <3>2, <4>1
    <3>3. CASE d # <<>>
      <4>1. Expect("data", announced) /\ UNCHANGED delivered
        BY <1>6, <2>3, <3>1, <3>3 DEF GotSize
      <4>2. part' = "data" /\ need' = Len(d) /\ got' = <<>>
        BY <3>1, <4>1 DEF Expect
      <4>3. AtPart(4, b, o, q)'
        <5> DEFINE k == 4
        <5>1. k = j + 1 /\ k <= Len(P) /\ need' = Len(P[k])
          BY <2>2, <2>4, <3>3, <4>2
        <5> HIDE DEF k, P
        <5>2. AtPart(k, b, o, q)'
          BY <1>8, <4>1, <5>1
        <5> QED BY <5>2 DEF k
      <4>4. Reading(b, o, q)'
        BY <4>2, <4>3 DEF Reading
      <4> QED BY <4>1, <4>2, <4>4 DEF Proceeds
    <3> QED BY <3>2, <3>3
  <2>5. CASE j = 4
    <3>1. d # <<>> /\ Len(P) = 4
      BY <1>1, <2>2, <2>5
    <3>2. GotData(s) /\ s = d
      BY <1>5, <2>2, <2>5, <3>1 DEF Completed
    <3>3. Expect("length", Prefix) /\ Deliver(i)
      BY <1>6, <3>2 DEF GotData
    <3> QED BY <1>7, <2>5, <3>1, <3>3
  <2> QED BY <1>11, <2>4, <2>5
<1> QED BY <1>2, <1>9, <1>10, <1>11 DEF Item

\* The next item arrives, or none.
DeliversNext ==
  \/ delivered' = delivered
  \/ /\ Len(delivered) < Len(sent)
     /\ delivered' = Append(delivered, sent[Len(delivered) + 1])

\* A recv of a stream that is not spoiled: the reader stays where the stream is.
LEMMA ReceiveProceeds ==
  ASSUME IndInv, Receive, ~spoiled'
  PROVE  /\ ~spoiled /\ part' # "ended" /\ DeliversNext
         /\ \E b, o, r, t : Stream(b, o, r, t)'
PROOF
<1>0. /\ TypeOK /\ part # "ended" /\ sent' = sent /\ out' = out /\ cut' = cut
  BY DEF IndInv, Receive, writing
<1> PICK k \in 1 .. Len(wire), s \in Seq(Byte) :
      /\ Len(s) = Len(got) + k /\ Holds(got, s, 0)
      /\ \A x \in 1 .. k : s[Len(got) + x] = wire[x]
      /\ wire' \in Seq(Byte) /\ Len(wire') = Len(wire) - k
      /\ \A x \in 1 .. Len(wire) - k : wire'[x] = wire[k + x]
      /\ \/ /\ Len(s) < need /\ got' = s
            /\ UNCHANGED <<part, need, announced, delivered, spoiled>>
         \/ Len(s) = need /\ Completed(s)
  BY <1>0, Receives
<1>1. ~spoiled
  BY DEF Completed, GotLength, GotText, GotSize, GotData, Abandon
<1> PICK b, o, r, t : Stream(b, o, r, t)
  BY <1>0, <1>1 DEF IndInv, StreamInv
<1>2. /\ r \in 0 .. Len(b) /\ t \in 0 .. Len(b) /\ t = r + Len(got) + Len(wire)
      /\ Holds(got, b, r) /\ Holds(wire, b, r + Len(got))
      /\ Len(b) \in Nat /\ Len(got) \in Nat /\ Len(wire) \in Nat /\ k \in Nat
      /\ Layout(sent, b, o) /\ Reading(b, o, r)
      /\ Len(delivered) <= Len(sent)
  BY <1>0, <1>1, LenProperties DEF Stream, Intervals, Layout, TypeOK, IndInv, DeliveredInv
<1>3. Holds(s, b, r)
  <2> SUFFICES ASSUME NEW x \in 1 .. Len(got) + k PROVE s[x] = b[r + x]
    BY DEF Holds
  <2>1. CASE x <= Len(got)
    <3>1. x \in 1 .. Len(got) /\ 0 + x = x
      BY <1>2, <2>1
    <3>2. got[x] = s[0 + x]
      BY <3>1 DEF Holds
    <3> QED BY <1>2, <3>1, <3>2 DEF Holds
  <2>2. CASE ~(x <= Len(got))
    <3> DEFINE y == x - Len(got)
    <3>1. y \in 1 .. k /\ y \in 1 .. Len(wire) /\ x = Len(got) + y
          /\ (r + Len(got)) + y = r + x
      BY SMTT(40), <1>2, <2>2
    <3> HIDE DEF y
    <3>2. wire[y] = b[(r + Len(got)) + y]
      BY <1>2, <3>1 DEF Holds
    <3> QED BY <3>1, <3>2
  <2> QED BY <2>1, <2>2
<1>4. Holds(wire', b, r + (Len(got) + k))
  <2> SUFFICES ASSUME NEW x \in 1 .. Len(wire) - k
               PROVE  wire'[x] = b[(r + (Len(got) + k)) + x]
    BY DEF Holds
  <2>1. k + x \in 1 .. Len(wire) /\ (r + Len(got)) + (k + x) = (r + (Len(got) + k)) + x
    BY <1>2
  <2>2. wire[k + x] = b[(r + Len(got)) + (k + x)]
    BY <1>2, <2>1 DEF Holds
  <2> QED BY <2>1, <2>2
<1>5. Layout(sent, b, o)'
  BY <1>0, <1>2 DEF Layout
<1>6. ~cut' => Written(b, t)'
  BY <1>0 DEF Stream, Written
<1>7. t = r + (Len(got) + k) + (Len(wire) - k)
  BY <1>2
<1>8. CASE Len(s) < need /\ got' = s
           /\ UNCHANGED <<part, need, announced, delivered, spoiled>>
  <2>1. Intervals(b, r, t)'
    BY <1>2, <1>3, <1>4, <1>7, <1>8 DEF Intervals
  <2>2. \A j : AtPart(j, b, o, r) => AtPart(j, b, o, r)'
    BY <1>0, <1>8 DEF AtPart
  <2>3. Reading(b, o, r)'
    BY <1>0, <1>2, <1>8, <2>2 DEF Reading
  <2>4. Stream(b, o, r, t)'
    BY <1>5, <1>6, <2>1, <2>3 DEF Stream
  <2> QED BY <1>0, <1>1, <1>8, <2>4 DEF DeliversNext
<1>9. CASE Len(s) = need /\ Completed(s)
  <2> PICK q : q = r + need
    OBVIOUS
  <2>1. q = r + (Len(got) + k) /\ q \in 0 .. Len(b)
    <3>1. need = Len(got) + k
      BY <1>9
    <3>2. q = r + (Len(got) + k)
      BY <3>1
    <3> DEFINE g == Len(got)
               w == Len(wire)
               l == Len(b)
    <3>3. /\ r \in Nat /\ g \in Nat /\ k \in Nat /\ w \in Nat /\ l \in Nat
          /\ t = r + g + w /\ t <= l /\ k <= w
      BY <1>2
    <3> HIDE DEF g, w, l
    <3>4. r + (g + k) \in 0 .. l
      BY SMTT(40), <3>3
    <3> QED BY <3>2, <3>4 DEF g, l
  <2>2. Proceeds(b, o, q)
    <3>1. CASE part = "length"
      <4>1. GotLength(s) /\ r = o[Len(delivered)] /\ q <= Len(b)
        BY <1>2, <1>9, <2>1, <3>1 DEF Completed, Reading
      <4> QED BY <1>0, <1>2, <1>3, <1>9, <3>1, <4>1, LengthRead
    <3>2. CASE part # "length"
      <4>1. PICK j \in {2, 3, 4} :
              /\ AtPart(j, b, o, r)
              /\ part = (IF j = 2 THEN "text" ELSE IF j = 3 THEN "size" ELSE "data")
              /\ j = 3 => announced = Len(sent[Len(delivered) + 1].bytes)
        BY SMTT(40), <1>2, <3>2 DEF Reading
      <4> QED BY <1>0, <1>2, <1>3, <1>9, <4>1, LaterPartRead
    <3> QED BY <3>1, <3>2
  <2>3. /\ part' # "ended" /\ got' = <<>> /\ Reading(b, o, q)' /\ DeliversNext
    BY <2>2 DEF Proceeds, DeliversNext
  <2>4. Intervals(b, q, t)'
    <3>1. t = q + (Len(wire) - k)
      BY <1>7, <2>1
    <3>2. got' = <<>> /\ Len(got') = 0 /\ Holds(got', b, q)
      BY <2>3 DEF Holds
    <3>3. q + Len(got') = q
      BY <2>1, <3>2
    <3>4. Holds(wire', b, q + Len(got'))
      BY <1>4, <2>1, <3>3
    <3>5. t = q + Len(got') + Len(wire')
      BY <3>1, <3>3
    <3> QED BY <1>2, <2>1, <3>2, <3>4, <3>5 DEF Intervals
  <2>5. Stream(b, o, q, t)'
    BY <1>5, <1>6, <2>3, <2>4 DEF Stream
  <2> QED BY <1>1, <2>3, <2>5
<1> QED BY <1>8, <1>9

-----------------------------------------------------------------------------
(***************************************************************************)
(* The invariant, by the actions.                                          *)
(***************************************************************************)
\* A part ends where its item does, or before.
LEMMA PartInside ==
  ASSUME NEW parts \in Seq(Piece), NEW c, NEW lo, NEW hi \in Nat, NEW b,
         Covers(parts, c, lo, hi, b), NEW j \in 1 .. Len(parts)
  PROVE  c[j] + Len(parts[j]) <= hi
PROOF
<1> DEFINE k == j + 1
<1>1. k \in 1 .. Len(parts) + 1 /\ Len(parts) \in Nat
  BY LenProperties
<1>2. c[k] = c[j] + Len(parts[j])
  BY DEF Covers, CoversFirst
<1> HIDE DEF k
<1>3. c[k] \in 0 .. hi
  BY <1>1 DEF Covers, CoversFirst
<1> QED BY <1>2, <1>3

\* What nothing in flight and nothing to send means: everything has arrived.
LEMMA QuietStream ==
  ASSUME IndInv, part # "ended", ~spoiled, ~cut, wire = <<>>,
         \A w \in Writer : out[w] = <<>>
  PROVE  part = "length" /\ got = <<>> /\ delivered = sent
PROOF
<1> PICK b, o, r, t : Stream(b, o, r, t)
  BY DEF IndInv, StreamInv
<1>1. /\ Len(b) \in Nat /\ r \in 0 .. Len(b) /\ t = r + Len(got) + Len(wire)
      /\ Layout(sent, b, o) /\ Reading(b, o, r) /\ Written(b, t)
  BY LenProperties DEF Stream, Intervals, Layout
<1>2. /\ need \in Nat /\ got \in Seq(Byte) /\ Len(got) \in Nat /\ Len(got) < need
      /\ part = "length" => need = Prefix
  BY LenProperties DEF IndInv, TypeOK
<1>3. r + Len(got) = Len(b)
  <2>1. t = Len(b) /\ Len(wire) = 0
    BY <1>1, NothingToSend
  <2> QED BY <1>1, <1>2, <2>1
<1>4. /\ sent \in Seq(Item) /\ delivered \in Seq(Delivery)
      /\ Len(sent) \in Nat /\ Len(delivered) \in Nat
      /\ Len(delivered) <= Len(sent)
      /\ \A n \in 1 .. Len(delivered) : delivered[n] = sent[n]
  BY LenProperties DEF IndInv, TypeOK, Delivery, DeliveredInv
\* The part under way would end behind the end of the stream.
<1>5. ASSUME NEW n \in 1 .. Len(sent), NEW j \in 1 .. Len(Parts(sent[n])),
             NEW c, Covers(Parts(sent[n]), c, o[n - 1], o[n], b),
             r = c[j], need = Len(Parts(sent[n])[j])
      PROVE  FALSE
  <2> DEFINE P == Parts(sent[n])
  <2>1. P \in Seq(Piece)
    BY <1>4, ElementOfSeq, ItemParts
  <2>2. o[n] \in 0 .. Len(b)
    <3>1. n \in 0 .. Len(sent)
      BY <1>4
    <3> QED BY <1>1, <3>1 DEF Layout
  <2> HIDE DEF P
  <2>3. c[j] + Len(P[j]) <= o[n]
    <3>1. o[n] \in Nat /\ j \in 1 .. Len(P) /\ Covers(P, c, o[n - 1], o[n], b)
      BY <1>1, <1>5, <2>2 DEF P
    <3> HIDE <1>5
    <3> QED BY <2>1, <3>1, PartInside
  <2>4. r + need <= o[n]
    BY <1>5, <2>3 DEF P
  <2> DEFINE e == o[n]
             g == Len(got)
             l == Len(b)
  <2>5. /\ r \in Nat /\ g \in Nat /\ need \in Nat /\ l \in Nat /\ e \in Nat
        /\ e <= l /\ g < need /\ r + g = l /\ r + need <= e
    BY <1>1, <1>2, <1>3, <2>2, <2>4
  <2> HIDE DEF e, g, l
  <2> QED BY <2>5
<1>6. ASSUME NEW j \in {2, 3, 4}, AtPart(j, b, o, r) PROVE FALSE
  <2> PICK n : n = Len(delivered) + 1
    OBVIOUS
  <2>1. /\ n <= Len(sent) /\ j <= Len(Parts(sent[n])) /\ need = Len(Parts(sent[n])[j])
        /\ \E c : Covers(Parts(sent[n]), c, o[n - 1], o[n], b) /\ r = c[j]
    BY <1>6 DEF AtPart
  <2>2. n \in 1 .. Len(sent)
    BY <1>4, <2>1
  <2>3. Parts(sent[n]) \in Seq(Piece)
    BY <1>4, <2>2, ElementOfSeq, ItemParts
  <2>4. j \in 1 .. Len(Parts(sent[n]))
    BY <2>1, <2>3, LenProperties
  <2> QED BY <1>5, <2>1, <2>2, <2>4
<1>7. part = "length" /\ r = o[Len(delivered)]
  BY <1>1, <1>6 DEF Reading
<1>8. Len(delivered) = Len(sent)
  <2> SUFFICES ASSUME Len(delivered) < Len(sent) PROVE FALSE
    BY <1>4
  <2> PICK n : n = Len(delivered) + 1
    OBVIOUS
  <2>1. n \in 1 .. Len(sent) /\ n - 1 = Len(delivered)
    BY <1>4
  <2>2. sent[n] \in Item
    BY <1>4, <2>1, ElementOfSeq
  <2>3. /\ Parts(sent[n]) \in Seq(Piece)
        /\ 1 \in 1 .. Len(Parts(sent[n])) /\ Len(Parts(sent[n])[1]) = Prefix
    <3>1. Parts(sent[n]) \in Seq(Piece)
      BY <2>2, ItemParts
    <3>2. Len(Parts(sent[n])) >= 2 /\ Len(Parts(sent[n])[1]) = Prefix
      BY <2>2, ItemLength
    <3> QED BY <3>1, <3>2, LenProperties
  <2> PICK c : Covers(Parts(sent[n]), c, o[n - 1], o[n], b)
    BY <1>1, <2>1 DEF Layout
  <2>4. c[1] = o[n - 1]
    BY DEF Covers, CoversFirst
  <2> QED BY <1>2, <1>5, <1>7, <2>1, <2>3, <2>4
<1>9. got = <<>>
  <2>1. o[Len(delivered)] = Len(b)
    BY <1>1, <1>4, <1>8 DEF Layout
  <2>2. Len(got) = 0
    BY <1>1, <1>2, <1>3, <1>7, <2>1
  <2> QED BY <1>2, <2>2, EmptySeq
<1>10. sent \in Seq(Delivery)
  <2>1. Item \subseteq Delivery
    BY ItemParts DEF Delivery
  <2>2. \A n \in 1 .. Len(sent) : sent[n] \in Delivery
    BY <1>4, <2>1, ElementOfSeq
  <2> QED BY <1>4, <2>2, IsASeq
<1>11. delivered = sent
  BY <1>4, <1>8, <1>10, SeqEqual
<1> QED BY <1>7, <1>9, <1>11

\* What the end of a stream nothing of which was lost means: everything has arrived.
LEMMA EndOfStream ==
  ASSUME IndInv, ~spoiled, ~cut, closed, part = "length", got = <<>>, wire = <<>>
  PROVE  delivered = sent
PROOF
<1>1. \A w \in Writer : out[w] = <<>>
  BY Zenon DEF IndInv, CutInv
<1>2. part # "ended"
  OBVIOUS
<1> QED BY <1>1, <1>2, QuietStream

\* One more item behind those that were delivered leaves them the first ones.
LEMMA SendKeepsDelivered ==
  ASSUME TypeOK, DeliveredInv, NEW i \in Item, sent' = Append(sent, i),
         delivered' = delivered, ~spoiled' => ~spoiled
  PROVE  DeliveredInv'
PROOF
<1> SUFFICES ASSUME ~spoiled'
             PROVE  /\ Len(delivered') <= Len(sent')
                    /\ \A n \in 1 .. Len(delivered') : delivered'[n] = sent'[n]
  BY DEF DeliveredInv
<1>1. /\ Len(sent) \in Nat /\ Len(delivered) \in Nat /\ Len(delivered) <= Len(sent)
      /\ \A n \in 1 .. Len(delivered) : delivered[n] = sent[n]
  BY LenProperties DEF TypeOK, DeliveredInv
<1>2. Len(sent') = Len(sent) + 1 /\ \A n \in 1 .. Len(sent) : sent'[n] = sent[n]
  BY AppendProperties DEF TypeOK
<1>3. \A n \in 1 .. Len(delivered) : n \in 1 .. Len(sent)
  BY <1>1
<1>4. Len(delivered) <= Len(sent) + 1
  BY <1>1
<1> QED BY <1>1, <1>2, <1>3, <1>4

\* The item that arrives is the one sent next.
LEMMA DeliveryKeepsDelivered ==
  ASSUME TypeOK, DeliveredInv, ~spoiled, DeliversNext, sent' = sent
  PROVE  DeliveredInv'
PROOF
<1>1. /\ Len(sent) \in Nat /\ Len(delivered) \in Nat /\ Len(delivered) <= Len(sent)
      /\ \A n \in 1 .. Len(delivered) : delivered[n] = sent[n]
      /\ delivered \in Seq(Delivery) /\ sent \in Seq(Item)
  BY LenProperties DEF TypeOK, DeliveredInv, Delivery
<1>2. CASE delivered' = delivered
  BY <1>1, <1>2 DEF DeliveredInv
<1>3. CASE /\ Len(delivered) < Len(sent)
           /\ delivered' = Append(delivered, sent[Len(delivered) + 1])
  <2> DEFINE n == Len(delivered) + 1
  <2>1. n \in 1 .. Len(sent) /\ n <= Len(sent)
    BY <1>1, <1>3
  <2>2. sent[n] \in Delivery
    BY <1>1, <2>1, ElementOfSeq, ItemParts DEF Delivery
  <2>3. /\ Len(delivered') = n /\ delivered'[n] = sent[n]
        /\ \A m \in 1 .. Len(delivered) : delivered'[m] = delivered[m]
    BY <1>1, <1>3, <2>2, AppendProperties
  <2>4. \A m \in 1 .. n : m = n \/ m \in 1 .. Len(delivered)
    BY <1>1
  <2> HIDE DEF n
  <2> QED BY <1>1, <2>1, <2>3, <2>4 DEF DeliveredInv
<1> QED BY <1>2, <1>3 DEF DeliversNext

\* A writer begins with an item, goes on with it or fails.
LEMMA WriterKeeps ==
  ASSUME IndInv, NEW w \in Writer, Write(w) \/ \E i \in Item : StartSend(w, i)
  PROVE  IndInv'
PROOF
<1>0. TypeOK /\ DeliveredInv /\ CutInv /\ TypeOK'
  BY WriterTypes DEF IndInv
<1>1. ASSUME NEW i \in Item, StartSend(w, i) PROVE IndInv'
  <2>1. /\ ~closed /\ part # "ended" /\ sent' = Append(sent, i)
        /\ closed' = closed /\ part' = part /\ delivered' = delivered /\ cut' = cut
        /\ (~spoiled' => ~spoiled)
    BY <1>1 DEF StartSend, Transmit, reading
  <2>2. DeliveredInv'
    BY <1>0, <2>1, SendKeepsDelivered
  <2>3. CutInv' /\ EndsWithConnection'
    BY <1>0, <2>1 DEF CutInv, EndsWithConnection
  <2> QED BY <1>0, <1>1, <2>2, <2>3, StartKeepsStream DEF IndInv
<1>2. ASSUME GoOnSending(w) PROVE IndInv'
  <2>1. /\ ~closed /\ part # "ended" /\ sent' = sent
        /\ closed' = closed /\ part' = part /\ delivered' = delivered /\ cut' = cut
        /\ (~spoiled' => ~spoiled)
    BY <1>2 DEF GoOnSending, Transmit, reading
  <2>2. DeliveredInv'
    BY <1>0, <2>1 DEF DeliveredInv
  <2>3. CutInv' /\ EndsWithConnection'
    BY <1>0, <2>1 DEF CutInv, EndsWithConnection
  <2> QED BY <1>0, <1>2, <2>2, <2>3, GoOnKeepsStream DEF IndInv
<1>3. ASSUME SendFails(w) PROVE IndInv'
  <2>1. /\ closed \/ part = "ended"
        /\ closed' = closed /\ part' = part /\ delivered' = delivered /\ cut' = TRUE
        /\ sent' = sent /\ spoiled' = spoiled
    BY <1>3 DEF SendFails, reading
  <2>2. DeliveredInv'
    BY <1>0, <2>1 DEF DeliveredInv
  <2>3. CutInv' /\ EndsWithConnection'
    BY <2>1 DEF CutInv, EndsWithConnection
  <2> QED BY <1>0, <1>3, <2>2, <2>3, FailKeepsStream DEF IndInv
<1> QED BY <1>1, <1>2, <1>3 DEF Write

\* The socket is closed.
LEMMA CloseKeeps ==
  ASSUME IndInv, CloseSocket
  PROVE  IndInv'
PROOF
<1>1. TypeOK' /\ StreamInv'
  BY CloseTypes, CloseKeepsStream DEF IndInv
<1>2. /\ ~closed /\ closed' = TRUE /\ out' = out /\ sent' = sent
      /\ part' = part /\ delivered' = delivered /\ spoiled' = spoiled
      /\ (cut => cut') /\ (~cut' => \A w \in Writer : out[w] = <<>>)
  BY DEF CloseSocket, writing, reading
<1>3. DeliveredInv'
  BY <1>2 DEF IndInv, DeliveredInv
<1>4. CutInv'
  BY <1>2 DEF CutInv
<1>5. EndsWithConnection'
  BY <1>2 DEF IndInv, EndsWithConnection
<1> QED BY <1>1, <1>3, <1>4, <1>5 DEF IndInv

\* The reader receives, gives a file up or comes to the end.
LEMMA ReaderKeeps ==
  ASSUME IndInv, Read \/ Quit
  PROVE  IndInv'
PROOF
<1>0. TypeOK /\ DeliveredInv /\ CutInv /\ TypeOK'
  BY ReadTypes DEF IndInv
<1>1. ASSUME Receive PROVE IndInv'
  <2>1. /\ part # "ended" /\ sent' = sent /\ out' = out /\ closed' = closed /\ cut' = cut
    BY <1>1 DEF Receive, writing
  <2>2. CutInv'
    BY <1>0, <2>1 DEF CutInv
  <2>3. ASSUME ~spoiled'
        PROVE  /\ ~spoiled /\ part' # "ended" /\ DeliversNext
               /\ \E b, o, r, t : Stream(b, o, r, t)'
    BY <1>1, <2>3, ReceiveProceeds
  <2>4. DeliveredInv'
    <3>1. CASE ~spoiled'
      BY <1>0, <2>1, <2>3, <3>1, DeliveryKeepsDelivered
    <3>2. CASE spoiled'
      BY <3>2 DEF DeliveredInv
    <3> QED BY <3>1, <3>2
  <2>5. StreamInv'
    BY <2>3 DEF StreamInv
  <2>6. EndsWithConnection'
    BY <2>3 DEF EndsWithConnection
  <2> QED BY <1>0, <2>2, <2>4, <2>5, <2>6 DEF IndInv
<1>2. ASSUME WriteFails PROVE IndInv'
  <2>1. /\ spoiled' = TRUE /\ part = "data" /\ out' = out /\ closed' = closed /\ cut' = cut
    BY <1>2 DEF WriteFails, Abandon, writing
  <2>2. CutInv'
    BY <1>0, <2>1 DEF CutInv
  <2> QED
    BY <1>0, <2>1, <2>2 DEF IndInv, DeliveredInv, StreamInv, EndsWithConnection
<1>3. ASSUME ReceiveEnd PROVE IndInv'
  <2>1. /\ part # "ended" /\ wire = <<>> /\ closed /\ part' = "ended"
        /\ cut' = (cut \/ part # "length" \/ got # <<>>)
        /\ out' = out /\ sent' = sent /\ closed' = closed
        /\ delivered' = delivered /\ spoiled' = spoiled
    BY <1>3 DEF ReceiveEnd, Stop, writing
  <2>2. DeliveredInv' /\ StreamInv'
    BY <1>0, <2>1 DEF DeliveredInv, StreamInv
  <2>3. CutInv'
    BY <1>0, <2>1 DEF CutInv
  <2>4. EndsWithConnection'
    <3>1. ASSUME ~spoiled', ~cut' PROVE closed' /\ delivered' = sent'
      <4>1. ~spoiled /\ ~cut /\ part = "length" /\ got = <<>>
        BY <2>1, <3>1
      <4> QED BY <2>1, <4>1, EndOfStream
    <3> QED BY <3>1 DEF EndsWithConnection
  <2> QED BY <1>0, <2>2, <2>3, <2>4 DEF IndInv
<1>4. ASSUME Quit PROVE IndInv'
  <2>1. /\ part' = "ended" /\ cut' = TRUE /\ sent' = sent
        /\ delivered' = delivered /\ spoiled' = spoiled
    BY <1>4 DEF Quit, Stop, writing
  <2>2. DeliveredInv' /\ StreamInv' /\ CutInv' /\ EndsWithConnection'
    BY <1>0, <2>1 DEF DeliveredInv, StreamInv, CutInv, EndsWithConnection
  <2> QED BY <1>0, <2>2 DEF IndInv
<1> QED BY <1>1, <1>2, <1>3, <1>4 DEF Read

\* Nothing is sent yet, and an empty stream is well laid out.
LEMMA InitIndInv == Init => IndInv
PROOF
<1> SUFFICES ASSUME Init PROVE IndInv
  OBVIOUS
<1>1. /\ out = [w \in Writer |-> <<>>] /\ sent = <<>> /\ wire = <<>> /\ got = <<>>
      /\ delivered = <<>> /\ part = "length" /\ need = Prefix /\ announced = 0
      /\ closed = FALSE /\ spoiled = FALSE /\ cut = FALSE
      /\ Len(<<>>) = 0
  BY DEF Init
<1>2. TypeOK
  <2>1. StreamTypes
    <3>1. <<>> \in Seq(Piece) /\ <<>> \in Seq(Item) /\ <<>> \in Seq(Byte)
      OBVIOUS
    <3>2. out \in [Writer -> Seq(Piece)]
      BY <1>1, <3>1
    <3>3. 0 <= MaxSent /\ 0 <= Capacity
      BY Sizes
    <3> QED BY <1>1, <3>1, <3>2, <3>3 DEF StreamTypes
  <2>2. ReaderTypes
    BY <1>1, Sizes DEF ReaderTypes, Byte
  <2> QED BY <2>1, <2>2, TypesOfParts
<1>3. DeliveredInv /\ CutInv /\ EndsWithConnection
  BY <1>1 DEF DeliveredInv, CutInv, EndsWithConnection
<1>4. StreamInv
  <2> DEFINE b == <<>>
             o == [n \in 0 .. 0 |-> 0]
  <2>1. b \in Seq(Byte) /\ Len(b) = 0 /\ 0 .. 0 = {0} /\ 1 .. 0 = {}
    OBVIOUS
  <2>2. Layout(sent, b, o)
    <3>1. /\ o \in [0 .. 0 -> 0 .. 0] /\ o[0] = 0
          /\ \A m, n \in 0 .. 0 : m < n => o[m] < o[n]
      OBVIOUS
    <3> HIDE DEF o
    <3> QED BY <1>1, <2>1, <3>1 DEF Layout
  <2>3. Reading(b, o, 0)
    BY <1>1 DEF Reading
  <2> HIDE DEF b, o
  <2>4. Intervals(b, 0, 0)
    BY <1>1, <2>1 DEF Intervals, Holds
  <2>5. Written(b, 0)
    BY <1>1, <2>1 DEF Written
  <2>6. Stream(b, o, 0, 0)
    BY <2>2, <2>3, <2>4, <2>5 DEF Stream
  <2> QED BY <2>6 DEF StreamInv
<1> QED BY <1>2, <1>3, <1>4 DEF IndInv

\* Every step keeps the invariant.
LEMMA NextIndInv == IndInv /\ [Next]_vars => IndInv'
PROOF
<1> SUFFICES ASSUME IndInv, [Next]_vars PROVE IndInv'
  OBVIOUS
<1>1. ASSUME UNCHANGED vars PROVE IndInv'
  <2>1. /\ out' = out /\ sent' = sent /\ wire' = wire /\ closed' = closed
        /\ part' = part /\ need' = need /\ got' = got /\ announced' = announced
        /\ delivered' = delivered /\ spoiled' = spoiled /\ cut' = cut
    BY <1>1 DEF vars, writing, reading
  <2>2. TypeOK' /\ DeliveredInv' /\ CutInv' /\ EndsWithConnection'
    BY <2>1 DEF IndInv, TypeOK, DeliveredInv, CutInv, EndsWithConnection
  <2>3. StreamInv'
    <3> SUFFICES ASSUME ~spoiled', part' # "ended"
                 PROVE  \E b, o, r, t : Stream(b, o, r, t)'
      BY DEF StreamInv
    <3> PICK b, o, r, t : Stream(b, o, r, t)
      BY <2>1 DEF IndInv, StreamInv
    <3>1. Layout(sent, b, o)' /\ Reading(b, o, r)'
      BY <2>1, SameReader DEF Stream, reading
    <3>2. Intervals(b, r, t)' /\ (~cut' => Written(b, t)')
      BY <2>1 DEF Stream, Intervals, Written
    <3>3. Stream(b, o, r, t)'
      BY <3>1, <3>2 DEF Stream
    <3> QED BY <3>3
  <2> QED BY <2>2, <2>3 DEF IndInv
<1>2. ASSUME NEW w \in Writer, Write(w) \/ \E i \in Item : StartSend(w, i)
      PROVE  IndInv'
  BY <1>2, WriterKeeps
<1> QED BY <1>1, <1>2, CloseKeeps, ReaderKeeps DEF Next

-----------------------------------------------------------------------------
(***************************************************************************)
(* The theorems.                                                           *)
(***************************************************************************)
\* The invariant holds in every state.
THEOREM FramingInvariance == Spec => []IndInv
PROOF
<1> QED BY InitIndInv, NextIndInv, PTL DEF Spec

\* However the bytes are cut into pieces and whatever they are: no loop asks for
\* more than there is room for, and a text leaves room for the 0 behind it
\* (server_helper.c:235, 249).
THEOREM FramingTypeCorrect == Spec => []TypeOK
PROOF
<1> QED BY FramingInvariance, PTL DEF IndInv

\* Unless bytes were mixed, the reader ends only where the connection does and with
\* everything that was sent (server_helper.c:222-249).
THEOREM EndsCorrect == Spec => []EndsWithConnection
PROOF
<1> QED BY FramingInvariance, PTL DEF IndInv

\* Nothing in flight and nothing to send means that the reader has everything and
\* is between two messages (server_helper.c:203-249): the safety that
\* SentIsDelivered needs of the loops, for every value of the constants.
THEOREM QuietCorrect == Spec => []QuietMeansDelivered
PROOF
<1>1. IndInv => QuietMeansDelivered
  BY QuietStream, Zenon DEF QuietMeansDelivered
<1> QED BY <1>1, FramingInvariance, PTL

\* The stream of bytes implements the channel of items: what arrives was sent, whole
\* and in order, until bytes are mixed (README, Network Protocol).
THEOREM ChannelRefinement == Spec => ImplementsMessageChannel
PROOF
<1>1. Init => Channel!Init
  BY DEF Init, Channel!Init
<1>2. IndInv /\ [Next]_vars => [Channel!Next]_(Channel!vars)
  <2> SUFFICES ASSUME IndInv, [Next]_vars
               PROVE  Channel!Next \/ UNCHANGED <<sent, delivered, spoiled>>
    BY DEF Channel!vars
  <2> USE DEF Channel!Next, Channel!Send, Channel!Extend, Channel!Deliver,
              Channel!Break, Channel!Babble
  <2>0. TypeOK
    BY DEF IndInv
  <2>1. ASSUME UNCHANGED vars PROVE UNCHANGED <<sent, delivered, spoiled>>
    BY <2>1 DEF vars, writing, reading
  <2>2. ASSUME NEW w \in Writer, NEW i \in Item, StartSend(w, i) PROVE Channel!Next
    <3>1. sent' = Append(sent, i) /\ delivered' = delivered
          /\ spoiled' = (spoiled \/ \E v \in Writer \ {w} : out[v] # <<>>)
      BY <2>2 DEF StartSend, Transmit, reading
    <3>2. spoiled \in BOOLEAN /\ spoiled' \in BOOLEAN
      BY <2>0, <3>1 DEF TypeOK
    <3>3. spoiled' = TRUE \/ spoiled' = spoiled
      BY <3>1, <3>2
    <3> QED BY <3>1, <3>3
  <2>3. ASSUME NEW w \in Writer, GoOnSending(w)
        PROVE  Channel!Next \/ UNCHANGED <<sent, delivered, spoiled>>
    <3>1. sent' = sent /\ delivered' = delivered
          /\ spoiled' = (spoiled \/ \E v \in Writer \ {w} : out[v] # <<>>)
      BY <2>3 DEF GoOnSending, Transmit, reading
    <3>2. spoiled \in BOOLEAN /\ spoiled' \in BOOLEAN
      BY <2>0, <3>1 DEF TypeOK
    <3>3. spoiled' = TRUE \/ spoiled' = spoiled
      BY <3>1, <3>2
    <3> QED BY <3>1, <3>3
  <2>4. ASSUME NEW w \in Writer, SendFails(w)
        PROVE  UNCHANGED <<sent, delivered, spoiled>>
    BY <2>4 DEF SendFails, reading
  <2>5. ASSUME CloseSocket \/ ReceiveEnd \/ Quit
        PROVE  UNCHANGED <<sent, delivered, spoiled>>
    BY <2>5 DEF CloseSocket, ReceiveEnd, Quit, writing, reading
  <2>6. ASSUME WriteFails PROVE Channel!Next
    BY <2>6 DEF WriteFails, Abandon, writing
  <2>7. ASSUME Receive
        PROVE  Channel!Next \/ UNCHANGED <<sent, delivered, spoiled>>
    <3>1. sent' = sent /\ spoiled \in BOOLEAN /\ spoiled' \in BOOLEAN
      BY <2>0, <2>7, ReadTypes DEF Receive, writing, Read, TypeOK
    <3>2. CASE ~spoiled'
      BY <2>7, <3>1, <3>2, ReceiveProceeds DEF DeliversNext
    <3>3. CASE spoiled /\ spoiled'
      BY <3>1, <3>3
    <3>4. CASE ~spoiled /\ spoiled'
      <4>1. delivered' = delivered
        BY <2>0, <2>7, <3>1, <3>4, Receives
           DEF Completed, GotLength, GotText, GotSize, GotData, Abandon
      <4> QED BY <3>1, <3>4, <4>1
    <3> QED BY <3>1, <3>2, <3>3, <3>4
  <2> QED
    BY <2>1, <2>2, <2>3, <2>4, <2>5, <2>6, <2>7 DEF Next, Write, Read
<1> QED
  BY <1>1, <1>2, FramingInvariance, PTL
     DEF Spec, ImplementsMessageChannel, Channel!Spec
=============================================================================
