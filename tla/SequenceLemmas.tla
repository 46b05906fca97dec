--------------------------- MODULE SequenceLemmas ---------------------------
(***************************************************************************)
(* What the operations on the server's lists and queue do to the sequences *)
(* that model them: the entries, their number, and that none occurs twice. *)
(***************************************************************************)
EXTENDS Integers, Sequences, SequencesExt, SequenceTheorems, WellFoundedInduction,
        TLAPS

\* Without the entry at k the sequence has all the others, once each and in
\* their order.
LEMMA RemoveAtProperties ==
  ASSUME NEW S, NEW q \in Seq(S), IsInjective(q), NEW k \in 1 .. Len(q)
  PROVE  /\ RemoveAt(q, k) \in Seq(S)
         /\ Len(RemoveAt(q, k)) = Len(q) - 1
         /\ \A i \in 1 .. Len(RemoveAt(q, k)) :
              RemoveAt(q, k)[i] = IF i < k THEN q[i] ELSE q[i + 1]
         /\ IsInjective(RemoveAt(q, k))
         /\ {RemoveAt(q, k)[i] : i \in DOMAIN RemoveAt(q, k)}
              = {q[i] : i \in DOMAIN q} \ {q[k]}
PROOF
<1> DEFINE a == SubSeq(q, 1, k - 1)
           b == SubSeq(q, k + 1, Len(q))
           r == RemoveAt(q, k)
<1>1. /\ a \in Seq(S) /\ Len(a) = k - 1
      /\ \A i \in 1 .. k - 1 : a[i] = q[i]
  BY SubSeqProperties
<1>2. /\ b \in Seq(S) /\ Len(b) = Len(q) - k
      /\ \A i \in 1 .. Len(q) - k : b[i] = q[k + i]
  <2>1. CASE k = Len(q)
    BY <2>1, SubSeqProperties
  <2>2. CASE k < Len(q)
    BY <2>2, SubSeqProperties
  <2> QED BY <2>1, <2>2
<1>3. r = a \o b
  BY DEF RemoveAt
<1>4. /\ r \in Seq(S) /\ Len(r) = Len(q) - 1
      /\ \A i \in 1 .. Len(r) : r[i] = IF i < k THEN q[i] ELSE q[i + 1]
  <2> HIDE DEF a, b, r
  <2>1. /\ r \in Seq(S) /\ Len(r) = Len(a) + Len(b)
        /\ \A i \in 1 .. Len(a) + Len(b) :
             r[i] = IF i <= Len(a) THEN a[i] ELSE b[i - Len(a)]
    BY <1>1, <1>2, <1>3, ConcatProperties
  <2>2. Len(q) \in Nat /\ Len(r) = Len(q) - 1
    BY <2>1, <1>1, <1>2
  <2>3. ASSUME NEW i \in 1 .. Len(r)
        PROVE  r[i] = IF i < k THEN q[i] ELSE q[i + 1]
    <3>1. CASE i < k
      <4>1. i \in 1 .. k - 1 /\ i \in 1 .. Len(a) + Len(b) /\ i <= Len(a)
        BY <3>1, <2>1, <1>1
      <4>2. r[i] = a[i] /\ a[i] = q[i]
        BY <4>1, <2>1, <1>1
      <4> QED BY <4>2, <3>1
    <3>2. CASE i >= k
      <4>1. i - Len(a) \in 1 .. Len(q) - k /\ k + (i - Len(a)) = i + 1
        BY <3>2, <2>2, <1>1
      <4> QED BY <4>1, <3>2, <2>1, <2>2, <1>1, <1>2
    <3>3. i < k \/ i >= k
      BY <2>2
    <3> QED BY <3>1, <3>2, <3>3
  <2> QED BY <2>1, <2>2, <2>3
<1>5. DOMAIN r = 1 .. Len(q) - 1 /\ DOMAIN q = 1 .. Len(q)
  BY <1>4
<1> HIDE DEF r
<1>6. IsInjective(r)
  BY <1>4, <1>5 DEF IsInjective
<1>7. {r[i] : i \in DOMAIN r} \subseteq {q[i] : i \in DOMAIN q} \ {q[k]}
  BY <1>4, <1>5 DEF IsInjective
<1>8. ASSUME NEW j \in DOMAIN q, j # k
      PROVE  q[j] \in {r[i] : i \in DOMAIN r}
  <2>1. CASE j < k
    BY <2>1, <1>4, <1>5
  <2>2. CASE j > k
    <3>1. j - 1 \in DOMAIN r /\ r[j - 1] = q[j]
      BY <2>2, <1>4, <1>5
    <3> QED BY <3>1
  <2> QED BY <2>1, <2>2, <1>8, <1>5
<1> QED BY <1>4, <1>6, <1>7, <1>8 DEF r

\* An element that is new to the sequence is added at its end.
LEMMA AppendElements ==
  ASSUME NEW S, NEW q \in Seq(S), IsInjective(q), NEW e \in S,
         e \notin {q[i] : i \in DOMAIN q}
  PROVE  /\ Append(q, e) \in Seq(S)
         /\ Len(Append(q, e)) = Len(q) + 1
         /\ IsInjective(Append(q, e))
         /\ {Append(q, e)[i] : i \in DOMAIN Append(q, e)}
              = {q[i] : i \in DOMAIN q} \union {e}
PROOF
<1> DEFINE r == Append(q, e)
<1>1. /\ r \in Seq(S) /\ Len(r) = Len(q) + 1
      /\ \A i \in 1 .. Len(q) : r[i] = q[i]
      /\ r[Len(q) + 1] = e
  BY AppendProperties
<1>2. DOMAIN r = 1 .. Len(q) + 1 /\ DOMAIN q = 1 .. Len(q)
  BY <1>1
<1> HIDE DEF r
<1>3. \A i \in DOMAIN q : q[i] # e
  OBVIOUS
<1>4. IsInjective(r)
  <2> SUFFICES ASSUME NEW i \in DOMAIN r, NEW j \in DOMAIN r, r[i] = r[j]
               PROVE  i = j
    BY DEF IsInjective
  <2>1. CASE i = Len(q) + 1
    BY <2>1, <1>1, <1>2, <1>3
  <2>2. CASE j = Len(q) + 1
    BY <2>2, <1>1, <1>2, <1>3
  <2>3. CASE i \in DOMAIN q /\ j \in DOMAIN q
    BY <2>3, <1>1, <1>2 DEF IsInjective
  <2> QED BY <2>1, <2>2, <2>3, <1>2
<1>5. {r[i] : i \in DOMAIN r} \subseteq {q[i] : i \in DOMAIN q} \union {e}
  BY <1>1, <1>2
<1>6. {q[i] : i \in DOMAIN q} \union {e} \subseteq {r[i] : i \in DOMAIN r}
  BY <1>1, <1>2
<1> QED BY <1>1, <1>4, <1>5, <1>6 DEF r

\* An element that is new to the sequence is put before it.
LEMMA PrependElements ==
  ASSUME NEW S, NEW q \in Seq(S), IsInjective(q), NEW e \in S,
         e \notin ToSet(q), NEW r, r = <<e>> \o q
  PROVE  /\ r \in Seq(S)
         /\ Len(r) = Len(q) + 1
         /\ r[1] = e
         /\ \A i \in 2 .. Len(q) + 1 : r[i] = q[i - 1]
         /\ IsInjective(r)
PROOF
<1> USE DEF ToSet
<1> DEFINE h == <<e>>
<1>1. h \in Seq(S) /\ Len(h) = 1 /\ h[1] = e
  OBVIOUS
<1> HIDE DEF h
<1>2. /\ r \in Seq(S) /\ Len(r) = 1 + Len(q)
      /\ \A i \in 1 .. 1 + Len(q) : r[i] = IF i <= 1 THEN h[i] ELSE q[i - 1]
  BY <1>1, ConcatProperties
<1>3. DOMAIN r = 1 .. Len(q) + 1 /\ DOMAIN q = 1 .. Len(q) /\ Len(q) \in Nat
  BY <1>2
<1>4. r[1] = e /\ \A i \in 2 .. Len(q) + 1 : r[i] = q[i - 1] /\ i - 1 \in DOMAIN q
  BY <1>1, <1>2, <1>3
<1>5. IsInjective(r)
  <2> SUFFICES ASSUME NEW i \in DOMAIN r, NEW j \in DOMAIN r, r[i] = r[j]
               PROVE  i = j
    BY DEF IsInjective
  <2>1. CASE i = 1
    BY <2>1, <1>3, <1>4
  <2>2. CASE j = 1
    BY <2>2, <1>3, <1>4
  <2>3. CASE i \in 2 .. Len(q) + 1 /\ j \in 2 .. Len(q) + 1
    <3>1. q[i - 1] = q[j - 1] /\ i - 1 \in DOMAIN q /\ j - 1 \in DOMAIN q
      BY <2>3, <1>4
    <3>2. i - 1 = j - 1
      BY <3>1 DEF IsInjective
    <3> QED BY <3>2, <2>3
  <2> QED BY <2>1, <2>2, <2>3, <1>3
<1> QED BY <1>2, <1>4, <1>5

\* A sequence with one element put before it.
LEMMA Prepended ==
  ASSUME NEW S, NEW x \in S, NEW q \in Seq(S), NEW r, r = <<x>> \o q
  PROVE  /\ r \in Seq(S) /\ r # <<>> /\ Len(r) = Len(q) + 1
         /\ r[1] = x
         /\ \A i \in 1 .. Len(q) : r[i + 1] = q[i]
         /\ Tail(r) = q
PROOF
<1> DEFINE h == <<x>>
<1>1. h \in Seq(S) /\ Len(h) = 1 /\ h[1] = x /\ Len(q) \in Nat
  BY LenProperties
<1>2. r = h \o q
  OBVIOUS
<1> HIDE DEF h
<1>3. /\ r \in Seq(S) /\ Len(r) = Len(h) + Len(q)
      /\ \A i \in 1 .. Len(h) + Len(q) :
           r[i] = IF i <= Len(h) THEN h[i] ELSE q[i - Len(h)]
  BY <1>1, <1>2, ConcatProperties
<1>4. Len(r) = Len(q) + 1 /\ r[1] = x
  BY <1>1, <1>3
<1>5. r # <<>>
  BY <1>1, <1>4, EmptySeq
<1>6. ASSUME NEW i \in 1 .. Len(q) PROVE r[i + 1] = q[i]
  <2>1. i + 1 \in 1 .. Len(h) + Len(q) /\ ~(i + 1 <= Len(h)) /\ (i + 1) - Len(h) = i
    BY <1>1
  <2> QED BY <1>3, <2>1
<1>7. /\ Tail(r) \in Seq(S) /\ Len(Tail(r)) = Len(q)
      /\ \A i \in 1 .. Len(Tail(r)) : Tail(r)[i] = q[i]
  BY <1>1, <1>3, <1>4, <1>5, <1>6, HeadTailProperties
<1>8. Tail(r) = q
  BY <1>7, SeqEqual
<1> QED BY <1>3, <1>4, <1>5, <1>6, <1>8

\* A sequence with one element put behind it.
LEMMA OneMore ==
  ASSUME NEW S, NEW s \in Seq(S), NEW e \in S, NEW r, r = s \o <<e>>
  PROVE  /\ r \in Seq(S) /\ Len(r) = Len(s) + 1 /\ r[Len(s) + 1] = e
         /\ \A i \in 1 .. Len(s) : r[i] = s[i]
PROOF
<1> DEFINE h == <<e>>
<1>1. h \in Seq(S) /\ Len(h) = 1 /\ h[1] = e
  OBVIOUS
<1> HIDE DEF h
<1>2. /\ r \in Seq(S) /\ Len(r) = Len(s) + 1
      /\ \A i \in 1 .. Len(s) + 1 : r[i] = IF i <= Len(s) THEN s[i] ELSE h[i - Len(s)]
  BY <1>1, ConcatProperties DEF h
<1>3. Len(s) \in Nat /\ Len(s) + 1 \in 1 .. Len(s) + 1 /\ ~(Len(s) + 1 <= Len(s))
      /\ (Len(s) + 1) - Len(s) = 1
  BY LenProperties
<1> QED BY <1>1, <1>2, <1>3

\* A set of positions that is not empty has a first one.
LEMMA MinOfPositions ==
  ASSUME NEW K, K \subseteq Nat, K # {}
  PROVE  Min(K) \in K /\ \A k \in K : Min(K) <= k
PROOF
<1>1. PICK m \in K : \A k \in K : ~(<<k, m>> \in OpToRel(<, Nat))
  BY WFMin, NatLessThanWellFounded
<1>2. \A k \in K : ~(k < m)
  <2> SUFFICES ASSUME NEW k \in K, k < m PROVE FALSE
    OBVIOUS
  <2>1. <<k, m>> \in Nat \X Nat /\ <<k, m>>[1] < <<k, m>>[2]
    OBVIOUS
  <2>2. <<k, m>> \in OpToRel(<, Nat)
    BY <2>1, Zenon DEF OpToRel
  <2> QED BY <1>1, <2>2, Zenon
<1>3. \A k \in K : m <= k
  BY <1>2
<1> QED BY <1>3 DEF Min
=============================================================================
