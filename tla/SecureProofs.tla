----------------------------- MODULE SecureProofs -----------------------------
(* Theorems about SecureLink, for any sizes of messages and of the tag, and any *)
(* number of messages: the two ends of a secured connection stay in step.       *)
EXTENDS SecureLink, SequenceTheorems, TLAPS

\* A leaf that needs no arithmetic cites Zenon. The others are given to SMT, with
\* time for the longer ones, and then to Zenon.
USE SMTT(30), Zenon

USE SecureAssumption

-----------------------------------------------------------------------------
(* SecureLink: what is pending for an end, as it moves on. *)

\* d is c with x added, and without its first.
Given(c, d, x) ==
    Len(d) = Len(c) + 1 /\ d[Len(d)] = x /\ \A i \in 1..Len(c) : d[i] = c[i]
Taken(c, d) == Len(d) = Len(c) - 1 /\ \A i \in 1..Len(d) : d[i] = c[i + 1]

\* Items on their way can be taken together in any order.
LEMMA Together ==
    ASSUME NEW k \in Seq(Item), NEW p \in Seq(Item), NEW q \in Seq(Item)
    PROVE  (k \o p) \o q = k \o (p \o q)
BY ConcatAssociative

\* Something is sent.
LEMMA PendingGiven ==
    ASSUME NEW k \in Seq(Item), NEW b \in Seq(Item), NEW r \in Seq(Item), NEW x \in Item
    PROVE  /\ r \o <<x>> \in Seq(Item)
           /\ Given((k \o b) \o r, (k \o b) \o (r \o <<x>>), x)
<1> DEFINE c == (k \o b) \o r
           d == (k \o b) \o (r \o <<x>>)
<1>1. <<x>> \in Seq(Item) /\ Len(<<x>>) = 1 /\ <<x>>[1] = x
      OBVIOUS
<1>2. k \o b \in Seq(Item)
      BY ConcatProperties, Zenon
<1>3. r \o <<x>> \in Seq(Item) /\ c \in Seq(Item)
      BY <1>1, <1>2, ConcatProperties, Zenon
<1>4. d = c \o <<x>>
      BY <1>1, <1>2, ConcatAssociative
<1>5. /\ Len(c \o <<x>>) = Len(c) + Len(<<x>>)
      /\ \A i \in 1..(Len(c) + Len(<<x>>)) :
            (c \o <<x>>)[i] = IF i <= Len(c) THEN c[i] ELSE <<x>>[i - Len(c)]
      BY <1>1, <1>3, ConcatProperties
<1>6. Len(c) \in Nat
      BY <1>3, LenProperties, Zenon
<1> HIDE DEF c, d
<1>7. Given(c, d, x)
  <2>1. Len(d) = Len(c) + 1
        BY <1>1, <1>4, <1>5, Zenon
  <2>2. \A i \in 1..Len(c) : d[i] = c[i]
        BY <1>1, <1>4, <1>5, <1>6
  <2>3. d[Len(c) + 1] = x
        BY <1>1, <1>4, <1>5, <1>6
  <2> QED
        BY <2>1, <2>2, <2>3, Zenon DEF Given
<1> QED
      BY <1>3, <1>7, Zenon DEF c, d

\* A message is taken from the buffer.
LEMMA PendingTaken ==
    ASSUME NEW b \in Seq(Item), NEW r \in Seq(Item), b # <<>>
    PROVE  /\ Tail(b) \in Seq(Item) /\ Head(b) \in Item
           /\ Len((<<>> \o b) \o r) >= 1 /\ ((<<>> \o b) \o r)[1] = Head(b)
           /\ Taken((<<>> \o b) \o r, (<<>> \o Tail(b)) \o r)
<1> DEFINE t == Tail(b)
<1>1. /\ Head(b) \in Item /\ t \in Seq(Item) /\ Len(t) = Len(b) - 1 /\ Head(b) = b[1]
      /\ \A i \in 1..Len(t) : t[i] = b[i + 1]
      BY HeadTailProperties
<1> HIDE DEF t
<1>2. <<>> \o b = b /\ <<>> \o t = t
      BY <1>1, ConcatEmptySeq, Zenon
<1>3. /\ Len(b \o r) = Len(b) + Len(r)
      /\ \A i \in 1..(Len(b) + Len(r)) : (b \o r)[i] = IF i <= Len(b) THEN b[i] ELSE r[i - Len(b)]
      BY ConcatProperties, Zenon
<1>4. /\ Len(t \o r) = Len(t) + Len(r)
      /\ \A i \in 1..(Len(t) + Len(r)) : (t \o r)[i] = IF i <= Len(t) THEN t[i] ELSE r[i - Len(t)]
      BY <1>1, ConcatProperties, Zenon
<1>5. Len(b) \in Nat /\ Len(r) \in Nat /\ Len(b) >= 1
      BY <1>1, LenProperties
<1> DEFINE c == b \o r
           d == t \o r
<1> HIDE DEF c, d
<1>6. Len(c) = Len(b) + Len(r) /\ Len(d) = Len(c) - 1 /\ Len(c) >= 1
      BY <1>1, <1>3, <1>4, <1>5 DEF c, d
<1>7. c[1] = Head(b)
      BY <1>1, <1>3, <1>5 DEF c
<1>8. ASSUME NEW i \in 1..Len(d) PROVE d[i] = c[i + 1]
  <2>1. CASE i <= Len(t)
    <3>1. i \in 1..(Len(t) + Len(r)) /\ i \in 1..Len(t) /\ i + 1 \in 1..(Len(b) + Len(r)) /\ i + 1 <= Len(b)
          BY <1>1, <1>5, <1>6, <2>1
    <3> QED
          BY <1>1, <1>3, <1>4, <3>1 DEF c, d
  <2>2. CASE ~(i <= Len(t))
    <3>1. /\ i \in 1..(Len(t) + Len(r)) /\ i + 1 \in 1..(Len(b) + Len(r)) /\ ~(i + 1 <= Len(b))
          /\ i - Len(t) = (i + 1) - Len(b)
          BY <1>1, <1>5, <1>6, <2>2
    <3> QED
          BY <1>3, <1>4, <2>2, <3>1, Zenon DEF c, d
  <2> QED
        BY <2>1, <2>2, Zenon
<1>9. Taken(c, d)
      BY <1>6, <1>8, Zenon DEF Taken
<1> QED
      BY <1>1, <1>2, <1>6, <1>7, <1>9, Zenon DEF c, d, t

\* Something is read into an empty buffer, behind what was carried over.
LEMMA PendingRead ==
    ASSUME NEW k \in Seq(Item), NEW r \in Seq(Item), NEW n \in 1..Len(r)
    PROVE  LET p == SubSeq(r, 1, n)
               q == SubSeq(r, n + 1, Len(r))
           IN  /\ p \in Seq(Item) /\ q \in Seq(Item) /\ k \o p \in Seq(Item)
               /\ (k \o p) \o q = (k \o <<>>) \o r
               /\ (<<>> \o (k \o p)) \o q = (k \o <<>>) \o r
<1> DEFINE p == SubSeq(r, 1, n)
           q == SubSeq(r, n + 1, Len(r))
<1>0. Len(r) \in Nat /\ \A i \in 1..Len(r) : r[i] \in Item
      BY LenProperties, ElementOfSeq, Zenon
<1>1. p \in Seq(Item) /\ q \in Seq(Item)
  <2>1. \A i \in 1..n : r[i] \in Item
        BY <1>0
  <2>2. \A i \in (n + 1)..Len(r) : r[i] \in Item
        BY <1>0
  <2>3. n \in Int /\ n + 1 \in Int /\ Len(r) \in Int /\ 1 \in Int
        BY <1>0
  <2> QED
        BY <2>1, <2>2, <2>3, SubSeqProperties, Zenon
<1>2. p \o q = r
  <2>1. SubSeq(r, 1, Len(r)) = r
        BY SubSeqFull, Zenon
  <2>2. p \o q = SubSeq(r, 1, Len(r))
        BY <1>0, ConcatAdjacentSubSeq
  <2> QED
        BY <2>1, <2>2, Zenon
<1> HIDE DEF p, q
<1>7. k \o p \in Seq(Item)
      BY <1>1, ConcatProperties, Zenon
<1>8. (k \o p) \o q = k \o (p \o q)
      BY <1>1, Together, ZenonT(30)
<1>3. k \o p \in Seq(Item) /\ (k \o p) \o q = k \o (p \o q)
      BY <1>7, <1>8, Zenon
<1>4. k \o <<>> = k /\ <<>> \o (k \o p) = k \o p
      BY <1>3, ConcatEmptySeq, Zenon
<1>5. (k \o p) \o q = (k \o <<>>) \o r
      BY <1>2, <1>3, <1>4, Zenon
<1>6. (<<>> \o (k \o p)) \o q = (k \o <<>>) \o r
      BY <1>4, <1>5, Zenon
<1> QED
      BY <1>1, <1>3, <1>5, <1>6, Zenon DEF p, q

-----------------------------------------------------------------------------
(* SecureLink: the two ends stay in step. *)

\* One more message of the handshake is sent.
LEMMA InStepSent ==
    ASSUME NEW c, NEW d, NEW x, NEW h \in Int, NEW r \in Int, NEW clears, NEW a, NEW b,
           NEW st, NEW rc, InStep(c, h, r, clears, a, b, st, rc), Len(c) \in Nat, Len(rc) \in Nat,
           Len(st) = 0, Given(c, d, x), x = Handshake(r + h + 1, clears)
    PROVE  InStep(d, h + 1, r, clears, a, b, st, rc)
<1>1. /\ Len(c) = h /\ Len(rc) = 0 /\ h >= 0 /\ a = b
      /\ \A j \in 1..h : c[j] = Handshake(r + j, clears)
      BY DEF InStep
<1>2. Len(d) = h + 1 /\ d[h + 1] = x /\ \A i \in 1..h : d[i] = c[i]
      BY <1>1, Zenon DEF Given
<1>3. \A j \in 1..(h + 1) : d[j] = Handshake(r + j, clears)
  <2> SUFFICES ASSUME NEW j \in 1..(h + 1) PROVE d[j] = Handshake(r + j, clears)
        BY Zenon
  <2>1. CASE j = h + 1
    <3>1. r + h + 1 = r + j
          BY <2>1
    <3> QED
          BY <1>2, <2>1, <3>1, Zenon
  <2>2. CASE j # h + 1
    <3>1. j \in 1..h
          BY <1>1, <2>2
    <3> QED
          BY <1>1, <1>2, <3>1, Zenon
  <2> QED
        BY <2>1, <2>2, Zenon
<1>4. /\ \A i \in 1..(Len(d) - (h + 1)) : FALSE
      /\ \A i \in 1..Len(rc) : FALSE
      /\ \A i \in ((h + 1) + 1)..(Len(d) - 1) : FALSE
      BY <1>1, <1>2
<1> QED
      BY <1>1, <1>2, <1>3, <1>4 DEF InStep

\* One is read: it is the one expected.
LEMMA InStepRead ==
    ASSUME NEW c, NEW d, NEW h \in Int, NEW r \in Int, NEW clears, NEW a, NEW b,
           NEW st, NEW rc, InStep(c, h, r, clears, a, b, st, rc), Len(c) \in Nat, Len(rc) \in Nat,
           h >= 1, Taken(c, d)
    PROVE  /\ c[1] = Handshake(r + 1, clears)
           /\ InStep(d, h - 1, r + 1, clears, a, b, st, rc)
<1>1. /\ Len(c) >= h /\ Len(st) = Len(rc) + (Len(c) - h)
      /\ \A j \in 1..h : c[j] = Handshake(r + j, clears)
      /\ \A i \in 1..Len(rc) : rc[i] = st[i]
      /\ \A i \in 1..(Len(c) - h) : c[h + i].len = st[Len(rc) + i]
      /\ Len(c) = h => a = b
      /\ Len(c) > h => c[h + 1].nonce = a /\ c[Len(c)].nonce + Decrypted(c[Len(c)].len) = b
      /\ \A i \in (h + 1)..(Len(c) - 1) : c[i + 1].nonce = c[i].nonce + Decrypted(c[i].len)
      BY Zenon DEF InStep
<1>2. Len(d) = Len(c) - 1 /\ \A i \in 1..Len(d) : d[i] = c[i + 1]
      BY Zenon DEF Taken
<1>3. c[1] = Handshake(r + 1, clears)
      BY <1>1
<1>4. ASSUME NEW j \in 1..(h - 1) PROVE d[j] = Handshake((r + 1) + j, clears)
  <2>1. j \in 1..Len(d) /\ j + 1 \in 1..h /\ r + (j + 1) = (r + 1) + j
        BY <1>1, <1>2
  <2> QED
        BY <1>1, <1>2, <2>1, Zenon
<1>5. ASSUME NEW i \in 1..(Len(d) - (h - 1)) PROVE d[(h - 1) + i].len = st[Len(rc) + i]
  <2>1. (h - 1) + i \in 1..Len(d) /\ ((h - 1) + i) + 1 = h + i /\ i \in 1..(Len(c) - h)
        BY <1>1, <1>2
  <2>2. d[(h - 1) + i] = c[h + i]
        BY <1>2, <2>1, Zenon
  <2> QED
        BY <1>1, <2>1, <2>2, Zenon
<1>6. ASSUME Len(d) > h - 1
      PROVE  /\ d[(h - 1) + 1].nonce = a
             /\ d[Len(d)].nonce + Decrypted(d[Len(d)].len) = b
  <2>3. Len(c) >= h /\ Len(d) = Len(c) - 1
        BY <1>1, <1>2, Zenon
  <2>1. /\ (h - 1) + 1 \in 1..Len(d) /\ ((h - 1) + 1) + 1 = h + 1
        /\ Len(d) \in 1..Len(d) /\ Len(d) + 1 = Len(c) /\ Len(c) > h
        BY <1>6, <2>3
  <2>2. d[(h - 1) + 1] = c[h + 1] /\ d[Len(d)] = c[Len(c)]
        BY <1>2, <2>1
  <2> QED
        BY <1>1, <2>1, <2>2, Zenon
<1>7. ASSUME NEW i \in ((h - 1) + 1)..(Len(d) - 1)
      PROVE  d[i + 1].nonce = d[i].nonce + Decrypted(d[i].len)
  <2>1. i \in 1..Len(d) /\ i + 1 \in 1..Len(d) /\ i + 1 \in (h + 1)..(Len(c) - 1)
        BY <1>1, <1>2
  <2>2. d[i] = c[i + 1] /\ d[i + 1] = c[(i + 1) + 1]
        BY <1>2, <2>1, Zenon
  <2> QED
        BY <1>1, <2>1, <2>2, Zenon
<1>8. /\ h - 1 >= 0 /\ Len(d) >= h - 1 /\ Len(st) = Len(rc) + (Len(d) - (h - 1))
      /\ Len(d) = h - 1 => a = b
      BY <1>1, <1>2
<1> QED
      BY <1>1, <1>3, <1>4, <1>5, <1>6, <1>7, <1>8, Zenon DEF InStep

\* A message is written.
LEMMA InStepWritten ==
    ASSUME NEW c, NEW d, NEW len, NEW h \in Int, NEW r, NEW clears, NEW a, NEW b \in Int,
           NEW st \in Seq(Sizes), NEW rc, NEW su, InStep(c, h, r, clears, a, b, st, rc),
           Len(c) \in Nat, Len(rc) \in Nat, len \in Sizes,
           Given(c, d, Sealed(b, len)), su = Append(st, len)
    PROVE  InStep(d, h, r, clears, a, b + Decrypted(len), su, rc)
<1> DEFINE x == Sealed(b, len)
<1>1. /\ h >= 0 /\ Len(c) >= h /\ Len(st) = Len(rc) + (Len(c) - h)
      /\ \A j \in 1..h : c[j] = Handshake(r + j, clears)
      /\ \A i \in 1..Len(rc) : rc[i] = st[i]
      /\ \A i \in 1..(Len(c) - h) : c[h + i].len = st[Len(rc) + i]
      /\ Len(c) = h => a = b
      /\ Len(c) > h => c[h + 1].nonce = a /\ c[Len(c)].nonce + Decrypted(c[Len(c)].len) = b
      /\ \A i \in (h + 1)..(Len(c) - 1) : c[i + 1].nonce = c[i].nonce + Decrypted(c[i].len)
      BY Zenon DEF InStep
<1>2. Len(d) = Len(c) + 1 /\ d[Len(d)] = x /\ \A i \in 1..Len(c) : d[i] = c[i]
      BY Zenon DEF Given
<1>3. x.nonce = b /\ x.len = len
      BY Zenon DEF Sealed
<1> HIDE DEF x
<1>4. /\ Len(su) = Len(st) + 1 /\ su[Len(st) + 1] = len
      /\ \A i \in 1..Len(st) : su[i] = st[i]
      BY AppendProperties
<1>5. Len(st) \in Nat
      BY LenProperties, Zenon
<1>6. /\ Len(d) >= h /\ Len(su) = Len(rc) + (Len(d) - h) /\ Len(d) > h
      BY <1>1, <1>2, <1>4
<1>7. ASSUME NEW j \in 1..h PROVE d[j] = Handshake(r + j, clears)
  <2>1. j \in 1..Len(c)
        BY <1>1
  <2> QED
        BY <1>1, <1>2, <2>1, Zenon
<1>8. ASSUME NEW i \in 1..Len(rc) PROVE rc[i] = su[i]
  <2>1. i \in 1..Len(st)
        BY <1>1, <1>5
  <2> QED
        BY <1>1, <1>4, <2>1, Zenon
<1>9. ASSUME NEW i \in 1..(Len(d) - h) PROVE d[h + i].len = su[Len(rc) + i]
  <2>1. CASE h + i = Len(d)
    <3>2. Len(st) = Len(rc) + (Len(c) - h) /\ Len(d) = Len(c) + 1
          BY <1>1, <1>2, Zenon
    <3>3. Len(d) \in Int /\ Len(st) \in Int
          BY <1>5, <3>2
    <3>4. i = Len(d) - h
          BY <2>1, <3>3
    <3>1. Len(rc) + i = Len(st) + 1
          BY <3>2, <3>3, <3>4
    <3> QED
          BY <1>2, <1>3, <1>4, <2>1, <3>1, Zenon
  <2>2. CASE h + i # Len(d)
    <3>1. h + i \in 1..Len(c) /\ i \in 1..(Len(c) - h) /\ Len(rc) + i \in 1..Len(st)
          BY <1>1, <1>2, <2>2
    <3> QED
          BY <1>1, <1>2, <1>4, <3>1, Zenon
  <2> QED
        BY <2>1, <2>2, Zenon
<1>10. d[h + 1].nonce = a
  <2>1. CASE Len(c) = h
        BY <1>1, <1>2, <1>3, <2>1, Zenon
  <2>2. CASE Len(c) > h
    <3>1. h + 1 \in 1..Len(c)
          BY <1>1, <2>2
    <3> QED
          BY <1>1, <1>2, <2>2, <3>1, Zenon
  <2> QED
        BY <1>1, <2>1, <2>2
<1>11. d[Len(d)].nonce + Decrypted(d[Len(d)].len) = b + Decrypted(len)
      BY <1>2, <1>3, Zenon
<1>12. ASSUME NEW i \in (h + 1)..(Len(d) - 1)
       PROVE  d[i + 1].nonce = d[i].nonce + Decrypted(d[i].len)
  <2>1. CASE i = Len(c)
    <3>1. Len(c) > h /\ Len(c) \in 1..Len(c) /\ i + 1 = Len(d)
          BY <1>1, <1>2, <2>1
    <3> QED
          BY <1>1, <1>2, <1>3, <2>1, <3>1, Zenon
  <2>2. CASE i # Len(c)
    <3>1. i \in (h + 1)..(Len(c) - 1) /\ i \in 1..Len(c) /\ i + 1 \in 1..Len(c)
          BY <1>1, <1>2, <2>2
    <3> QED
          BY <1>1, <1>2, <3>1, Zenon
  <2> QED
        BY <2>1, <2>2, Zenon
<1>13. Len(d) # h /\ h >= 0
      BY <1>1, <1>6
<1> QED
      BY <1>6, <1>7, <1>8, <1>9, <1>10, <1>11, <1>12, <1>13, Zenon DEF InStep

\* A message is received: it is the next that was sent, with the nonce expected.
LEMMA InStepReceived ==
    ASSUME NEW c, NEW d, NEW r, NEW clears, NEW a \in Int, NEW b,
           NEW st, NEW rc \in Seq(Nat), NEW rd, InStep(c, 0, r, clears, a, b, st, rc),
           Len(c) \in Nat, Len(c) >= 1, c[1].len \in Nat, Taken(c, d), rd = Append(rc, c[1].len)
    PROVE  /\ c[1].nonce = a
           /\ InStep(d, 0, r, clears, a + Decrypted(c[1].len), b, st, rd)
<1>a. Len(c) - 0 = Len(c) /\ Len(c) > 0
      OBVIOUS
<1>0. /\ Len(st) = Len(rc) + (Len(c) - 0)
      /\ \A i \in 1..Len(rc) : rc[i] = st[i]
      /\ \A i \in 1..(Len(c) - 0) : c[0 + i].len = st[Len(rc) + i]
      /\ Len(c) > 0 => c[0 + 1].nonce = a /\ c[Len(c)].nonce + Decrypted(c[Len(c)].len) = b
      /\ \A i \in (0 + 1)..(Len(c) - 1) : c[i + 1].nonce = c[i].nonce + Decrypted(c[i].len)
      BY Zenon DEF InStep
<1>1. /\ Len(st) = Len(rc) + Len(c)
      /\ \A i \in 1..Len(rc) : rc[i] = st[i]
      /\ \A i \in 1..Len(c) : c[0 + i].len = st[Len(rc) + i]
      /\ c[0 + 1].nonce = a /\ c[Len(c)].nonce + Decrypted(c[Len(c)].len) = b
      /\ \A i \in (0 + 1)..(Len(c) - 1) : c[i + 1].nonce = c[i].nonce + Decrypted(c[i].len)
      BY <1>0, <1>a, Zenon
<1>2. Len(d) = Len(c) - 1 /\ \A i \in 1..Len(d) : d[i] = c[i + 1]
      BY Zenon DEF Taken
<1>3. /\ Len(rd) = Len(rc) + 1 /\ rd[Len(rc) + 1] = c[1].len
      /\ \A i \in 1..Len(rc) : rd[i] = rc[i]
      BY AppendProperties
<1>4. Len(rc) \in Nat
      BY LenProperties, Zenon
<1>5. c[1].nonce = a
      BY <1>1
<1>6. Len(d) >= 0 /\ Len(st) = Len(rd) + (Len(d) - 0)
      BY <1>1, <1>2, <1>3, <1>4
<1>7. ASSUME NEW i \in 1..Len(rd) PROVE rd[i] = st[i]
  <2>1. CASE i = Len(rc) + 1
    <3>1. 1 \in 1..Len(c) /\ 0 + 1 = 1
          OBVIOUS
    <3> QED
          BY <1>1, <1>3, <2>1, <3>1, Zenon
  <2>2. CASE i # Len(rc) + 1
    <3>1. i \in 1..Len(rc)
          BY <1>3, <1>4, <2>2
    <3> QED
          BY <1>1, <1>3, <3>1, Zenon
  <2> QED
        BY <2>1, <2>2, Zenon
<1>8. ASSUME NEW i \in 1..(Len(d) - 0) PROVE d[0 + i].len = st[Len(rd) + i]
  <2>1. /\ 0 + i = i /\ i \in 1..Len(d) /\ i + 1 \in 1..Len(c)
        /\ Len(rd) + i = Len(rc) + (i + 1) /\ 0 + (i + 1) = i + 1
        BY <1>2, <1>3, <1>4
  <2> QED
        BY <1>1, <1>2, <2>1
<1>9. Len(d) = 0 => a + Decrypted(c[1].len) = b
  <2>1. Len(d) = 0 => Len(c) = 1
        BY <1>2
  <2>2. Len(c) = 1 => c[1].nonce + Decrypted(c[1].len) = b
        BY <1>1, Zenon
  <2> QED
        BY <1>5, <2>1, <2>2, Zenon
<1>10. ASSUME Len(d) > 0
       PROVE  /\ d[0 + 1].nonce = a + Decrypted(c[1].len)
              /\ d[Len(d)].nonce + Decrypted(d[Len(d)].len) = b
  <2>1. 1 \in 1..Len(d) /\ Len(d) \in 1..Len(d) /\ Len(d) + 1 = Len(c) /\ 1 \in (0 + 1)..(Len(c) - 1)
        BY <1>2, <1>10
  <2>2. d[1] = c[1 + 1] /\ d[Len(d)] = c[Len(c)]
        BY <1>2, <2>1, Zenon
  <2> QED
        BY <1>1, <1>5, <2>1, <2>2
<1>11. ASSUME NEW i \in (0 + 1)..(Len(d) - 1)
       PROVE  d[i + 1].nonce = d[i].nonce + Decrypted(d[i].len)
  <2>1. i \in 1..Len(d) /\ i + 1 \in 1..Len(d) /\ i + 1 \in (0 + 1)..(Len(c) - 1)
        BY <1>2
  <2>2. d[i] = c[i + 1] /\ d[i + 1] = c[(i + 1) + 1]
        BY <1>2, <2>1, Zenon
  <2> QED
        BY <1>1, <2>1, <2>2, Zenon
<1>12. \A j \in 1..0 : FALSE
      OBVIOUS
<1> QED
      BY <1>5, <1>6, <1>7, <1>8, <1>9, <1>10, <1>11, <1>12, Zenon DEF InStep

-----------------------------------------------------------------------------
(* SecureLink: the scripts of the two ends, step by step. *)

Word == {"send", "recv", "seal", "open", "discard", "keep", "save", "reading", "writing", "register"}

\* The steps of a script, one by one.
Table(e, s) ==
    IF e = "noise"
    THEN IF s = "Initiator"
         THEN <<"send", "recv", "send", "discard", "save", "reading", "writing", "register">>
         ELSE <<"recv", "send", "recv", "discard", "save", "reading", "writing", "register">>
    ELSE IF s = "Initiator"
         THEN <<"send", "recv", "send", "recv", "discard", "send", "recv", "send", "discard",
                "seal", "open", "seal", "open", "keep", "save", "reading", "writing", "register">>
         ELSE <<"recv", "send", "recv", "send", "recv", "send", "recv", "open", "seal", "open",
                "seal", "keep", "save", "reading", "writing", "register">>

\* t is a followed by b.
Joined(t, a, m, b, n) ==
    /\ t \in Seq(Word) /\ Len(t) = m + n
    /\ \A i \in 1..m : t[i] = a[i]
    /\ \A i \in 1..n : t[m + i] = b[i]

\* One part of a script after another.
LEMMA JoinedSteps ==
    ASSUME NEW a \in Seq(Word), NEW b \in Seq(Word), NEW m \in Nat, NEW n \in Nat,
           Len(a) = m, Len(b) = n
    PROVE  Joined(a \o b, a, m, b, n)
<1>1. /\ a \o b \in Seq(Word) /\ Len(a \o b) = Len(a) + Len(b)
      /\ \A i \in 1..(Len(a) + Len(b)) : (a \o b)[i] = IF i <= Len(a) THEN a[i] ELSE b[i - Len(a)]
      BY ConcatProperties, Zenon
<1> DEFINE t == a \o b
<1> HIDE DEF t
<1>2. /\ t \in Seq(Word) /\ Len(t) = m + n
      /\ \A i \in 1..(m + n) : t[i] = IF i <= m THEN a[i] ELSE b[i - m]
      BY <1>1, Zenon DEF t
<1>3. \A i \in 1..m : t[i] = a[i]
      BY <1>2
<1>4. ASSUME NEW i \in 1..n PROVE t[m + i] = b[i]
  <2>1. m + i \in 1..(m + n) /\ ~(m + i <= m) /\ (m + i) - m = i
        OBVIOUS
  <2> QED
        BY <1>2, <2>1, Zenon
<1> QED
      BY <1>2, <1>3, <1>4, Zenon DEF Joined, t

\* The parts the scripts are made of.
LEMMA ScriptParts ==
    /\ \A s \in Side : XX(s) \in Seq(Word) /\ Len(XX(s)) = 4
    /\ Handover \in Seq(Word) /\ Len(Handover) = 4
    /\ Negotiation \in Seq(Word) /\ Len(Negotiation) = 5
    /\ Params \in Seq(Word) /\ Len(Params) = 4
    /\ <<"keep">> \in Seq(Word) /\ Len(<<"keep">>) = 1
    /\ Swarm \in Seq(Word) /\ Len(Swarm) = 12
<1>1. ASSUME NEW s \in Side PROVE XX(s) \in Seq(Word) /\ Len(XX(s)) = 4
  <2>1. CASE s = "Initiator"
        BY <2>1 DEF XX, Word
  <2>2. CASE s # "Initiator"
        BY <2>2 DEF XX, Word
  <2> QED
        BY <2>1, <2>2, Zenon
<1>2. Handover \in Seq(Word) /\ Len(Handover) = 4
      BY DEF Handover, Word
<1>3. Negotiation \in Seq(Word) /\ Len(Negotiation) = 5
      BY DEF Negotiation, Word
<1>4. Params \in Seq(Word) /\ Len(Params) = 4
      BY DEF Params, Word
<1>5. <<"keep">> \in Seq(Word) /\ Len(<<"keep">>) = 1
      BY DEF Word
<1>6. Swarm \in Seq(Word) /\ Len(Swarm) = 12
      BY DEF Swarm, Word
<1> QED
      BY <1>1, <1>2, <1>3, <1>4, <1>5, <1>6, Zenon

\* The script of the noise example.
LEMMA NoiseScript ==
    ASSUME NEW s \in Side
    PROVE  /\ Len(Script("noise", s)) = 8
           /\ \A i \in 1..8 : Script("noise", s)[i] = Table("noise", s)[i]
<1> DEFINE t == XX(s) \o Handover
<1>1. Joined(t, XX(s), 4, Handover, 4)
      BY ScriptParts, JoinedSteps, Zenon
<1>2. Script("noise", s) = t
      BY Zenon DEF Script
<1> HIDE DEF t
<1>3. t[1] = XX(s)[1] /\ t[2] = XX(s)[2] /\ t[3] = XX(s)[3] /\ t[4] = XX(s)[4]
      BY <1>1 DEF Joined
<1>4. t[5] = "save" /\ t[6] = "reading" /\ t[7] = "writing" /\ t[8] = "register"
  <2>1. t[4 + 1] = Handover[1] /\ t[4 + 2] = Handover[2] /\ t[4 + 3] = Handover[3] /\ t[4 + 4] = Handover[4]
        BY <1>1 DEF Joined
  <2> QED
        BY <2>1 DEF Handover
<1>5. \A i \in 1..8 : t[i] = Table("noise", s)[i]
      BY <1>3, <1>4 DEF Table, XX
<1> QED
      BY <1>1, <1>2, <1>5 DEF Joined

\* The script of the libp2p example's node,
LEMMA NodeScript ==
    /\ Len(Script("libp2p", "Initiator")) = 18
    /\ \A i \in 1..18 : Script("libp2p", "Initiator")[i] = Table("libp2p", "Initiator")[i]
<1> DEFINE x == XX("Initiator")
           t1 == Negotiation \o x
           t2 == t1 \o Params
           t3 == t2 \o <<"keep">>
           t == t3 \o Handover
<1>0. x \in Seq(Word) /\ Len(x) = 4 /\ x = <<"send", "recv", "send", "discard">>
      BY ScriptParts, Zenon DEF XX, Side
<1>1. Script("libp2p", "Initiator") = t
      BY Zenon DEF Script
<1> HIDE DEF x
<1>2. Joined(t1, Negotiation, 5, x, 4)
      BY <1>0, ScriptParts, JoinedSteps, Zenon
<1> HIDE DEF t1
<1>3. t1 \in Seq(Word) /\ Len(t1) = 9
      BY <1>2 DEF Joined
<1>4. Joined(t2, t1, 9, Params, 4)
      BY <1>3, ScriptParts, JoinedSteps, Zenon
<1> HIDE DEF t2
<1>5. t2 \in Seq(Word) /\ Len(t2) = 13
      BY <1>4 DEF Joined
<1>6. Joined(t3, t2, 13, <<"keep">>, 1)
      BY <1>5, ScriptParts, JoinedSteps, Zenon
<1> HIDE DEF t3
<1>7. t3 \in Seq(Word) /\ Len(t3) = 14
      BY <1>6 DEF Joined
<1>8. Joined(t, t3, 14, Handover, 4)
      BY <1>7, ScriptParts, JoinedSteps, Zenon
<1> HIDE DEF t
<1>9. /\ Len(t) = 18
      /\ \A i \in 1..14 : t[i] = t3[i]
      /\ t[14 + 1] = Handover[1] /\ t[14 + 2] = Handover[2]
      /\ t[14 + 3] = Handover[3] /\ t[14 + 4] = Handover[4]
      BY <1>8 DEF Joined
<1>10. (\A i \in 1..13 : t3[i] = t2[i]) /\ t3[13 + 1] = <<"keep">>[1]
      BY <1>6 DEF Joined
<1>11. /\ \A i \in 1..9 : t2[i] = t1[i]
       /\ t2[9 + 1] = Params[1] /\ t2[9 + 2] = Params[2] /\ t2[9 + 3] = Params[3] /\ t2[9 + 4] = Params[4]
      BY <1>4 DEF Joined
<1>12. /\ \A i \in 1..5 : t1[i] = Negotiation[i]
       /\ t1[5 + 1] = x[1] /\ t1[5 + 2] = x[2] /\ t1[5 + 3] = x[3] /\ t1[5 + 4] = x[4]
      BY <1>2 DEF Joined
<1>13. /\ t[1] = "send" /\ t[2] = "recv" /\ t[3] = "send" /\ t[4] = "recv" /\ t[5] = "discard"
       /\ t[6] = "send" /\ t[7] = "recv" /\ t[8] = "send" /\ t[9] = "discard"
      BY <1>0, <1>9, <1>10, <1>11, <1>12 DEF Negotiation
<1>14. /\ t[10] = "seal" /\ t[11] = "open" /\ t[12] = "seal" /\ t[13] = "open" /\ t[14] = "keep"
      BY <1>9, <1>10, <1>11 DEF Params
<1>15. t[15] = "save" /\ t[16] = "reading" /\ t[17] = "writing" /\ t[18] = "register"
      BY <1>9 DEF Handover
<1>16. \A i \in 1..18 : t[i] = Table("libp2p", "Initiator")[i]
      BY <1>13, <1>14, <1>15 DEF Table
<1> QED
      BY <1>1, <1>9, <1>16, Zenon

\* and of the swarm on the other end.
LEMMA SwarmScript ==
    /\ Len(Script("libp2p", "Responder")) = 16
    /\ \A i \in 1..16 : Script("libp2p", "Responder")[i] = Table("libp2p", "Responder")[i]
<1> DEFINE t == Swarm \o Handover
<1>1. Joined(t, Swarm, 12, Handover, 4)
      BY ScriptParts, JoinedSteps, Zenon
<1>2. Script("libp2p", "Responder") = t
      BY Zenon DEF Script
<1> HIDE DEF t
<1>3. /\ Len(t) = 16 /\ \A i \in 1..12 : t[i] = Swarm[i]
      /\ t[12 + 1] = Handover[1] /\ t[12 + 2] = Handover[2]
      /\ t[12 + 3] = Handover[3] /\ t[12 + 4] = Handover[4]
      BY <1>1 DEF Joined
<1>4. t[13] = "save" /\ t[14] = "reading" /\ t[15] = "writing" /\ t[16] = "register"
      BY <1>3 DEF Handover
<1>5. \A i \in 1..16 : t[i] = Table("libp2p", "Responder")[i]
      BY <1>3, <1>4 DEF Table, Swarm
<1> QED
      BY <1>2, <1>3, <1>5, Zenon

\* All of them.
LEMMA ScriptTable ==
    ASSUME NEW e \in {"noise", "libp2p"}, NEW s \in Side
    PROVE  /\ Len(Script(e, s)) = Steps(e, s)
           /\ \A i \in 1..Steps(e, s) : Script(e, s)[i] = Table(e, s)[i]
<1>1. CASE e = "noise"
  <2>1. Steps(e, s) = 8
        BY <1>1, Zenon DEF Steps
  <2> QED
        BY <1>1, <2>1, NoiseScript, Zenon
<1>2. CASE e = "libp2p" /\ s = "Initiator"
  <2>1. Steps(e, s) = 18
        BY <1>2, Zenon DEF Steps
  <2> QED
        BY <1>2, <2>1, NodeScript, Zenon
<1>3. CASE e = "libp2p" /\ s = "Responder"
  <2>1. Steps(e, s) = 16
        BY <1>3, Zenon DEF Steps
  <2> QED
        BY <1>3, <2>1, SwarmScript, Zenon
<1> QED
      BY <1>1, <1>2, <1>3, Zenon DEF Side

\* How many messages a step sends and reads, and nonces it uses.
Counts(e, s, p, x) ==
    /\ HasSent(e, s, p + 1) = HasSent(e, s, p) + IF x \in {"send", "seal"} THEN 1 ELSE 0
    /\ HasRead(e, s, p + 1) = HasRead(e, s, p) + IF x \in {"recv", "open"} THEN 1 ELSE 0
    /\ HasSealed(e, s, p + 1) = HasSealed(e, s, p) + IF x = "seal" THEN 1 ELSE 0
    /\ HasOpened(e, s, p + 1) = HasOpened(e, s, p) + IF x = "open" THEN 1 ELSE 0

\* Which messages it sends and reads.
Kinds(e, s, p, x) ==
    /\ x = "send" => HasSent(e, s, p) < Clears(e, Other(s))
    /\ x = "seal" => HasSent(e, s, p) = Clears(e, Other(s)) + HasSealed(e, s, p)
    /\ x = "recv" => HasRead(e, s, p) < Clears(e, s)
    /\ x = "open" => HasRead(e, s, p) = Clears(e, s) + HasOpened(e, s, p)
    /\ x \in {"recv", "open"} => HasRead(e, s, p) < HasSent(e, Other(s), Steps(e, Other(s)))

\* Where it is in the script.
Places(e, s, p, x) ==
    /\ x \in {"send", "seal", "recv", "open", "discard", "keep"} => p < Steps(e, s) - 4
    /\ x = "keep" => p = Steps(e, s) - 5
    /\ x = "save" => p = Steps(e, s) - 4
    /\ x = "reading" => p = Steps(e, s) - 3
    /\ x = "writing" => p = Steps(e, s) - 2
    /\ x = "register" => p = Steps(e, s) - 1

\* The four scripts agree with what is counted of them.
LEMMA StepCounts ==
    ASSUME NEW e \in {"noise", "libp2p"}, NEW s \in Side, NEW p \in Nat, p < Steps(e, s)
    PROVE  Counts(e, s, p, Table(e, s)[p + 1])
<1>1. CASE e = "noise" /\ s = "Initiator"
      BY <1>1 DEF Counts, Table, Steps, HasSent, HasRead, HasSealed, HasOpened, Past
<1>2. CASE e = "noise" /\ s = "Responder"
      BY <1>2 DEF Counts, Table, Steps, HasSent, HasRead, HasSealed, HasOpened, Past
<1>3. CASE e = "libp2p" /\ s = "Initiator"
      BY <1>3 DEF Counts, Table, Steps, HasSent, HasRead, HasSealed, HasOpened, Past
<1>4. CASE e = "libp2p" /\ s = "Responder"
      BY <1>4 DEF Counts, Table, Steps, HasSent, HasRead, HasSealed, HasOpened, Past
<1> QED
      BY <1>1, <1>2, <1>3, <1>4, Zenon DEF Side

\* So do the messages,
LEMMA StepKinds ==
    ASSUME NEW e \in {"noise", "libp2p"}, NEW s \in Side, NEW p \in Nat, p < Steps(e, s)
    PROVE  Kinds(e, s, p, Table(e, s)[p + 1])
<1>1. CASE e = "noise" /\ s = "Initiator"
      BY <1>1 DEF Kinds, Table, Steps, HasSent, HasRead, HasSealed, HasOpened, Past, Clears, Other
<1>2. CASE e = "noise" /\ s = "Responder"
      BY <1>2 DEF Kinds, Table, Steps, HasSent, HasRead, HasSealed, HasOpened, Past, Clears, Other
<1>3. CASE e = "libp2p" /\ s = "Initiator"
      BY <1>3 DEF Kinds, Table, Steps, HasSent, HasRead, HasSealed, HasOpened, Past, Clears, Other
<1>4. CASE e = "libp2p" /\ s = "Responder"
      BY <1>4 DEF Kinds, Table, Steps, HasSent, HasRead, HasSealed, HasOpened, Past, Clears, Other
<1> QED
      BY <1>1, <1>2, <1>3, <1>4, Zenon DEF Side

\* and the places.
LEMMA StepPlaces ==
    ASSUME NEW e \in {"noise", "libp2p"}, NEW s \in Side, NEW p \in Nat, p < Steps(e, s)
    PROVE  Places(e, s, p, Table(e, s)[p + 1])
<1>1. CASE e = "noise" /\ s = "Initiator"
      BY <1>1 DEF Places, Table, Steps
<1>2. CASE e = "noise" /\ s = "Responder"
      BY <1>2 DEF Places, Table, Steps
<1>3. CASE e = "libp2p" /\ s = "Initiator"
      BY <1>3 DEF Places, Table, Steps
<1>4. CASE e = "libp2p" /\ s = "Responder"
      BY <1>4 DEF Places, Table, Steps
<1> QED
      BY <1>1, <1>2, <1>3, <1>4, Zenon DEF Side

\* The counts are numbers, and at the end of a script both ends agree on the nonces.
LEMMA CountTypes ==
    ASSUME NEW e \in {"noise", "libp2p"}, NEW s \in Side, NEW p \in Nat
    PROVE  /\ HasSent(e, s, p) \in Nat /\ HasRead(e, s, p) \in Nat
           /\ HasSealed(e, s, p) \in Nat /\ HasOpened(e, s, p) \in Nat
           /\ Clears(e, s) \in Nat /\ Steps(e, s) \in Nat /\ Steps(e, s) >= 8
           /\ p >= Steps(e, s) - 4 =>
                /\ HasSealed(e, s, p) = Nonces(e) /\ HasOpened(e, s, p) = Nonces(e)
                /\ \A q \in Nat : HasSent(e, Other(s), q) <= HasRead(e, s, p)
<1>1. CASE e = "noise" /\ s = "Initiator"
      BY <1>1 DEF Steps, HasSent, HasRead, HasSealed, HasOpened, Past, Clears, Other, Nonces
<1>2. CASE e = "noise" /\ s = "Responder"
      BY <1>2 DEF Steps, HasSent, HasRead, HasSealed, HasOpened, Past, Clears, Other, Nonces
<1>3. CASE e = "libp2p" /\ s = "Initiator"
      BY <1>3 DEF Steps, HasSent, HasRead, HasSealed, HasOpened, Past, Clears, Other, Nonces
<1>4. CASE e = "libp2p" /\ s = "Responder"
      BY <1>4 DEF Steps, HasSent, HasRead, HasSealed, HasOpened, Past, Clears, Other, Nonces
<1> QED
      BY <1>1, <1>2, <1>3, <1>4, Zenon DEF Side

\* Where a read buffer is discarded, the other end has sent nothing that was not read: it
\* waits for a message that comes after it, or has no more to send before both are ready.
LEMMA NothingToDiscard ==
    ASSUME NEW e \in {"noise", "libp2p"}, NEW s \in Side, NEW p \in Nat, p < Steps(e, s),
           Table(e, s)[p + 1] = "discard", NEW q \in Nat,
           HasRead(e, Other(s), q) <= HasSent(e, s, p), HasRead(e, s, p) <= HasSent(e, Other(s), q)
    PROVE  /\ HasSent(e, Other(s), q) = HasRead(e, s, p)
           /\ e = "libp2p" => q < Steps(e, Other(s))
<1>1. CASE e = "noise" /\ s = "Initiator"
      BY <1>1 DEF Table, Steps, HasSent, HasRead, Past, Other
<1>2. CASE e = "noise" /\ s = "Responder"
      BY <1>2 DEF Table, Steps, HasSent, HasRead, Past, Other
<1>3. CASE e = "libp2p" /\ s = "Initiator"
      BY <1>3 DEF Table, Steps, HasSent, HasRead, Past, Other
<1>4. CASE e = "libp2p" /\ s = "Responder"
      BY <1>4 DEF Table, Steps, HasSent, HasRead, Past, Other
<1> QED
      BY <1>1, <1>2, <1>3, <1>4, Zenon DEF Side

\* The step an end is at.
LEMMA AtStep ==
    ASSUME SecureTypes, NEW s \in Side, NEW words
    PROVE  At(s, words) <=> pos[s] < Steps(example, s) /\ Table(example, s)[pos[s] + 1] \in words
<1>1. /\ example \in {"noise", "libp2p"} /\ pos[s] \in Nat
      BY Zenon DEF SecureTypes
<1>2. Len(Script(example, s)) = Steps(example, s) /\ Steps(example, s) \in Nat
      BY <1>1, ScriptTable, CountTypes, Zenon
<1>3. pos[s] < Steps(example, s) => pos[s] + 1 \in 1..Steps(example, s)
      BY <1>1, <1>2
<1>4. pos[s] < Steps(example, s) => Script(example, s)[pos[s] + 1] = Table(example, s)[pos[s] + 1]
      BY <1>1, <1>3, ScriptTable, Zenon
<1> QED
      BY <1>2, <1>4, Zenon DEF At

\* An end is ready once it has done all of its steps.
LEMMA ReadyAtEnd ==
    ASSUME SecureTypes, NEW s \in Side
    PROVE  Ready(s) <=> pos[s] = Steps(example, s)
<1>1. example \in {"noise", "libp2p"}
      BY Zenon DEF SecureTypes
<1> QED
      BY <1>1, ScriptTable, Zenon DEF Ready

-----------------------------------------------------------------------------
(* SecureLink: what the invariant says of one end. *)

StepOf(s) ==
    InStep(Pending(s), HasSent(example, Other(s), pos[Other(s)]) - HasRead(example, s, pos[s]),
           HasRead(example, s, pos[s]), Clears(example, s), Rx(s), Tx(Other(s)),
           sent[Other(s)], received[s])

StateOf(s) ==
    /\ sent[s] # <<>> => MaySend(s)
    /\ noise[s].tx = HasSealed(example, s, pos[s]) /\ noise[s].rx = HasOpened(example, s, pos[s])
    /\ pos[s] < Steps(example, s) - 4 => noise[s].carry = <<>>
    /\ noise_states[s] = IF Saved(s) /\ ~WriterMade(s) THEN noise[s] ELSE None
    /\ Kept(s) # <<>> => buffer[s] = <<>>

\* What an end holds, but for what is on its way to it, is as it was.
Untouched(s) ==
    /\ pos'[s] = pos[s] /\ buffer'[s] = buffer[s] /\ noise'[s] = noise[s]
    /\ noise_states'[s] = noise_states[s] /\ reader'[s] = reader[s] /\ writer'[s] = writer[s]
    /\ sent'[s] = sent[s] /\ received'[s] = received[s]

\* There are two ends.
LEMMA TwoEnds ==
    ASSUME NEW s \in Side
    PROVE  Other(s) \in Side /\ Other(s) # s /\ Other(Other(s)) = s /\ Side = {s, Other(s)}
BY Zenon DEF Side, Other

\* The invariant, end by end.
LEMMA InvByEnd ==
    /\ SecureInv <=> SecureTypes /\ \A s \in Side : StepOf(s) /\ StateOf(s)
    /\ SecureInv' <=> SecureTypes' /\ \A s \in Side : StepOf(s)' /\ StateOf(s)'
<1>1. SecureInv <=> SecureTypes /\ \A s \in Side : StepOf(s) /\ StateOf(s)
      BY Zenon DEF SecureInv, EndsInStep, StateHanded, StepOf, StateOf
<1>2. SecureInv' <=> SecureTypes' /\ \A s \in Side : StepOf(s)' /\ StateOf(s)'
      BY Zenon DEF SecureInv, EndsInStep, StateHanded, StepOf, StateOf
<1> QED
      BY <1>1, <1>2, Zenon

\* The types of what one end holds.
LEMMA EndTypes ==
    ASSUME SecureTypes, NEW s \in Side
    PROVE  /\ example \in {"noise", "libp2p"} /\ pos[s] \in Nat /\ pos[s] <= Steps(example, s)
           /\ stream[s] \in Seq(Item) /\ buffer[s] \in Seq(Item)
           /\ noise[s] \in NoiseState /\ noise_states[s] \in NoiseState
           /\ reader[s] \in NoiseState /\ writer[s] \in NoiseState
           /\ sent[s] \in Seq(Sizes) /\ received[s] \in Seq(Nat)
           /\ Kept(s) \in Seq(Item) /\ Rx(s) \in Int /\ Tx(s) \in Int
           /\ Kept(s) \o buffer[s] \in Seq(Item) /\ Pending(s) \in Seq(Item)
           /\ Len(Pending(s)) \in Nat /\ Len(sent[s]) \in Nat /\ Len(received[s]) \in Nat
<1>1. /\ example \in {"noise", "libp2p"} /\ pos[s] \in Nat /\ pos[s] <= Steps(example, s)
      /\ stream[s] \in Seq(Item) /\ buffer[s] \in Seq(Item)
      /\ noise[s] \in NoiseState /\ noise_states[s] \in NoiseState
      /\ reader[s] \in NoiseState /\ writer[s] \in NoiseState
      /\ sent[s] \in Seq(Sizes) /\ received[s] \in Seq(Nat)
      BY Zenon DEF SecureTypes
<1>a. Nonces(example) \in Int
      BY DEF Nonces
<1>b. /\ noise[s].carry \in Seq(Item) /\ reader[s].carry \in Seq(Item)
      /\ reader[s].rx \in Nonce /\ writer[s].tx \in Nonce
      BY <1>1, Zenon DEF NoiseState
<1>5. /\ noise[s].carry \in Seq(Item) /\ reader[s].carry \in Seq(Item)
      /\ reader[s].rx \in Int /\ writer[s].tx \in Int /\ Nonces(example) \in Int
      BY <1>a, <1>b DEF Nonce
<1>6. Kept(s) \in Seq(Item)
      BY <1>5, Zenon DEF Kept
<1>7. Rx(s) \in Int /\ Tx(s) \in Int
      BY <1>5, Zenon DEF Rx, Tx
<1>2. Kept(s) \in Seq(Item) /\ Rx(s) \in Int /\ Tx(s) \in Int
      BY <1>6, <1>7, Zenon
<1>3. Kept(s) \o buffer[s] \in Seq(Item)
      BY <1>1, <1>2, ConcatProperties, Zenon
<1>4. Pending(s) \in Seq(Item)
      BY <1>1, <1>3, ConcatProperties, Zenon DEF Pending
<1> QED
      BY <1>1, <1>2, <1>3, <1>4, LenProperties, Zenon

\* An end that is not touched, and nothing is sent to it,
LEMMA StepFrame ==
    ASSUME NEW s \in Side, StepOf(s), example' = example, Pending(s)' = Pending(s),
           HasSent(example, Other(s), pos'[Other(s)]) = HasSent(example, Other(s), pos[Other(s)]),
           HasRead(example, s, pos'[s]) = HasRead(example, s, pos[s]),
           Rx(s)' = Rx(s), Tx(Other(s))' = Tx(Other(s)),
           sent'[Other(s)] = sent[Other(s)], received'[s] = received[s]
    PROVE  StepOf(s)'
BY Zenon DEF StepOf

\* stays in step, and holds the state it did.
LEMMA UntouchedFrame ==
    ASSUME NEW s \in Side, Untouched(s), example' = example
    PROVE  /\ Kept(s)' = Kept(s) /\ Rx(s)' = Rx(s) /\ Tx(s)' = Tx(s)
           /\ HasSent(example, s, pos'[s]) = HasSent(example, s, pos[s])
           /\ HasRead(example, s, pos'[s]) = HasRead(example, s, pos[s])
           /\ stream'[s] = stream[s] => Pending(s)' = Pending(s)
           /\ StateOf(s) /\ (Ready(Other(s)) => Ready(Other(s))') => StateOf(s)'
<1>1. /\ pos'[s] = pos[s] /\ buffer'[s] = buffer[s] /\ noise'[s] = noise[s]
      /\ noise_states'[s] = noise_states[s] /\ reader'[s] = reader[s] /\ writer'[s] = writer[s]
      /\ sent'[s] = sent[s] /\ received'[s] = received[s]
      BY Zenon DEF Untouched
<1>2. ReaderMade(s)' = ReaderMade(s) /\ WriterMade(s)' = WriterMade(s) /\ Saved(s)' = Saved(s)
      BY <1>1, Zenon DEF ReaderMade, WriterMade, Saved
<1>3. Kept(s)' = Kept(s) /\ Rx(s)' = Rx(s) /\ Tx(s)' = Tx(s)
      BY <1>1, <1>2, Zenon DEF Kept, Rx, Tx
<1>4. stream'[s] = stream[s] => Pending(s)' = Pending(s)
      BY <1>1, <1>3, Zenon DEF Pending
<1>5. ASSUME StateOf(s), Ready(Other(s)) => Ready(Other(s))' PROVE StateOf(s)'
  <2>1. MaySend(s) => MaySend(s)'
        BY <1>1, <1>5, Zenon DEF MaySend, Ready
  <2> QED
        BY <1>1, <1>2, <1>3, <1>5, <2>1, Zenon DEF StateOf
<1> QED
      BY <1>1, <1>3, <1>4, <1>5, Zenon

\* An end that does a step.
LEMMA Advanced ==
    ASSUME SecureTypes, NEW s \in Side, Advance(s), pos[s] < Steps(example, s), example' = example
    PROVE  /\ pos'[s] = pos[s] + 1 /\ pos'[Other(s)] = pos[Other(s)]
           /\ pos' \in [Side -> Nat] /\ \A u \in Side : pos'[u] <= Steps(example, u)
           /\ ~Ready(s) /\ (Ready(Other(s)) => Ready(Other(s))') /\ (StateOf(s) => sent[s] = <<>>)
<1>1. pos \in [Side -> Nat] /\ \A u \in Side : pos[u] <= Steps(example, u) /\ Steps(example, u) \in Nat
      BY CountTypes, Zenon DEF SecureTypes
<1>2. pos' = [pos EXCEPT ![s] = pos[s] + 1]
      BY Zenon DEF Advance, Set
<1>3. pos'[s] = pos[s] + 1 /\ pos'[Other(s)] = pos[Other(s)] /\ pos' \in [Side -> Nat]
      BY <1>1, <1>2, TwoEnds
<1>4. ASSUME NEW u \in Side PROVE pos'[u] <= Steps(example, u)
  <2>1. CASE u = s
        BY <1>1, <1>3, <2>1
  <2>2. CASE u # s
        BY <1>1, <1>2, <2>2, Zenon
  <2> QED
        BY <2>1, <2>2, Zenon
<1>5. ~Ready(s)
      BY <1>1, ReadyAtEnd
<1>6. Ready(Other(s)) => Ready(Other(s))'
      BY <1>3, Zenon DEF Ready
<1>7. StateOf(s) => sent[s] = <<>>
      BY <1>5, Zenon DEF StateOf, MaySend
<1> QED
      BY <1>3, <1>4, <1>5, <1>6, <1>7, Zenon

\* An end that is in its handshake has no codecs yet.
LEMMA EarlyFrame ==
    ASSUME SecureTypes, NEW s \in Side, pos[s] < Steps(example, s) - 4, pos'[s] = pos[s] + 1,
           example' = example
    PROVE  /\ ~Saved(s) /\ ~Saved(s)' /\ Rx(s)' = Rx(s) /\ Tx(s)' = Tx(s)
           /\ Kept(s) = noise[s].carry /\ Kept(s)' = noise'[s].carry
           /\ pos[s] < Steps(example, s)
<1>1. pos[s] \in Nat /\ Steps(example, s) \in Nat /\ example \in {"noise", "libp2p"}
      BY EndTypes, CountTypes, Zenon
<1>2. pos[s] + 1 < Steps(example, s) - 3 /\ pos[s] < Steps(example, s) - 3 /\ pos[s] < Steps(example, s)
      BY <1>1
<1>3. ~Saved(s) /\ ~Saved(s)'
      BY <1>1, <1>2 DEF Saved
<1>4. ~ReaderMade(s) /\ ~ReaderMade(s)' /\ ~WriterMade(s) /\ ~WriterMade(s)'
      BY <1>1, <1>2 DEF ReaderMade, WriterMade
<1> QED
      BY <1>2, <1>3, <1>4, Zenon DEF Rx, Tx, Kept

\* A message of the handshake is sent.
LEMMA HandshakeSendKeeps ==
    ASSUME SecureInv, NEW s \in Side, HandshakeSend(s)
    PROVE  SecureInv'
<1> DEFINE t == Other(s)
           p == pos[s]
           w == Table(example, s)[p + 1]
           x == IF At(s, {"send"}) THEN Clear ELSE Sealed(noise[s].tx, 0)
<1>0. SecureTypes /\ StepOf(s) /\ StateOf(s) /\ t \in Side /\ StepOf(t) /\ StateOf(t)
      BY InvByEnd, TwoEnds, Zenon
<1>1. t # s /\ Other(t) = s /\ Side = {s, t}
      BY TwoEnds, Zenon
<1>2. example' = example /\ Advance(s) /\ p < Steps(example, s) /\ w \in {"send", "seal"}
      BY <1>0, AtStep, Zenon DEF HandshakeSend
<1>3. At(s, {"send"}) <=> w = "send"
      BY <1>0, <1>2, AtStep
<1>4. example \in {"noise", "libp2p"} /\ p \in Nat /\ pos[t] \in Nat
      BY <1>0, EndTypes, Zenon
<1>5. Counts(example, s, p, w) /\ Kinds(example, s, p, w) /\ Places(example, s, p, w)
      BY <1>2, <1>4, StepCounts, StepKinds, StepPlaces, Zenon
<1>6. /\ HasSent(example, s, p) \in Nat /\ HasRead(example, s, p) \in Nat
      /\ HasSealed(example, s, p) \in Nat /\ HasRead(example, t, pos[t]) \in Nat
      /\ Clears(example, t) \in Nat /\ Steps(example, s) \in Nat
      BY <1>0, <1>4, CountTypes, Zenon
<1>7. /\ HasSent(example, s, p + 1) = HasSent(example, s, p) + 1
      /\ HasRead(example, s, p + 1) = HasRead(example, s, p)
      /\ HasSealed(example, s, p + 1) = HasSealed(example, s, p) + IF w = "seal" THEN 1 ELSE 0
      /\ HasOpened(example, s, p + 1) = HasOpened(example, s, p)
  <2>1. w \notin {"recv", "open"} /\ w # "open"
        BY <1>2, Zenon
  <2> HIDE DEF w
  <2>2. HasOpened(example, s, p) \in Nat
        BY <1>4, CountTypes, Zenon
  <2> QED
        BY <1>2, <1>5, <1>6, <2>1, <2>2 DEF Counts
<1>8. p < Steps(example, s) - 4
      BY <1>2, <1>5, Zenon DEF Places
<1>9. /\ pos'[s] = p + 1 /\ pos'[t] = pos[t] /\ pos' \in [Side -> Nat]
      /\ \A u \in Side : pos'[u] <= Steps(example, u)
      /\ (Ready(t) => Ready(t)') /\ sent[s] = <<>>
      BY <1>0, <1>2, Advanced, Zenon
<1>10. noise[s].tx = HasSealed(example, s, p)
      BY <1>0, Zenon DEF StateOf
<1>11. x = Handshake(HasSent(example, s, p) + 1, Clears(example, t)) /\ x \in Item
  <2>1. CASE w = "send"
    <3>1. HasSent(example, s, p) + 1 <= Clears(example, t)
          BY <1>5, <1>6, <2>1 DEF Kinds
    <3> QED
          BY <1>3, <2>1, <3>1 DEF Handshake, Clear, Item
  <2>2. CASE w = "seal"
    <3>1. HasSent(example, s, p) = Clears(example, t) + HasSealed(example, s, p)
          BY <1>5, <2>2, Zenon DEF Kinds
    <3>2. ~(HasSent(example, s, p) + 1 <= Clears(example, t))
          /\ HasSent(example, s, p) + 1 - Clears(example, t) - 1 = HasSealed(example, s, p)
          BY <1>6, <3>1
    <3>3. w # "send" /\ x = Sealed(noise[s].tx, 0)
          BY <1>3, <2>2, Zenon
    <3> QED
          BY <1>6, <1>10, <3>2, <3>3 DEF Handshake, Sealed, Item
  <2> QED
        BY <1>2, <2>1, <2>2, Zenon
<1>12. stream' = [stream EXCEPT ![t] = stream[t] \o <<x>>]
      BY Zenon DEF HandshakeSend, Emit, Set
<1>13. /\ noise' \in [Side -> NoiseState] /\ noise'[t] = noise[t]
       /\ noise'[s].tx = HasSealed(example, s, p + 1) /\ noise'[s].rx = noise[s].rx
       /\ noise'[s].carry = noise[s].carry
  <2>0. noise \in [Side -> NoiseState]
        BY <1>0, Zenon DEF SecureTypes
  <2>1. CASE w = "send"
    <3>1. noise' = noise /\ HasSealed(example, s, p + 1) = HasSealed(example, s, p)
          BY <1>3, <1>6, <1>7, <2>1 DEF HandshakeSend
    <3> QED
          BY <1>10, <2>0, <3>1, Zenon
  <2>2. CASE w = "seal"
    <3>1. noise' = [noise EXCEPT ![s].tx = noise[s].tx + 1] /\ HasSealed(example, s, p + 1) = noise[s].tx + 1
          BY <1>3, <1>7, <1>10, <2>2, Zenon DEF HandshakeSend
    <3>2. noise[s].tx + 1 \in Nonce
          BY <1>6, <1>10 DEF Nonce
    <3> QED
          BY <1>1, <2>0, <3>1, <3>2, Zenon DEF NoiseState
  <2> QED
        BY <1>2, <2>1, <2>2, Zenon
<1> HIDE DEF x, w
<1>14. /\ buffer' = buffer /\ noise_states' = noise_states /\ reader' = reader /\ writer' = writer
       /\ sent' = sent /\ received' = received /\ down' = down
      BY Zenon DEF HandshakeSend, dataVars
<1>15. Untouched(t)
      BY <1>9, <1>13, <1>14, Zenon DEF Untouched
<1>16. Pending(t)' = (Kept(t) \o buffer[t]) \o (stream[t] \o <<x>>)
       /\ stream[t] \o <<x>> \in Seq(Item) /\ Given(Pending(t), Pending(t)', x)
  <2>1. stream[t] \in Seq(Item) /\ buffer[t] \in Seq(Item) /\ Kept(t) \in Seq(Item)
        /\ stream \in [Side -> Seq(Item)]
        BY <1>0, EndTypes, Zenon DEF SecureTypes
  <2>2. stream'[t] = stream[t] \o <<x>> /\ Kept(t)' = Kept(t)
        BY <1>0, <1>2, <1>12, <1>15, <2>1, UntouchedFrame, Zenon
  <2>3. Pending(t)' = (Kept(t) \o buffer[t]) \o (stream[t] \o <<x>>)
        BY <1>14, <2>2, Zenon DEF Pending
  <2> QED
        BY <1>11, <2>1, <2>3, PendingGiven DEF Pending
<1>17. SecureTypes'
  <2>1. stream' \in [Side -> Seq(Item)]
        BY <1>0, <1>12, <1>16, Zenon DEF SecureTypes
  <2> QED
        BY <1>0, <1>2, <1>9, <1>13, <1>14, <2>1, Zenon DEF SecureTypes
<1>18. /\ ~Saved(s) /\ ~Saved(s)' /\ Rx(s)' = Rx(s) /\ Tx(s)' = Tx(s)
       /\ Kept(s) = noise[s].carry /\ Kept(s)' = noise'[s].carry
      BY <1>0, <1>2, <1>8, <1>9, EarlyFrame, Zenon
<1>19. StepOf(s)'
  <2>1. stream'[s] = stream[s]
        BY <1>0, <1>1, <1>12, Zenon DEF SecureTypes
  <2>2. Pending(s)' = Pending(s)
        BY <1>13, <1>14, <1>18, <2>1, Zenon DEF Pending
  <2>3. Tx(t)' = Tx(t)
        BY <1>0, <1>2, <1>15, UntouchedFrame, Zenon
  <2> QED
        BY <1>0, <1>2, <1>7, <1>9, <1>14, <1>18, <2>2, <2>3, StepFrame, Zenon
<1>20. StepOf(t)'
  <2> DEFINE h == HasSent(example, s, p) - HasRead(example, t, pos[t])
             r == HasRead(example, t, pos[t])
  <2>1. InStep(Pending(t), h, r, Clears(example, t), Rx(t), Tx(s), sent[s], received[t])
        BY <1>0, <1>1, Zenon DEF StepOf
  <2>2. h \in Int /\ r \in Int /\ r + h + 1 = HasSent(example, s, p) + 1
        /\ HasSent(example, s, p + 1) - r = h + 1
        BY <1>6, <1>7
  <2> HIDE DEF h
  <2>3. Len(Pending(t)) \in Nat /\ Len(received[t]) \in Nat /\ Len(sent[s]) = 0
        BY <1>0, <1>9, EndTypes, Zenon
  <2>4. InStep(Pending(t)', h + 1, r, Clears(example, t), Rx(t), Tx(s), sent[s], received[t])
        BY <1>11, <1>16, <2>1, <2>2, <2>3, InStepSent, Zenon
  <2>5. Rx(t)' = Rx(t) /\ HasRead(example, t, pos'[t]) = r
        BY <1>0, <1>2, <1>15, UntouchedFrame, Zenon
  <2>6. HasSent(example, s, pos'[s]) - r = h + 1
        BY <1>9, <2>2, Zenon
  <2> QED
        BY <1>1, <1>2, <1>14, <1>18, <2>4, <2>5, <2>6, Zenon DEF StepOf
<1>21. StateOf(s)'
  <2>1. noise[s].rx = HasOpened(example, s, p) /\ noise[s].carry = <<>> /\ noise_states[s] = None
        BY <1>0, <1>8, <1>18, Zenon DEF StateOf
  <2> QED
        BY <1>2, <1>7, <1>9, <1>13, <1>14, <1>18, <2>1, Zenon DEF StateOf
<1>22. StateOf(t)'
      BY <1>0, <1>2, <1>15, UntouchedFrame, <1>1, <1>9, Advanced, Zenon
<1> QED
      BY <1>1, <1>17, <1>19, <1>20, <1>21, <1>22, InvByEnd, Zenon

\* What an end does on its own does not concern the other.
LEMMA OtherEndKeeps ==
    ASSUME SecureInv, NEW s \in Side, Untouched(Other(s)), example' = example,
           stream'[Other(s)] = stream[Other(s)], sent'[s] = sent[s], Tx(s)' = Tx(s),
           HasSent(example, s, pos'[s]) = HasSent(example, s, pos[s]), Ready(s) => Ready(s)'
    PROVE  StepOf(Other(s))' /\ StateOf(Other(s))'
<1> DEFINE t == Other(s)
<1>1. t \in Side /\ Other(t) = s /\ StepOf(t) /\ StateOf(t)
      BY InvByEnd, TwoEnds, Zenon
<1> HIDE DEF t
<1>2. /\ Rx(t)' = Rx(t) /\ HasRead(example, t, pos'[t]) = HasRead(example, t, pos[t])
      /\ Pending(t)' = Pending(t)
      BY <1>1, UntouchedFrame, Zenon DEF t
<1>3. received'[t] = received[t]
      BY Zenon DEF Untouched, t
<1>4. StepOf(t)'
      BY <1>1, <1>2, <1>3, StepFrame, Zenon
<1>5. StateOf(t)'
      BY <1>1, UntouchedFrame, Zenon DEF t
<1> QED
      BY <1>4, <1>5, Zenon DEF t

\* A step of the handshake reads, perhaps more than it asked for.
LEMMA FillKeeps ==
    ASSUME SecureInv, NEW s \in Side, Fill(s)
    PROVE  SecureInv'
<1> DEFINE t == Other(s)
           w == Table(example, s)[pos[s] + 1]
<1>0. SecureTypes /\ StepOf(s) /\ StateOf(s) /\ t \in Side /\ t # s /\ Side = {s, t}
      BY InvByEnd, TwoEnds, Zenon
<1>1. pos[s] < Steps(example, s) /\ w \in {"recv", "open"} /\ buffer[s] = <<>>
      BY <1>0, AtStep, Zenon DEF Fill
<1>2. /\ example \in {"noise", "libp2p"} /\ pos[s] \in Nat /\ Steps(example, s) \in Nat
      /\ stream[s] \in Seq(Item) /\ Kept(s) \in Seq(Item)
      BY <1>0, EndTypes, CountTypes, Zenon
<1>3. pos[s] < Steps(example, s) - 4
      BY <1>1, <1>2, StepPlaces, Zenon DEF Places
<1>4. PICK k \in 1..Len(stream[s]) :
        /\ buffer' = [buffer EXCEPT ![s] = SubSeq(stream[s], 1, k)]
        /\ stream' = [stream EXCEPT ![s] = SubSeq(stream[s], k + 1, Len(stream[s]))]
      BY Zenon DEF Fill, Set
<1> DEFINE b == SubSeq(stream[s], 1, k)
           q == SubSeq(stream[s], k + 1, Len(stream[s]))
<1>5. /\ b \in Seq(Item) /\ q \in Seq(Item)
      /\ (Kept(s) \o b) \o q = (Kept(s) \o <<>>) \o stream[s]
      BY <1>2, PendingRead, Zenon
<1> HIDE DEF b, q
<1>6. /\ example' = example /\ pos' = pos /\ noise' = noise /\ noise_states' = noise_states
      /\ reader' = reader /\ writer' = writer /\ sent' = sent /\ received' = received /\ down' = down
      BY Zenon DEF Fill, codecVars, dataVars
<1>7. buffer' = [buffer EXCEPT ![s] = b] /\ stream' = [stream EXCEPT ![s] = q]
      BY <1>4, Zenon DEF b, q
<1>8. SecureTypes'
  <2>1. buffer' \in [Side -> Seq(Item)] /\ stream' \in [Side -> Seq(Item)]
        BY <1>0, <1>5, <1>7, Zenon DEF SecureTypes
  <2> QED
        BY <1>0, <1>6, <2>1, Zenon DEF SecureTypes
<1>9. /\ buffer'[s] = b /\ stream'[s] = q /\ buffer'[t] = buffer[t] /\ stream'[t] = stream[t]
      BY <1>0, <1>7, Zenon DEF SecureTypes
<1>10. /\ Kept(s)' = Kept(s) /\ Rx(s)' = Rx(s) /\ Tx(s)' = Tx(s) /\ Tx(t)' = Tx(t)
       /\ Saved(s)' = Saved(s) /\ WriterMade(s)' = WriterMade(s) /\ (Ready(s) => Ready(s)')
       /\ (MaySend(s) => MaySend(s)')
      BY <1>6, Zenon DEF Kept, Rx, Tx, Saved, ReaderMade, WriterMade, Ready, MaySend
<1>11. StepOf(s)'
  <2>1. Pending(s)' = Pending(s)
        BY <1>1, <1>5, <1>9, <1>10, Zenon DEF Pending
  <2> QED
        BY <1>0, <1>6, <1>10, <2>1, StepFrame, Zenon
<1>12. StateOf(s)'
  <2>1. Kept(s) = <<>>
    <3>1. ~ReaderMade(s)
          BY <1>2, <1>3 DEF ReaderMade
    <3> QED
          BY <1>0, <1>3, <3>1, Zenon DEF StateOf, Kept
  <2> QED
        BY <1>0, <1>6, <1>10, <2>1, Zenon DEF StateOf
<1>13. StepOf(t)' /\ StateOf(t)'
  <2>1. Untouched(t)
        BY <1>6, <1>9, Zenon DEF Untouched
  <2> QED
        BY <1>0, <1>6, <1>9, <1>10, <2>1, OtherEndKeeps, Zenon
<1> QED
      BY <1>0, <1>8, <1>11, <1>12, <1>13, InvByEnd, Zenon

\* The reading task reads, and puts what was carried over before it.
LEMMA ReadKeeps ==
    ASSUME SecureInv, NEW s \in Side, Read(s)
    PROVE  SecureInv'
<1> DEFINE t == Other(s)
<1>0. SecureTypes /\ StepOf(s) /\ StateOf(s) /\ t \in Side /\ t # s /\ Side = {s, t}
      BY InvByEnd, TwoEnds, Zenon
<1>1. Ready(s) /\ buffer[s] = <<>>
      BY Zenon DEF Read
<1>2. /\ example \in {"noise", "libp2p"} /\ pos[s] \in Nat /\ Steps(example, s) \in Nat
      /\ stream[s] \in Seq(Item) /\ Kept(s) \in Seq(Item)
      BY <1>0, EndTypes, CountTypes, Zenon
<1>3. pos[s] = Steps(example, s)
      BY <1>0, <1>1, ReadyAtEnd, Zenon
<1>a. ReaderMade(s) /\ Kept(s) = reader[s].carry /\ Rx(s) = reader[s].rx
      BY <1>2, <1>3 DEF ReaderMade, Kept, Rx
<1>4. PICK k \in 1..Len(stream[s]) :
        /\ buffer' = [buffer EXCEPT ![s] = reader[s].carry \o SubSeq(stream[s], 1, k)]
        /\ stream' = [stream EXCEPT ![s] = SubSeq(stream[s], k + 1, Len(stream[s]))]
      BY Zenon DEF Read, Set
<1> DEFINE b == Kept(s) \o SubSeq(stream[s], 1, k)
           q == SubSeq(stream[s], k + 1, Len(stream[s]))
<1>5. /\ b \in Seq(Item) /\ q \in Seq(Item)
      /\ (<<>> \o b) \o q = (Kept(s) \o <<>>) \o stream[s]
      BY <1>2, PendingRead, Zenon
<1>7. buffer' = [buffer EXCEPT ![s] = b] /\ stream' = [stream EXCEPT ![s] = q]
      BY <1>4, <1>a, Zenon
<1> HIDE DEF b, q
<1>6. /\ example' = example /\ pos' = pos /\ noise' = noise /\ noise_states' = noise_states
      /\ writer' = writer /\ sent' = sent /\ received' = received /\ down' = down
      /\ reader' = [reader EXCEPT ![s].carry = <<>>]
      BY Zenon DEF Read, dataVars
<1>b. /\ reader' \in [Side -> NoiseState] /\ reader'[t] = reader[t]
      /\ reader'[s].carry = <<>> /\ reader'[s].rx = reader[s].rx
  <2>1. reader \in [Side -> NoiseState] /\ <<>> \in Seq(Item)
        BY <1>0 DEF SecureTypes
  <2> QED
        BY <1>0, <1>6, <2>1, Zenon DEF NoiseState
<1>8. SecureTypes'
  <2>1. buffer' \in [Side -> Seq(Item)] /\ stream' \in [Side -> Seq(Item)]
        BY <1>0, <1>5, <1>7, Zenon DEF SecureTypes
  <2> QED
        BY <1>0, <1>6, <1>b, <2>1, Zenon DEF SecureTypes
<1>9. /\ buffer'[s] = b /\ stream'[s] = q /\ buffer'[t] = buffer[t] /\ stream'[t] = stream[t]
      BY <1>0, <1>7, Zenon DEF SecureTypes
<1>10. /\ Kept(s)' = <<>> /\ Rx(s)' = Rx(s) /\ Tx(s)' = Tx(s) /\ Tx(t)' = Tx(t)
       /\ Saved(s)' = Saved(s) /\ WriterMade(s)' = WriterMade(s) /\ (Ready(s) => Ready(s)')
       /\ (MaySend(s) => MaySend(s)')
  <2>1. ReaderMade(s)' /\ Saved(s)' = Saved(s) /\ WriterMade(s)' = WriterMade(s)
        /\ WriterMade(t)' = WriterMade(t)
        BY <1>6, <1>a, Zenon DEF ReaderMade, Saved, WriterMade
  <2> QED
        BY <1>6, <1>a, <1>b, <2>1, Zenon DEF Kept, Rx, Tx, Ready, MaySend
<1>11. StepOf(s)'
  <2>1. Pending(s)' = Pending(s)
        BY <1>1, <1>5, <1>9, <1>10, Zenon DEF Pending
  <2> QED
        BY <1>0, <1>6, <1>10, <2>1, StepFrame, Zenon
<1>12. StateOf(s)'
      BY <1>0, <1>6, <1>10, Zenon DEF StateOf
<1>13. StepOf(t)' /\ StateOf(t)'
  <2>1. Untouched(t)
        BY <1>6, <1>9, <1>b, Zenon DEF Untouched
  <2> QED
        BY <1>0, <1>6, <1>9, <1>10, <2>1, OtherEndKeeps, Zenon
<1> QED
      BY <1>0, <1>8, <1>11, <1>12, <1>13, InvByEnd, Zenon

\* What a step of the handshake finds pending is a message of the handshake: the other end
\* writes others only after the last of those.
LEMMA ReadsHandshake ==
    ASSUME SecureInv, NEW s \in Side, At(s, {"recv", "open"}), Len(Pending(s)) >= 1
    PROVE  HasSent(example, Other(s), pos[Other(s)]) - HasRead(example, s, pos[s]) >= 1
<1> DEFINE t == Other(s)
           w == Table(example, s)[pos[s] + 1]
           h == HasSent(example, t, pos[t]) - HasRead(example, s, pos[s])
<1>0. SecureTypes /\ StepOf(s) /\ t \in Side /\ StateOf(t)
      BY InvByEnd, TwoEnds, Zenon
<1>1. pos[s] < Steps(example, s) /\ w \in {"recv", "open"}
      BY <1>0, AtStep, Zenon
<1>2. /\ example \in {"noise", "libp2p"} /\ pos[s] \in Nat /\ pos[t] \in Nat
      /\ Len(Pending(s)) \in Nat /\ Len(received[s]) \in Nat
      BY <1>0, EndTypes, Zenon
<1>3. HasSent(example, t, pos[t]) \in Nat /\ HasRead(example, s, pos[s]) \in Nat
      BY <1>0, <1>2, CountTypes, Zenon
<1>4. HasRead(example, s, pos[s]) < HasSent(example, t, Steps(example, t))
      BY <1>1, <1>2, StepKinds, Zenon DEF Kinds
<1>5. h >= 0 /\ Len(sent[t]) = Len(received[s]) + (Len(Pending(s)) - h)
      BY <1>0, Zenon DEF StepOf, InStep
<1>6. h = 0 => FALSE
  <2> SUFFICES ASSUME h = 0 PROVE FALSE
        BY Zenon
  <2>1. Len(sent[t]) >= 1
        BY <1>2, <1>5
  <2>2. sent[t] # <<>>
        BY <2>1
  <2>3. pos[t] = Steps(example, t)
        BY <1>0, <2>2, ReadyAtEnd, Zenon DEF StateOf, MaySend
  <2> QED
        BY <1>3, <1>4, <2>3
<1> QED
      BY <1>3, <1>5, <1>6

\* A message of the handshake is read.
LEMMA HandshakeRecvKeeps ==
    ASSUME SecureInv, NEW s \in Side, HandshakeRecv(s)
    PROVE  SecureInv'
<1> DEFINE t == Other(s)
           p == pos[s]
           w == Table(example, s)[p + 1]
<1>0. SecureTypes /\ StepOf(s) /\ StateOf(s) /\ t \in Side /\ t # s /\ Side = {s, t}
      BY InvByEnd, TwoEnds, Zenon
<1>1. /\ example' = example /\ Advance(s) /\ p < Steps(example, s) /\ w \in {"recv", "open"}
      /\ buffer[s] # <<>> /\ At(s, {"recv", "open"})
      BY <1>0, AtStep, Zenon DEF HandshakeRecv
<1>2. At(s, {"recv"}) <=> w = "recv"
      BY <1>0, <1>1, AtStep
<1>3. /\ example \in {"noise", "libp2p"} /\ p \in Nat /\ pos[t] \in Nat
      /\ stream[s] \in Seq(Item) /\ buffer[s] \in Seq(Item)
      /\ Len(Pending(s)) \in Nat /\ Len(received[s]) \in Nat
      BY <1>0, EndTypes, Zenon
<1>4. Counts(example, s, p, w) /\ Places(example, s, p, w)
      BY <1>1, <1>3, StepCounts, StepPlaces, Zenon
<1>5. /\ HasSent(example, t, pos[t]) \in Nat /\ HasRead(example, s, p) \in Nat
      /\ HasOpened(example, s, p) \in Nat /\ HasSent(example, s, p) \in Nat
      /\ HasSealed(example, s, p) \in Nat /\ Steps(example, s) \in Nat
      BY <1>0, <1>3, CountTypes, Zenon
<1>6. /\ HasSent(example, s, p + 1) = HasSent(example, s, p)
      /\ HasRead(example, s, p + 1) = HasRead(example, s, p) + 1
      /\ HasSealed(example, s, p + 1) = HasSealed(example, s, p)
      /\ HasOpened(example, s, p + 1) = HasOpened(example, s, p) + IF w = "open" THEN 1 ELSE 0
  <2>1. w \notin {"send", "seal"} /\ w # "seal"
        BY <1>1, Zenon
  <2> HIDE DEF w
  <2> QED
        BY <1>1, <1>4, <1>5, <2>1 DEF Counts
<1>7. p < Steps(example, s) - 4
      BY <1>1, <1>4, Zenon DEF Places
<1>8. /\ pos'[s] = p + 1 /\ pos'[t] = pos[t] /\ pos' \in [Side -> Nat]
      /\ \A u \in Side : pos'[u] <= Steps(example, u)
      /\ (Ready(t) => Ready(t)') /\ sent[s] = <<>> /\ ~Ready(s)
      BY <1>0, <1>1, Advanced, Zenon
<1>9. /\ noise[s].rx = HasOpened(example, s, p) /\ noise[s].tx = HasSealed(example, s, p)
      /\ noise[s].carry = <<>>
      BY <1>0, <1>7, Zenon DEF StateOf
<1>10. /\ noise' \in [Side -> NoiseState] /\ noise'[t] = noise[t]
       /\ noise'[s].rx = HasOpened(example, s, p + 1) /\ noise'[s].tx = noise[s].tx
       /\ noise'[s].carry = <<>>
  <2>0. noise \in [Side -> NoiseState]
        BY <1>0, Zenon DEF SecureTypes
  <2>1. CASE w = "recv"
    <3>1. noise' = noise /\ HasOpened(example, s, p + 1) = HasOpened(example, s, p)
          BY <1>2, <1>5, <1>6, <2>1 DEF HandshakeRecv
    <3> QED
          BY <1>9, <2>0, <3>1, Zenon
  <2>2. CASE w = "open"
    <3>1. /\ noise' = [noise EXCEPT ![s].rx = noise[s].rx + 1]
          /\ HasOpened(example, s, p + 1) = noise[s].rx + 1
          BY <1>2, <1>6, <1>9, <2>2, Zenon DEF HandshakeRecv
    <3>2. noise[s].rx + 1 \in Nonce
          BY <1>5, <1>9 DEF Nonce
    <3> QED
          BY <1>0, <1>9, <2>0, <3>1, <3>2, ZenonT(30) DEF NoiseState
  <2> QED
        BY <1>1, <2>1, <2>2, Zenon
<1> HIDE DEF w
<1>11. /\ stream' = stream /\ noise_states' = noise_states /\ reader' = reader /\ writer' = writer
       /\ sent' = sent /\ received' = received /\ down' = down
       /\ buffer' = [buffer EXCEPT ![s] = Tail(buffer[s])]
      BY Zenon DEF HandshakeRecv, dataVars, Set
<1>12. /\ ~Saved(s) /\ ~Saved(s)' /\ Rx(s)' = Rx(s) /\ Tx(s)' = Tx(s)
       /\ Kept(s) = noise[s].carry /\ Kept(s)' = noise'[s].carry
      BY <1>0, <1>1, <1>7, <1>8, EarlyFrame, Zenon
<1>13. /\ Tail(buffer[s]) \in Seq(Item) /\ Len(Pending(s)) >= 1
       /\ Pending(s)' = (<<>> \o Tail(buffer[s])) \o stream[s] /\ Taken(Pending(s), Pending(s)')
  <2>1. Pending(s) = (<<>> \o buffer[s]) \o stream[s]
        BY <1>9, <1>12, Zenon DEF Pending
  <2>2. buffer'[s] = Tail(buffer[s])
        BY <1>0, <1>11, Zenon DEF SecureTypes
  <2>3. Pending(s)' = (<<>> \o Tail(buffer[s])) \o stream[s]
        BY <1>10, <1>11, <1>12, <2>2, Zenon DEF Pending
  <2> QED
        BY <1>1, <1>3, <2>1, <2>3, PendingTaken, Zenon
<1>14. SecureTypes'
  <2>1. buffer' \in [Side -> Seq(Item)]
        BY <1>0, <1>11, <1>13, Zenon DEF SecureTypes
  <2> QED
        BY <1>0, <1>1, <1>8, <1>10, <1>11, <2>1, Zenon DEF SecureTypes
<1>15. Untouched(t)
  <2>1. buffer'[t] = buffer[t]
        BY <1>0, <1>11, Zenon DEF SecureTypes
  <2> QED
        BY <1>8, <1>10, <1>11, <2>1, Zenon DEF Untouched
<1>16. StepOf(t)' /\ StateOf(t)'
      BY <1>0, <1>1, <1>6, <1>8, <1>11, <1>12, <1>15, OtherEndKeeps, Zenon
<1>17. StepOf(s)'
  <2> DEFINE h == HasSent(example, t, pos[t]) - HasRead(example, s, p)
             r == HasRead(example, s, p)
  <2>1. InStep(Pending(s), h, r, Clears(example, s), Rx(s), Tx(t), sent[t], received[s])
        BY <1>0, Zenon DEF StepOf
  <2>2. h >= 1
        BY <1>1, <1>13, ReadsHandshake, Zenon
  <2>3. h \in Int /\ r \in Int /\ HasSent(example, t, pos[t]) - (r + 1) = h - 1
        BY <1>5
  <2> HIDE DEF h
  <2>4. InStep(Pending(s)', h - 1, r + 1, Clears(example, s), Rx(s), Tx(t), sent[t], received[s])
        BY <1>3, <1>13, <2>1, <2>2, <2>3, InStepRead, Zenon
  <2>5. Tx(t)' = Tx(t)
        BY <1>0, <1>1, <1>15, UntouchedFrame, Zenon
  <2>6. HasRead(example, s, pos'[s]) = r + 1 /\ HasSent(example, t, pos'[t]) - (r + 1) = h - 1
        BY <1>6, <1>8, <2>3, Zenon
  <2> QED
        BY <1>1, <1>11, <1>12, <2>4, <2>5, <2>6, Zenon DEF StepOf
<1>18. StateOf(s)'
  <2>1. noise_states[s] = None
        BY <1>0, <1>12, Zenon DEF StateOf
  <2> QED
        BY <1>1, <1>6, <1>8, <1>9, <1>10, <1>11, <1>12, <2>1, Zenon DEF StateOf
<1> QED
      BY <1>0, <1>14, <1>16, <1>17, <1>18, InvByEnd, Zenon

\* An end that has done the steps of its handshake has read all there is of the other's.
LEMMA AllRead ==
    ASSUME SecureInv, NEW s \in Side, pos[s] >= Steps(example, s) - 4
    PROVE  HasSent(example, Other(s), pos[Other(s)]) - HasRead(example, s, pos[s]) = 0
<1> DEFINE t == Other(s)
<1>0. SecureTypes /\ StepOf(s) /\ t \in Side
      BY InvByEnd, TwoEnds, Zenon
<1>1. example \in {"noise", "libp2p"} /\ pos[s] \in Nat /\ pos[t] \in Nat
      BY <1>0, EndTypes, Zenon
<1>2. /\ HasSent(example, t, pos[t]) \in Nat /\ HasRead(example, s, pos[s]) \in Nat
      /\ HasSent(example, t, pos[t]) <= HasRead(example, s, pos[s])
      BY <1>0, <1>1, CountTypes, Zenon
<1>3. HasSent(example, t, pos[t]) - HasRead(example, s, pos[s]) >= 0
      BY <1>0, Zenon DEF StepOf, InStep
<1> QED
      BY <1>2, <1>3

\* A message is received.
LEMMA DecodeKeeps ==
    ASSUME SecureInv, NEW s \in Side, Decode(s)
    PROVE  SecureInv'
<1> DEFINE t == Other(s)
           m == Head(buffer[s])
<1>0. SecureTypes /\ StepOf(s) /\ StateOf(s) /\ t \in Side /\ t # s /\ Side = {s, t}
      BY InvByEnd, TwoEnds, Zenon
<1>1. /\ Ready(s) /\ buffer[s] # <<>> /\ example' = example /\ pos' = pos /\ stream' = stream
      /\ noise' = noise /\ noise_states' = noise_states /\ writer' = writer /\ sent' = sent
      /\ down' = down /\ reader' = [reader EXCEPT ![s].rx = reader[s].rx + Decrypted(m.len)]
      /\ buffer' = [buffer EXCEPT ![s] = Tail(buffer[s])]
      /\ received' = [received EXCEPT ![s] = Append(received[s], m.len)]
      BY Zenon DEF Decode, Set
<1>2. /\ example \in {"noise", "libp2p"} /\ pos[s] \in Nat /\ Steps(example, s) \in Nat
      /\ stream[s] \in Seq(Item) /\ buffer[s] \in Seq(Item) /\ received[s] \in Seq(Nat)
      /\ Len(Pending(s)) \in Nat /\ reader[s] \in NoiseState
      BY <1>0, EndTypes, CountTypes, Zenon
<1>3. pos[s] = Steps(example, s)
      BY <1>0, <1>1, ReadyAtEnd, Zenon
<1>4. ReaderMade(s) /\ Kept(s) = reader[s].carry /\ Rx(s) = reader[s].rx /\ Kept(s) = <<>>
  <2>1. ReaderMade(s) /\ Kept(s) = reader[s].carry /\ Rx(s) = reader[s].rx
        BY <1>2, <1>3 DEF ReaderMade, Kept, Rx
  <2> QED
        BY <1>0, <1>1, <2>1, Zenon DEF StateOf
<1>5. /\ Tail(buffer[s]) \in Seq(Item) /\ m \in Item /\ Len(Pending(s)) >= 1 /\ Pending(s)[1] = m
      /\ Taken(Pending(s), (<<>> \o Tail(buffer[s])) \o stream[s])
  <2>1. Pending(s) = (<<>> \o buffer[s]) \o stream[s]
        BY <1>4, Zenon DEF Pending
  <2> QED
        BY <1>1, <1>2, <2>1, PendingTaken, Zenon
<1>6. m.len \in Nat /\ Decrypted(m.len) \in Nat
      BY <1>5, Zenon DEF Item, Decrypted
<1> HIDE DEF m
<1>7. /\ reader' \in [Side -> NoiseState] /\ reader'[t] = reader[t]
      /\ reader'[s].carry = <<>> /\ reader'[s].rx = reader[s].rx + Decrypted(m.len)
  <2>1. reader \in [Side -> NoiseState] /\ reader[s].rx \in Nonce /\ reader[s].carry = <<>>
        BY <1>0, <1>2, <1>4, Zenon DEF SecureTypes, NoiseState
  <2>2. reader[s].rx + Decrypted(m.len) \in Nonce
        BY <1>6, <2>1 DEF Nonce
  <2> QED
        BY <1>0, <1>1, <2>1, <2>2, Zenon DEF NoiseState
<1>8. Append(received[s], m.len) \in Seq(Nat)
      BY <1>2, <1>6, AppendProperties, Zenon
<1>9. SecureTypes'
  <2>1. buffer' \in [Side -> Seq(Item)] /\ received' \in [Side -> Seq(Nat)]
        BY <1>0, <1>1, <1>5, <1>8, Zenon DEF SecureTypes
  <2> QED
        BY <1>0, <1>1, <1>7, <2>1, Zenon DEF SecureTypes
<1>10. /\ buffer'[s] = Tail(buffer[s]) /\ buffer'[t] = buffer[t]
       /\ received'[s] = Append(received[s], m.len) /\ received'[t] = received[t]
      BY <1>0, <1>1, Zenon DEF SecureTypes
<1>11. /\ Kept(s)' = <<>> /\ Rx(s)' = Rx(s) + Decrypted(m.len) /\ Tx(s)' = Tx(s) /\ Tx(t)' = Tx(t)
       /\ Saved(s)' = Saved(s) /\ WriterMade(s)' = WriterMade(s) /\ (Ready(s) => Ready(s)')
       /\ (MaySend(s) => MaySend(s)')
  <2>1. ReaderMade(s)' /\ Saved(s)' = Saved(s) /\ WriterMade(s)' = WriterMade(s)
        /\ WriterMade(t)' = WriterMade(t)
        BY <1>1, <1>4, Zenon DEF ReaderMade, Saved, WriterMade
  <2> QED
        BY <1>1, <1>4, <1>7, <2>1, Zenon DEF Kept, Rx, Tx, Ready, MaySend
<1>12. StepOf(s)'
  <2> DEFINE r == HasRead(example, s, pos[s])
             h == HasSent(example, t, pos[t]) - r
  <2>1. h = 0
        BY <1>2, <1>3, AllRead
  <2>2. InStep(Pending(s), h, r, Clears(example, s), Rx(s), Tx(t), sent[t], received[s])
        BY <1>0, Zenon DEF StepOf
  <2> HIDE DEF h
  <2>3. Pending(s)' = (<<>> \o Tail(buffer[s])) \o stream[s]
        BY <1>1, <1>10, <1>11, Zenon DEF Pending
  <2>4. Taken(Pending(s), Pending(s)') /\ Rx(s) \in Int
        BY <1>0, <1>5, <2>3, EndTypes, Zenon
  <2>5. InStep(Pending(s)', 0, r, Clears(example, s), Rx(s) + Decrypted(m.len), Tx(t), sent[t], received'[s])
        BY <1>2, <1>5, <1>6, <1>10, <2>1, <2>2, <2>4, InStepReceived, ZenonT(30)
  <2>6. HasSent(example, t, pos'[t]) - r = 0 /\ HasRead(example, s, pos'[s]) = r
        BY <1>1, <2>1, Zenon DEF h
  <2> QED
        BY <1>1, <1>11, <2>5, <2>6, Zenon DEF StepOf
<1>13. StateOf(s)'
      BY <1>0, <1>1, <1>11, Zenon DEF StateOf
<1>14. StepOf(t)' /\ StateOf(t)'
  <2>1. Untouched(t)
        BY <1>1, <1>7, <1>10, Zenon DEF Untouched
  <2> QED
        BY <1>0, <1>1, <1>11, <2>1, OtherEndKeeps, Zenon
<1> QED
      BY <1>0, <1>9, <1>12, <1>13, <1>14, InvByEnd, Zenon

\* Where a read buffer is discarded it is empty.
LEMMA DiscardsNothing ==
    ASSUME SecureInv, NEW s \in Side, At(s, {"discard"})
    PROVE  buffer[s] = <<>>
<1> DEFINE t == Other(s)
           p == pos[s]
           w == Table(example, s)[p + 1]
           ps == HasSent(example, t, pos[t])
           pr == HasRead(example, s, p)
<1>0. SecureTypes /\ StepOf(s) /\ StepOf(t) /\ StateOf(t) /\ t \in Side /\ Other(t) = s
      BY InvByEnd, TwoEnds, Zenon
<1>1. p < Steps(example, s) /\ w = "discard"
      BY <1>0, AtStep
<1>2. /\ example \in {"noise", "libp2p"} /\ p \in Nat /\ pos[t] \in Nat
      /\ Len(Pending(s)) \in Nat /\ Len(received[s]) \in Nat
      /\ stream[s] \in Seq(Item) /\ buffer[s] \in Seq(Item) /\ Kept(s) \in Seq(Item)
      /\ Kept(s) \o buffer[s] \in Seq(Item)
      BY <1>0, EndTypes, Zenon
<1>3. /\ ps \in Nat /\ pr \in Nat /\ HasSent(example, s, p) \in Nat
      /\ HasRead(example, t, pos[t]) \in Nat /\ Steps(example, t) \in Nat /\ Steps(example, s) \in Nat
      BY <1>0, <1>2, CountTypes, Zenon
<1>4. ps - pr >= 0 /\ Len(sent[t]) = Len(received[s]) + (Len(Pending(s)) - (ps - pr))
      BY <1>0, Zenon DEF StepOf, InStep
<1>5. HasSent(example, s, p) - HasRead(example, t, pos[t]) >= 0
      BY <1>0, Zenon DEF StepOf, InStep
<1>6. ps = pr /\ (example = "libp2p" => pos[t] < Steps(example, t))
  <2>1. HasRead(example, t, pos[t]) <= HasSent(example, s, p) /\ pr <= ps
        BY <1>3, <1>4, <1>5
  <2> QED
        BY <1>1, <1>2, <2>1, NothingToDiscard, Zenon
<1>7. sent[t] = <<>>
  <2>1. ~Ready(s)
        BY <1>0, <1>1, <1>2, <1>3, ReadyAtEnd
  <2>2. example = "libp2p" => ~Ready(t)
        BY <1>0, <1>2, <1>3, <1>6, ReadyAtEnd
  <2> QED
        BY <1>0, <1>2, <2>1, <2>2, Zenon DEF StateOf, MaySend
<1>8. Len(Pending(s)) = 0
  <2>1. Len(sent[t]) = 0
        BY <1>7
  <2> QED
        BY <1>2, <1>3, <1>4, <1>6, <2>1
<1>9. Len(Pending(s)) = Len(Kept(s) \o buffer[s]) + Len(stream[s])
      BY <1>2, ConcatProperties, Zenon DEF Pending
<1>10. Len(Kept(s) \o buffer[s]) = Len(Kept(s)) + Len(buffer[s])
      BY <1>2, ConcatProperties, Zenon
<1>11. Len(Kept(s)) \in Nat /\ Len(buffer[s]) \in Nat /\ Len(stream[s]) \in Nat
      BY <1>2, LenProperties, Zenon
<1>12. Len(buffer[s]) = 0
  <2>1. 0 = (Len(Kept(s)) + Len(buffer[s])) + Len(stream[s])
        BY <1>8, <1>9, <1>10, Zenon
  <2>2. \A k, b, r \in Nat : 0 = (k + b) + r => b = 0
        OBVIOUS
  <2> QED
        BY <1>11, <2>1, <2>2, Zenon
<1> QED
      BY <1>2, <1>12, EmptySeq, Zenon

\* A Framed is taken apart: what it had read is carried over, or there was nothing.
LEMMA IntoPartsKeeps ==
    ASSUME SecureInv, NEW s \in Side, IntoParts(s)
    PROVE  SecureInv'
<1> DEFINE t == Other(s)
           p == pos[s]
           w == Table(example, s)[p + 1]
<1>0. SecureTypes /\ StepOf(s) /\ StateOf(s) /\ t \in Side /\ t # s /\ Side = {s, t}
      BY InvByEnd, TwoEnds, Zenon
<1>1. /\ example' = example /\ Advance(s) /\ p < Steps(example, s) /\ w \in {"discard", "keep"}
      BY <1>0, AtStep, Zenon DEF IntoParts
<1>2. (At(s, {"keep"}) <=> w = "keep") /\ (w = "discard" => At(s, {"discard"}))
      BY <1>0, <1>1, AtStep
<1>3. /\ example \in {"noise", "libp2p"} /\ p \in Nat /\ stream[s] \in Seq(Item) /\ buffer[s] \in Seq(Item)
      BY <1>0, EndTypes, Zenon
<1>4. Counts(example, s, p, w) /\ Places(example, s, p, w)
      BY <1>1, <1>3, StepCounts, StepPlaces, Zenon
<1>5. /\ HasRead(example, s, p) \in Nat /\ HasOpened(example, s, p) \in Nat
      /\ HasSent(example, s, p) \in Nat /\ HasSealed(example, s, p) \in Nat /\ Steps(example, s) \in Nat
      BY <1>3, CountTypes, Zenon
<1>6. /\ HasSent(example, s, p + 1) = HasSent(example, s, p)
      /\ HasRead(example, s, p + 1) = HasRead(example, s, p)
      /\ HasSealed(example, s, p + 1) = HasSealed(example, s, p)
      /\ HasOpened(example, s, p + 1) = HasOpened(example, s, p)
  <2>1. w \notin {"send", "seal"} /\ w # "seal" /\ w \notin {"recv", "open"} /\ w # "open"
        BY <1>1, Zenon
  <2> HIDE DEF w
  <2> QED
        BY <1>4, <1>5, <2>1 DEF Counts
<1>7. p < Steps(example, s) - 4 /\ (w = "keep" => p = Steps(example, s) - 5)
      BY <1>1, <1>4, Zenon DEF Places
<1>8. /\ pos'[s] = p + 1 /\ pos'[t] = pos[t] /\ pos' \in [Side -> Nat]
      /\ \A u \in Side : pos'[u] <= Steps(example, u)
      /\ (Ready(t) => Ready(t)') /\ sent[s] = <<>> /\ ~Ready(s)
      BY <1>0, <1>1, Advanced, Zenon
<1>9. /\ noise[s].rx = HasOpened(example, s, p) /\ noise[s].tx = HasSealed(example, s, p)
      /\ noise[s].carry = <<>>
      BY <1>0, <1>7, Zenon DEF StateOf
<1>10. /\ noise' \in [Side -> NoiseState] /\ noise'[t] = noise[t]
       /\ noise'[s].rx = noise[s].rx /\ noise'[s].tx = noise[s].tx
       /\ noise'[s].carry = buffer[s] /\ (w # "keep" => noise'[s].carry = <<>>)
  <2>0. noise \in [Side -> NoiseState]
        BY <1>0, Zenon DEF SecureTypes
  <2>1. CASE w = "discard"
    <3>1. noise' = noise /\ buffer[s] = <<>>
          BY <1>2, <2>1, DiscardsNothing, Zenon DEF IntoParts
    <3> QED
          BY <1>9, <2>0, <3>1, Zenon
  <2>2. CASE w = "keep"
    <3>1. noise' = [noise EXCEPT ![s].carry = buffer[s]]
          BY <1>2, <2>2, Zenon DEF IntoParts, Carried
    <3> QED
          BY <1>0, <1>3, <2>0, <2>2, <3>1, Zenon DEF NoiseState
  <2> QED
        BY <1>1, <2>1, <2>2, Zenon
<1> HIDE DEF w
<1>11. /\ stream' = stream /\ noise_states' = noise_states /\ reader' = reader /\ writer' = writer
       /\ sent' = sent /\ received' = received /\ down' = down
       /\ buffer' = [buffer EXCEPT ![s] = <<>>]
      BY Zenon DEF IntoParts, dataVars, Set
<1>12. /\ ~Saved(s) /\ ~Saved(s)' /\ Rx(s)' = Rx(s) /\ Tx(s)' = Tx(s)
       /\ Kept(s) = noise[s].carry /\ Kept(s)' = noise'[s].carry
      BY <1>0, <1>1, <1>7, <1>8, EarlyFrame, Zenon
<1>13. buffer'[s] = <<>> /\ buffer'[t] = buffer[t]
      BY <1>0, <1>11, Zenon DEF SecureTypes
<1>14. SecureTypes'
  <2>1. buffer' \in [Side -> Seq(Item)]
    <3>1. <<>> \in Seq(Item) /\ buffer \in [Side -> Seq(Item)]
          BY <1>0 DEF SecureTypes
    <3> QED
          BY <1>11, <3>1, Zenon
  <2> QED
        BY <1>0, <1>1, <1>8, <1>10, <1>11, <2>1, Zenon DEF SecureTypes
<1>15. Untouched(t)
      BY <1>8, <1>10, <1>11, <1>13, Zenon DEF Untouched
<1>16. StepOf(t)' /\ StateOf(t)'
      BY <1>0, <1>1, <1>6, <1>8, <1>11, <1>12, <1>15, OtherEndKeeps, Zenon
<1>17. StepOf(s)'
  <2>1. Pending(s) = (<<>> \o buffer[s]) \o stream[s]
        BY <1>9, <1>12, Zenon DEF Pending
  <2>2. Pending(s)' = (buffer[s] \o <<>>) \o stream[s]
        BY <1>10, <1>11, <1>12, <1>13, Zenon DEF Pending
  <2>3. <<>> \o buffer[s] = buffer[s] /\ buffer[s] \o <<>> = buffer[s]
        BY <1>3, ConcatEmptySeq, Zenon
  <2>4. Pending(s)' = Pending(s)
        BY <2>1, <2>2, <2>3, Zenon
  <2>5. Tx(t)' = Tx(t)
        BY <1>0, <1>1, <1>15, UntouchedFrame, Zenon
  <2> QED
        BY <1>0, <1>1, <1>6, <1>8, <1>11, <1>12, <2>4, <2>5, StepFrame, Zenon
<1>18. StateOf(s)'
  <2>1. noise_states[s] = None
        BY <1>0, <1>12, Zenon DEF StateOf
  <2>2. pos'[s] < Steps(example, s) - 4 => noise'[s].carry = <<>>
    <3>1. w = "keep" => ~(p + 1 < Steps(example, s) - 4)
          BY <1>3, <1>5, <1>7
    <3> QED
          BY <1>8, <1>10, <3>1, Zenon
  <2> QED
        BY <1>1, <1>6, <1>8, <1>9, <1>10, <1>11, <1>12, <1>13, <2>1, <2>2, Zenon DEF StateOf
<1> QED
      BY <1>0, <1>14, <1>16, <1>17, <1>18, InvByEnd, Zenon

\* The state is saved, the codecs are made with it and the connection is registered: nothing
\* is sent or read.
LEMMA LaterStep ==
    ASSUME SecureInv, NEW s \in Side, pos[s] < Steps(example, s), Advance(s), example' = example,
           Table(example, s)[pos[s] + 1] \in {"save", "reading", "writing", "register"}
    PROVE  /\ pos[s] \in Nat /\ pos[s] >= Steps(example, s) - 4 /\ Steps(example, s) \in Nat
           /\ HasSent(example, s, pos[s] + 1) = HasSent(example, s, pos[s])
           /\ HasRead(example, s, pos[s] + 1) = HasRead(example, s, pos[s])
           /\ HasSealed(example, s, pos[s] + 1) = HasSealed(example, s, pos[s])
           /\ HasOpened(example, s, pos[s] + 1) = HasOpened(example, s, pos[s])
           /\ noise[s].rx = Nonces(example) /\ noise[s].tx = Nonces(example)
<1> DEFINE p == pos[s]
           w == Table(example, s)[p + 1]
<1>0. SecureTypes /\ StateOf(s)
      BY InvByEnd, Zenon
<1>1. example \in {"noise", "libp2p"} /\ p \in Nat
      BY <1>0, EndTypes, Zenon
<1>2. Counts(example, s, p, w) /\ Places(example, s, p, w)
      BY <1>1, StepCounts, StepPlaces, Zenon
<1>3. /\ HasRead(example, s, p) \in Nat /\ HasOpened(example, s, p) \in Nat
      /\ HasSent(example, s, p) \in Nat /\ HasSealed(example, s, p) \in Nat /\ Steps(example, s) \in Nat
      BY <1>1, CountTypes, Zenon
<1>4. /\ w \notin {"send", "seal"} /\ w # "seal" /\ w \notin {"recv", "open"} /\ w # "open"
      /\ w \in {"save", "reading", "writing", "register"}
      BY Zenon
<1> HIDE DEF w
<1>5. /\ HasSent(example, s, p + 1) = HasSent(example, s, p)
      /\ HasRead(example, s, p + 1) = HasRead(example, s, p)
      /\ HasSealed(example, s, p + 1) = HasSealed(example, s, p)
      /\ HasOpened(example, s, p + 1) = HasOpened(example, s, p)
      BY <1>2, <1>3, <1>4 DEF Counts
<1>6. p >= Steps(example, s) - 4
      BY <1>2, <1>3, <1>4 DEF Places
<1>7. HasSealed(example, s, p) = Nonces(example) /\ HasOpened(example, s, p) = Nonces(example)
      BY <1>1, <1>6, CountTypes, ZenonT(30)
<1> QED
      BY <1>0, <1>1, <1>3, <1>5, <1>6, <1>7, Zenon DEF StateOf

\* The state of the handshake is saved.
LEMMA SaveStateKeeps ==
    ASSUME SecureInv, NEW s \in Side, SaveState(s)
    PROVE  SecureInv'
<1> DEFINE t == Other(s)
           p == pos[s]
           w == Table(example, s)[p + 1]
<1>0. SecureTypes /\ StepOf(s) /\ StateOf(s) /\ t \in Side /\ t # s /\ Side = {s, t}
      BY InvByEnd, TwoEnds, Zenon
<1>1. /\ example' = example /\ Advance(s) /\ p < Steps(example, s) /\ w = "save"
      BY <1>0, AtStep DEF SaveState
<1>2. /\ p \in Nat /\ Steps(example, s) \in Nat
      /\ HasSent(example, s, p + 1) = HasSent(example, s, p)
      /\ HasRead(example, s, p + 1) = HasRead(example, s, p)
      /\ HasSealed(example, s, p + 1) = HasSealed(example, s, p)
      /\ HasOpened(example, s, p + 1) = HasOpened(example, s, p)
      BY <1>1, LaterStep, Zenon
<1>3. p = Steps(example, s) - 4
  <2>1. example \in {"noise", "libp2p"}
        BY <1>0, EndTypes, Zenon
  <2> QED
        BY <1>1, <1>2, <2>1, StepPlaces DEF Places
<1>4. /\ pos'[s] = p + 1 /\ pos'[t] = pos[t] /\ pos' \in [Side -> Nat]
      /\ \A u \in Side : pos'[u] <= Steps(example, u)
      /\ (Ready(t) => Ready(t)') /\ sent[s] = <<>> /\ ~Ready(s)
      BY <1>0, <1>1, Advanced, Zenon
<1>5. /\ stream' = stream /\ buffer' = buffer /\ noise' = noise /\ reader' = reader /\ writer' = writer
      /\ sent' = sent /\ received' = received /\ down' = down
      /\ noise_states' = [noise_states EXCEPT ![s] = noise[s]]
      BY Zenon DEF SaveState, dataVars, Set
<1>6. /\ noise_states' \in [Side -> NoiseState]
      /\ noise_states'[s] = noise[s] /\ noise_states'[t] = noise_states[t]
      BY <1>0, <1>5, Zenon DEF SecureTypes
<1>7. SecureTypes'
      BY <1>0, <1>1, <1>4, <1>5, <1>6, Zenon DEF SecureTypes
<1>8. /\ ~ReaderMade(s) /\ ~ReaderMade(s)' /\ ~WriterMade(s) /\ ~WriterMade(s)' /\ Saved(s)'
      BY <1>1, <1>2, <1>3, <1>4 DEF ReaderMade, WriterMade, Saved
<1>9. /\ Kept(s)' = Kept(s) /\ Rx(s)' = Rx(s) /\ Tx(s)' = Tx(s)
      BY <1>1, <1>5, <1>8, Zenon DEF Kept, Rx, Tx
<1>10. Untouched(t)
      BY <1>4, <1>5, <1>6, Zenon DEF Untouched
<1>11. StepOf(t)' /\ StateOf(t)'
      BY <1>1, <1>2, <1>4, <1>5, <1>9, <1>10, OtherEndKeeps, Zenon
<1>12. StepOf(s)'
  <2>1. Pending(s)' = Pending(s)
        BY <1>5, <1>9, Zenon DEF Pending
  <2>2. Tx(t)' = Tx(t)
        BY <1>0, <1>1, <1>10, UntouchedFrame, Zenon
  <2> QED
        BY <1>0, <1>1, <1>2, <1>4, <1>5, <1>9, <2>1, <2>2, StepFrame, Zenon
<1>13. StateOf(s)'
  <2>1. ~(pos'[s] < Steps(example, s) - 4)
        BY <1>2, <1>3, <1>4
  <2> QED
        BY <1>0, <1>1, <1>2, <1>4, <1>5, <1>6, <1>8, <1>9, <2>1, ZenonT(30) DEF StateOf
<1> QED
      BY <1>0, <1>7, <1>11, <1>12, <1>13, InvByEnd, Zenon

\* Reading's codec, and then Writing's, is made with the state that was saved.
LEMMA MakeCodecKeeps ==
    ASSUME SecureInv, NEW s \in Side, MakeCodec(s)
    PROVE  SecureInv'
<1> DEFINE t == Other(s)
           p == pos[s]
           w == Table(example, s)[p + 1]
<1>0. SecureTypes /\ StepOf(s) /\ StateOf(s) /\ t \in Side /\ t # s /\ Side = {s, t}
      BY InvByEnd, TwoEnds, Zenon
<1>1. /\ example' = example /\ Advance(s) /\ p < Steps(example, s) /\ w \in {"reading", "writing"}
      BY <1>0, AtStep, Zenon DEF MakeCodec
<1>2. /\ p \in Nat /\ Steps(example, s) \in Nat
      /\ HasSent(example, s, p + 1) = HasSent(example, s, p)
      /\ HasRead(example, s, p + 1) = HasRead(example, s, p)
      /\ HasSealed(example, s, p + 1) = HasSealed(example, s, p)
      /\ HasOpened(example, s, p + 1) = HasOpened(example, s, p)
      /\ noise[s].rx = Nonces(example) /\ noise[s].tx = Nonces(example)
      BY <1>1, LaterStep, Zenon
<1>3. (w = "reading" => p = Steps(example, s) - 3) /\ (w = "writing" => p = Steps(example, s) - 2)
  <2>1. example \in {"noise", "libp2p"}
        BY <1>0, EndTypes, Zenon
  <2> QED
        BY <1>1, <1>2, <2>1, StepPlaces, Zenon DEF Places
<1>4. /\ pos'[s] = p + 1 /\ pos'[t] = pos[t] /\ pos' \in [Side -> Nat]
      /\ \A u \in Side : pos'[u] <= Steps(example, u)
      /\ (Ready(t) => Ready(t)') /\ sent[s] = <<>> /\ ~Ready(s)
      BY <1>0, <1>1, Advanced, Zenon
<1>5. /\ stream' = stream /\ buffer' = buffer /\ noise' = noise
      /\ sent' = sent /\ received' = received /\ down' = down
      BY Zenon DEF MakeCodec, dataVars
<1>6. Saved(s) /\ Saved(s)' /\ ~WriterMade(s) /\ noise_states[s] = noise[s]
  <2>1. Saved(s) /\ Saved(s)' /\ ~WriterMade(s)
        BY <1>1, <1>2, <1>3, <1>4 DEF Saved, WriterMade
  <2> QED
        BY <1>0, <2>1, Zenon DEF StateOf
<1>7. /\ reader' \in [Side -> NoiseState] /\ writer' \in [Side -> NoiseState]
      /\ noise_states' \in [Side -> NoiseState]
      /\ reader'[t] = reader[t] /\ writer'[t] = writer[t] /\ noise_states'[t] = noise_states[t]
      /\ Kept(s)' = Kept(s) /\ Rx(s)' = Rx(s) /\ Tx(s)' = Tx(s)
      /\ noise_states'[s] = IF Saved(s)' /\ ~WriterMade(s)' THEN noise[s] ELSE None
  <2>0. /\ reader \in [Side -> NoiseState] /\ writer \in [Side -> NoiseState]
        /\ noise_states \in [Side -> NoiseState] /\ noise_states[s] \in NoiseState /\ None \in NoiseState
        BY <1>0 DEF SecureTypes, None, NoiseState, Nonce
  <2>1. CASE w = "reading"
    <3>1. At(s, {"reading"}) /\ ~At(s, {"writing"})
          BY <1>0, <1>1, <2>1, AtStep
    <3>2. reader' = [reader EXCEPT ![s] = noise_states[s]] /\ writer' = writer /\ noise_states' = noise_states
          BY <3>1, Zenon DEF MakeCodec, TakeState, Set
    <3>3. ~ReaderMade(s) /\ ReaderMade(s)' /\ ~WriterMade(s)'
          BY <1>1, <1>2, <1>3, <1>4, <2>1 DEF ReaderMade, WriterMade
    <3>4. reader'[s] = noise[s] /\ reader'[t] = reader[t]
          BY <1>0, <1>6, <2>0, <3>2, Zenon
    <3>5. Kept(s)' = Kept(s) /\ Rx(s)' = Rx(s) /\ Tx(s)' = Tx(s)
          BY <1>1, <1>2, <1>6, <3>3, <3>4, Zenon DEF Kept, Rx, Tx
    <3> QED
          BY <1>6, <2>0, <3>2, <3>3, <3>4, <3>5, Zenon
  <2>2. CASE w = "writing"
    <3>1. ~At(s, {"reading"}) /\ At(s, {"writing"})
          BY <1>0, <1>1, <2>2, AtStep
    <3>2. /\ writer' = [writer EXCEPT ![s] = noise_states[s]] /\ reader' = reader
          /\ noise_states' = [noise_states EXCEPT ![s] = None]
          BY <3>1, Zenon DEF MakeCodec, TakeState, Set
    <3>3. ReaderMade(s) /\ ReaderMade(s)' /\ WriterMade(s)'
          BY <1>1, <1>2, <1>3, <1>4, <2>2 DEF ReaderMade, WriterMade
    <3>4. /\ writer'[s] = noise[s] /\ writer'[t] = writer[t]
          /\ noise_states'[s] = None /\ noise_states'[t] = noise_states[t]
          BY <1>0, <1>6, <2>0, <3>2, Zenon
    <3>5. Kept(s)' = Kept(s) /\ Rx(s)' = Rx(s) /\ Tx(s)' = Tx(s)
          BY <1>1, <1>2, <1>6, <3>2, <3>3, <3>4, Zenon DEF Kept, Rx, Tx
    <3> QED
          BY <2>0, <3>2, <3>3, <3>4, <3>5, Zenon
  <2> QED
        BY <1>1, <2>1, <2>2, Zenon
<1> HIDE DEF w
<1>8. SecureTypes'
      BY <1>0, <1>1, <1>4, <1>5, <1>7, Zenon DEF SecureTypes
<1>9. Untouched(t)
      BY <1>4, <1>5, <1>7, Zenon DEF Untouched
<1>10. StepOf(t)' /\ StateOf(t)'
      BY <1>1, <1>2, <1>4, <1>5, <1>7, <1>9, OtherEndKeeps, Zenon
<1>11. StepOf(s)'
  <2>1. Pending(s)' = Pending(s)
        BY <1>5, <1>7, Zenon DEF Pending
  <2>2. Tx(t)' = Tx(t)
        BY <1>0, <1>1, <1>9, UntouchedFrame, Zenon
  <2> QED
        BY <1>0, <1>1, <1>2, <1>4, <1>5, <1>7, <2>1, <2>2, StepFrame, Zenon
<1>12. StateOf(s)'
  <2>1. ~(pos'[s] < Steps(example, s) - 4)
        BY <1>1, <1>2, <1>3, <1>4
  <2>2. noise[s].tx = HasSealed(example, s, p) /\ noise[s].rx = HasOpened(example, s, p)
        /\ (Kept(s) # <<>> => buffer[s] = <<>>)
        BY <1>0, Zenon DEF StateOf
  <2> QED
        BY <1>1, <1>2, <1>4, <1>5, <1>7, <2>1, <2>2, Zenon DEF StateOf
<1> QED
      BY <1>0, <1>8, <1>10, <1>11, <1>12, InvByEnd, Zenon

\* The connection is registered.
LEMMA RegisterConnKeeps ==
    ASSUME SecureInv, NEW s \in Side, RegisterConn(s)
    PROVE  SecureInv'
<1> DEFINE t == Other(s)
           p == pos[s]
           w == Table(example, s)[p + 1]
<1>0. SecureTypes /\ StepOf(s) /\ StateOf(s) /\ t \in Side /\ t # s /\ Side = {s, t}
      BY InvByEnd, TwoEnds, Zenon
<1>1. /\ example' = example /\ Advance(s) /\ p < Steps(example, s) /\ w = "register"
      BY <1>0, AtStep DEF RegisterConn
<1>2. /\ p \in Nat /\ Steps(example, s) \in Nat
      /\ HasSent(example, s, p + 1) = HasSent(example, s, p)
      /\ HasRead(example, s, p + 1) = HasRead(example, s, p)
      /\ HasSealed(example, s, p + 1) = HasSealed(example, s, p)
      /\ HasOpened(example, s, p + 1) = HasOpened(example, s, p)
      BY <1>1, LaterStep, Zenon
<1>3. p = Steps(example, s) - 1
  <2>1. example \in {"noise", "libp2p"}
        BY <1>0, EndTypes, Zenon
  <2> QED
        BY <1>1, <1>2, <2>1, StepPlaces DEF Places
<1>4. /\ pos'[s] = p + 1 /\ pos'[t] = pos[t] /\ pos' \in [Side -> Nat]
      /\ \A u \in Side : pos'[u] <= Steps(example, u)
      /\ (Ready(t) => Ready(t)') /\ sent[s] = <<>> /\ ~Ready(s)
      BY <1>0, <1>1, Advanced, Zenon
<1>5. /\ stream' = stream /\ buffer' = buffer /\ noise' = noise /\ reader' = reader /\ writer' = writer
      /\ sent' = sent /\ received' = received /\ down' = down /\ noise_states' = noise_states
      BY Zenon DEF RegisterConn, dataVars, codecVars
<1>7. SecureTypes'
      BY <1>0, <1>1, <1>4, <1>5, Zenon DEF SecureTypes
<1>8. /\ ReaderMade(s) /\ ReaderMade(s)' /\ WriterMade(s) /\ WriterMade(s)'
      BY <1>1, <1>2, <1>3, <1>4 DEF ReaderMade, WriterMade
<1>9. /\ Kept(s)' = Kept(s) /\ Rx(s)' = Rx(s) /\ Tx(s)' = Tx(s)
      BY <1>1, <1>5, <1>8, Zenon DEF Kept, Rx, Tx
<1>10. Untouched(t)
      BY <1>4, <1>5, Zenon DEF Untouched
<1>11. StepOf(t)' /\ StateOf(t)'
      BY <1>1, <1>2, <1>4, <1>5, <1>9, <1>10, OtherEndKeeps, Zenon
<1>12. StepOf(s)'
  <2>1. Pending(s)' = Pending(s)
        BY <1>5, <1>9, Zenon DEF Pending
  <2>2. Tx(t)' = Tx(t)
        BY <1>0, <1>1, <1>10, UntouchedFrame, Zenon
  <2> QED
        BY <1>0, <1>1, <1>2, <1>4, <1>5, <1>9, <2>1, <2>2, StepFrame, Zenon
<1>13. StateOf(s)'
  <2>1. ~(pos'[s] < Steps(example, s) - 4)
        BY <1>2, <1>3, <1>4
  <2> QED
        BY <1>0, <1>1, <1>2, <1>4, <1>5, <1>8, <1>9, <2>1, Zenon DEF StateOf
<1> QED
      BY <1>0, <1>7, <1>11, <1>12, <1>13, InvByEnd, Zenon

\* A message that fits is one noise message, or none if it is empty: the nonces the sender
\* uses for it are the ones its receiver will.
LEMMA FitsInOne ==
    ASSUME NEW len \in Nat, Fits(len)
    PROVE  NoiseMessages(len) = Decrypted(len)
<1> DEFINE room == MAX_MESSAGE_LEN - Tag
           n == (len + room - 1) \div room
<1>1. room \in Nat /\ room >= 1 /\ Tag \in Nat /\ Tag >= 1 /\ MAX_MESSAGE_LEN = room + Tag
      OBVIOUS
<1>2. NoiseMessages(len) = n
      BY Zenon DEF NoiseMessages, Ceil
<1>3. len + Tag * n <= MAX_MESSAGE_LEN
      BY <1>2, Zenon DEF Fits
<1> HIDE DEF room
<1>4. CASE len = 0
  <2>1. room - 1 < room /\ room - 1 \in Nat /\ len + room - 1 = room - 1
        BY <1>1, <1>4
  <2>2. n = 0
        BY <1>1, <2>1
  <2> QED
        BY <1>2, <1>4, <2>2, Zenon DEF Decrypted
<1>5. CASE len >= 1 /\ len <= room
  <2>1. room <= len + room - 1 /\ len + room - 1 < 2 * room /\ len + room - 1 \in Nat
        BY <1>1, <1>5
  <2>2. n = 1
        BY <1>1, <2>1
  <2> QED
        BY <1>2, <1>5, <2>2 DEF Decrypted
<1>6. CASE len > room
  <2>1. len + room - 1 >= 2 * room /\ len + room - 1 \in Nat
        BY <1>1, <1>6
  <2>2. n >= 2 /\ n \in Nat
        BY <1>1, <2>1
  <2> HIDE DEF n
  <2>3. Tag * n >= 2 * Tag /\ Tag * n \in Nat
        BY <1>1, <2>2
  <2> QED
        BY <1>1, <1>3, <1>6, <2>3
<1> QED
      BY <1>1, <1>4, <1>5, <1>6

\* A chunk as large as a noise message never fits: a frame that is encoded is one chunk.
LEMMA OneChunk ==
    ASSUME NEW len \in Nat, len > 0, \A i \in DOMAIN Chunks(len) : Fits(Chunks(len)[i])
    PROVE  Chunks(len) = <<len>>
<1> DEFINE max == MAX_MESSAGE_LEN
           n == Ceil(len, max)
           chunk(i) == IF i < n THEN max ELSE len - (i - 1) * max
<1>1. max \in Nat /\ max >= 1 /\ Tag \in Nat /\ Tag >= 1
      OBVIOUS
<1>2. len + max - 1 \in Nat /\ len + max - 1 >= max
      BY <1>1
<1> DEFINE a == len + max - 1
<1> HIDE DEF a
<1>3. n = a \div max /\ a \in Nat /\ a >= max
      BY <1>2, Zenon DEF Ceil, a
<1>4. a \div max \in Nat /\ a \div max >= 1
      BY <1>1, <1>3
<1>5. n \in Nat /\ n >= 1
      BY <1>3, <1>4, Zenon
<1>6. Chunks(len) = [i \in 1..n |-> chunk(i)]
      BY Zenon DEF Chunks
<1> HIDE DEF n
<1>7. 1 \in DOMAIN Chunks(len) /\ Chunks(len)[1] = chunk(1)
      BY <1>5, <1>6
<1>8. n = 1
  <2> SUFFICES ASSUME n >= 2 PROVE FALSE
        BY <1>5
  <2>5. Fits(Chunks(len)[1])
        BY <1>7, Zenon
  <2>4. Fits(Chunks(len)[1]) /\ chunk(1) = max
        BY <1>5, <2>5
  <2>1. Fits(max)
        BY <1>7, <2>4, Zenon
  <2>2. NoiseMessages(max) = Decrypted(max)
        BY <1>1, <2>1, FitsInOne, Zenon
  <2>3. NoiseMessages(max) = 1
        BY <1>1, <2>2 DEF Decrypted
  <2> QED
        BY <1>1, <2>1, <2>3 DEF Fits
<1>9. chunk(1) = len
      BY <1>1, <1>8
<1>10. [i \in 1..1 |-> chunk(i)] = <<chunk(1)>>
      OBVIOUS
<1> QED
      BY <1>6, <1>8, <1>9, <1>10, Zenon

\* What is handed to noise for a message that is encoded.
LEMMA OnePlaintext ==
    ASSUME SecureTypes, NEW len \in Nat, Encodes(len), example = "libp2p" => len > 0
    PROVE  /\ Len(Plaintexts(len)) = 1 /\ Plaintexts(len)[1] = len
           /\ NoiseMessages(len) = Decrypted(len)
<1>1. Plaintexts(len) = <<len>>
  <2>1. CASE example = "libp2p"
    <3>1. Plaintexts(len) = Chunks(len) /\ len > 0
          BY <2>1, Zenon DEF Plaintexts
    <3>2. \A i \in DOMAIN Chunks(len) : Fits(Chunks(len)[i])
          BY <3>1, Zenon DEF Encodes
    <3> QED
          BY <3>1, <3>2, OneChunk, Zenon
  <2>2. CASE example # "libp2p"
        BY <2>2, Zenon DEF Plaintexts
  <2> QED
        BY <2>1, <2>2, Zenon
<1>2. 1 \in DOMAIN <<len>> /\ <<len>>[1] = len /\ Len(<<len>>) = 1
      OBVIOUS
<1>3. Fits(len)
      BY <1>1, <1>2, Zenon DEF Encodes
<1> QED
      BY <1>1, <1>2, <1>3, FitsInOne, Zenon

\* A message is written.
LEMMA WriteKeeps ==
    ASSUME SecureInv, NEW s \in Side, NEW len \in Sizes, Write(s, len)
    PROVE  SecureInv'
<1> DEFINE t == Other(s)
           x == Sealed(writer[s].tx, len)
<1>0. /\ SecureTypes /\ StepOf(s) /\ StateOf(s) /\ t \in Side /\ t # s /\ Side = {s, t}
      /\ StepOf(t) /\ StateOf(t) /\ Other(t) = s
      BY InvByEnd, TwoEnds, Zenon
<1>1. /\ MaySend(s) /\ Ready(s) /\ Encodes(len) /\ (example = "libp2p" => len > 0) /\ len \in Nat
      BY Zenon DEF Write, MaySend
<1>2. /\ Len(Plaintexts(len)) = 1 /\ Plaintexts(len)[1] = len
      /\ NoiseMessages(len) = Decrypted(len) /\ Decrypted(len) \in Nat
  <2>1. Decrypted(len) \in Nat
        BY Zenon DEF Decrypted
  <2> QED
        BY <1>0, <1>1, <2>1, OnePlaintext, Zenon
<1>3. /\ example \in {"noise", "libp2p"} /\ pos[s] \in Nat /\ Steps(example, s) \in Nat
      /\ pos[t] \in Nat /\ writer[s] \in NoiseState /\ sent[s] \in Seq(Sizes)
      /\ stream[t] \in Seq(Item) /\ buffer[t] \in Seq(Item) /\ Kept(t) \in Seq(Item)
      /\ Len(Pending(t)) \in Nat /\ Len(received[t]) \in Nat
      BY <1>0, EndTypes, CountTypes, Zenon
<1>4. writer[s].tx \in Nonce /\ writer[s].tx \in Int /\ x \in Item
  <2>1. writer[s].tx \in Nonce
        BY <1>3, Zenon DEF NoiseState
  <2>2. writer[s].tx \in Int
        BY <2>1 DEF Nonce
  <2> QED
        BY <1>1, <2>1, <2>2, Zenon DEF Item, Sealed
<1>5. [i \in 1..1 |-> Sealed(writer[s].tx + i - 1, Plaintexts(len)[i])] = <<x>>
  <2> DEFINE f == [i \in 1..1 |-> Sealed(writer[s].tx + i - 1, Plaintexts(len)[i])]
             y == Sealed(writer[s].tx + 1 - 1, Plaintexts(len)[1])
  <2>1. y = x
        BY <1>2, <1>4
  <2>2. f = <<y>>
        OBVIOUS
  <2> QED
        BY <2>1, <2>2, Zenon
<1>6. /\ stream' = [stream EXCEPT ![t] = stream[t] \o <<x>>]
      /\ writer' = [writer EXCEPT ![s].tx = writer[s].tx + Decrypted(len)]
  <2>1. Emit(s, [i \in 1..1 |-> Sealed(writer[s].tx + i - 1, Plaintexts(len)[i])])
        BY <1>2, Zenon DEF Write
  <2>2. Emit(s, <<x>>)
        BY <1>5, <2>1, Zenon
  <2>3. writer' = [writer EXCEPT ![s].tx = writer[s].tx + Decrypted(len)]
        BY <1>2, Zenon DEF Write
  <2> QED
        BY <2>2, <2>3, Zenon DEF Emit, Set
<1>7. /\ sent' = [sent EXCEPT ![s] = Append(sent[s], len)] /\ example' = example /\ pos' = pos
      /\ buffer' = buffer /\ noise' = noise /\ noise_states' = noise_states /\ reader' = reader
      /\ received' = received /\ down' = down
      BY Zenon DEF Write, Set
<1> HIDE DEF x
<1>8. /\ writer' \in [Side -> NoiseState] /\ writer'[t] = writer[t]
      /\ writer'[s].tx = writer[s].tx + Decrypted(len)
  <2>1. writer \in [Side -> NoiseState]
        BY <1>0, Zenon DEF SecureTypes
  <2>2. writer[s].tx + Decrypted(len) \in Nonce
        BY <1>2, <1>4 DEF Nonce
  <2> QED
        BY <1>0, <1>6, <2>1, <2>2, Zenon DEF NoiseState
<1>9. /\ Append(sent[s], len) \in Seq(Sizes) /\ sent' \in [Side -> Seq(Sizes)]
      /\ sent'[s] = Append(sent[s], len) /\ sent'[t] = sent[t]
  <2>1. Append(sent[s], len) \in Seq(Sizes)
        BY <1>3, AppendProperties, Zenon
  <2> QED
        BY <1>0, <1>7, <2>1, Zenon DEF SecureTypes
<1>10. /\ stream[t] \o <<x>> \in Seq(Item)
       /\ Given(Pending(t), (Kept(t) \o buffer[t]) \o (stream[t] \o <<x>>), x)
      BY <1>3, <1>4, PendingGiven, Zenon DEF Pending
<1>11. /\ stream' \in [Side -> Seq(Item)] /\ stream'[t] = stream[t] \o <<x>> /\ stream'[s] = stream[s]
      BY <1>0, <1>6, <1>10, Zenon DEF SecureTypes
<1>12. SecureTypes'
      BY <1>0, <1>7, <1>8, <1>9, <1>11, Zenon DEF SecureTypes
<1>13. pos[s] = Steps(example, s)
      BY <1>0, <1>1, ReadyAtEnd, Zenon
<1>14. WriterMade(s) /\ WriterMade(s)'
      BY <1>3, <1>7, <1>13 DEF WriterMade
<1>15. /\ Tx(s) = writer[s].tx /\ Tx(s)' = Tx(s) + Decrypted(len)
      BY <1>8, <1>14, Zenon DEF Tx
<1>16. Untouched(t)
      BY <1>7, <1>8, <1>9, Zenon DEF Untouched
<1>17. /\ Kept(s)' = Kept(s) /\ Rx(s)' = Rx(s) /\ Saved(s)' = Saved(s)
       /\ (Ready(s) => Ready(s)') /\ (MaySend(s) => MaySend(s)')
      BY <1>7, Zenon DEF Kept, Rx, ReaderMade, Saved, Ready, MaySend
<1>18. StepOf(s)'
  <2>1. Pending(s)' = Pending(s)
        BY <1>7, <1>11, <1>17, Zenon DEF Pending
  <2>2. Tx(t)' = Tx(t)
        BY <1>0, <1>7, <1>16, UntouchedFrame, Zenon
  <2> QED
        BY <1>0, <1>7, <1>9, <1>17, <2>1, <2>2, StepFrame, Zenon
<1>19. StateOf(s)'
      BY <1>0, <1>1, <1>7, <1>14, <1>17, Zenon DEF StateOf
<1>20. StateOf(t)'
      BY <1>0, <1>7, <1>16, <1>17, UntouchedFrame, Zenon
<1>21. StepOf(t)'
  <2> DEFINE r == HasRead(example, t, pos[t])
             h == HasSent(example, s, pos[s]) - r
  <2>1. InStep(Pending(t), h, r, Clears(example, t), Rx(t), Tx(s), sent[s], received[t])
        BY <1>0, Zenon DEF StepOf
  <2>2. h \in Int /\ Tx(s) \in Int
    <3>1. HasSent(example, s, pos[s]) \in Nat /\ r \in Nat
          BY <1>0, <1>3, CountTypes, Zenon
    <3> QED
          BY <1>4, <1>15, <3>1
  <2>3. /\ Kept(t)' = Kept(t) /\ Rx(t)' = Rx(t)
        BY <1>0, <1>7, <1>16, UntouchedFrame, Zenon
  <2>4. Pending(t)' = (Kept(t) \o buffer[t]) \o (stream[t] \o <<x>>)
        BY <1>7, <1>11, <2>3, Zenon DEF Pending
  <2>5. Given(Pending(t), Pending(t)', Sealed(Tx(s), len))
        BY <1>10, <1>15, <2>4, Zenon DEF x
  <2>6. HasSent(example, s, pos'[s]) - r = h /\ HasRead(example, t, pos'[t]) = r
        BY <1>7, Zenon
  <2> HIDE DEF h, r
  <2>7. InStep(Pending(t)', h, r, Clears(example, t), Rx(t), Tx(s) + Decrypted(len), sent'[s], received[t])
        BY <1>3, <1>9, <2>1, <2>2, <2>5, InStepWritten, Zenon
  <2> QED
        BY <1>0, <1>7, <1>15, <2>3, <2>6, <2>7, Zenon DEF StepOf
<1> QED
      BY <1>0, <1>12, <1>18, <1>19, <1>20, <1>21, InvByEnd, Zenon

\* A message that is not encoded takes the connection down.
LEMMA WriteFailsKeeps ==
    ASSUME SecureInv, NEW s \in Side, NEW len \in Sizes, WriteFails(s, len)
    PROVE  SecureInv'
<1>1. /\ example' = example /\ pos' = pos /\ stream' = stream /\ buffer' = buffer /\ noise' = noise
      /\ noise_states' = noise_states /\ reader' = reader /\ writer' = writer /\ sent' = sent
      /\ received' = received /\ down' = down \cup {s}
      BY Zenon DEF WriteFails, codecVars
<1>2. SecureTypes /\ EndsInStep /\ StateHanded
      BY Zenon DEF SecureInv
<1>3. SecureTypes'
      BY <1>1, <1>2, Zenon DEF SecureTypes
<1>4. EndsInStep'
      BY <1>1, <1>2, Zenon DEF EndsInStep, Pending, Kept, Rx, Tx, ReaderMade, WriterMade
<1>5. StateHanded'
      BY <1>1, <1>2, Zenon DEF StateHanded, MaySend, Ready, Saved, Kept, ReaderMade, WriterMade
<1> QED
      BY <1>3, <1>4, <1>5, Zenon DEF SecureInv

\* So does a step that changes nothing.
LEMMA SecureStutter ==
    ASSUME SecureInv, UNCHANGED secureVars
    PROVE  SecureInv'
<1>1. /\ example' = example /\ pos' = pos /\ stream' = stream /\ buffer' = buffer /\ noise' = noise
      /\ noise_states' = noise_states /\ reader' = reader /\ writer' = writer /\ sent' = sent
      /\ received' = received /\ down' = down
      BY Zenon DEF secureVars, codecVars, dataVars
<1>2. SecureTypes /\ EndsInStep /\ StateHanded
      BY Zenon DEF SecureInv
<1>3. SecureTypes'
      BY <1>1, <1>2, Zenon DEF SecureTypes
<1>4. EndsInStep'
      BY <1>1, <1>2, Zenon DEF EndsInStep, Pending, Kept, Rx, Tx, ReaderMade, WriterMade
<1>5. StateHanded'
      BY <1>1, <1>2, Zenon DEF StateHanded, MaySend, Ready, Saved, Kept, ReaderMade, WriterMade
<1> QED
      BY <1>3, <1>4, <1>5, Zenon DEF SecureInv

\* Before the handshake nothing is pending and nothing is handed over.
LEMMA SecureStart == SecureInit => SecureInv
<1> SUFFICES ASSUME SecureInit PROVE SecureInv
      BY Zenon
<1>1. /\ example \in {"noise", "libp2p"} /\ down = {}
      /\ \A s \in Side : /\ pos[s] = 0 /\ stream[s] = <<>> /\ buffer[s] = <<>> /\ noise[s] = Fresh
                         /\ noise_states[s] = None /\ sent[s] = <<>> /\ received[s] = <<>>
      BY Zenon DEF SecureInit
<1>2. SecureTypes
  <2>1. None \in NoiseState /\ Fresh \in NoiseState
        BY DEF None, Fresh, NoiseState, Nonce
  <2>2. \A s \in Side : pos[s] <= Steps(example, s)
        BY <1>1 DEF Steps
  <2> QED
        BY <2>1, <2>2 DEF SecureInit, SecureTypes
<1>3. ASSUME NEW s \in Side
      PROVE  /\ ~Saved(s) /\ ~ReaderMade(s) /\ ~WriterMade(s) /\ 0 < Steps(example, s) - 4
             /\ HasSent(example, s, 0) = 0 /\ HasRead(example, s, 0) = 0
             /\ HasSealed(example, s, 0) = 0 /\ HasOpened(example, s, 0) = 0
  <2>1. /\ ~Saved(s) /\ ~ReaderMade(s) /\ ~WriterMade(s) /\ 0 < Steps(example, s) - 4
        BY <1>1 DEF Saved, ReaderMade, WriterMade, Steps
  <2>2. HasSent(example, s, 0) = 0 /\ HasRead(example, s, 0) = 0
        BY <1>1 DEF HasSent, HasRead, Past, Side
  <2>3. HasSealed(example, s, 0) = 0 /\ HasOpened(example, s, 0) = 0
        BY <1>1 DEF HasSealed, HasOpened, Past
  <2> QED
        BY <2>1, <2>2, <2>3, Zenon
<1>4. ASSUME NEW s \in Side PROVE StateOf(s) /\ Kept(s) = <<>>
  <2>1. Kept(s) = <<>>
        BY <1>1, <1>3 DEF Kept, Fresh
  <2> QED
        BY <1>1, <1>3, <2>1 DEF StateOf, Fresh
<1>5. ASSUME NEW s \in Side PROVE StepOf(s)
  <2> DEFINE t == Other(s)
  <2>1. t \in Side
        BY TwoEnds, Zenon
  <2>2. Pending(s) = <<>>
        BY <1>1, <1>4 DEF Pending
  <2>3. Rx(s) = Nonces(example) /\ Tx(t) = Nonces(example)
        BY <1>3, <2>1, Zenon DEF Rx, Tx
  <2>4. /\ HasSent(example, t, pos[t]) - HasRead(example, s, pos[s]) = 0
        /\ HasRead(example, s, pos[s]) = 0 /\ sent[t] = <<>> /\ received[s] = <<>>
        BY <1>1, <1>3, <2>1
  <2>5. InStep(<<>>, 0, 0, Clears(example, s), Nonces(example), Nonces(example), <<>>, <<>>)
        BY DEF InStep
  <2> QED
        BY <2>2, <2>3, <2>4, <2>5, Zenon DEF StepOf
<1> QED
      BY <1>2, <1>4, <1>5, InvByEnd, Zenon

\* The two ends of a secured connection stay in step, through every step of their
\* handshakes, the handover to the codecs and the messages after it.
THEOREM SecureInductive == SecureSpec => []SecureInv
<1>1. SecureInit => SecureInv
      BY SecureStart, Zenon
<1>2. SecureInv /\ [SecureNext]_secureVars => SecureInv'
  <2> SUFFICES ASSUME SecureInv, [SecureNext]_secureVars PROVE SecureInv'
        BY Zenon
  <2>1. ASSUME NEW s \in Side, Handshaking(s) PROVE SecureInv'
    <3>1. CASE HandshakeSend(s)
          BY <3>1, HandshakeSendKeeps, Zenon
    <3>2. CASE Fill(s)
          BY <3>2, FillKeeps, ZenonT(30)
    <3>3. CASE HandshakeRecv(s)
          BY <3>3, HandshakeRecvKeeps, Zenon
    <3>4. CASE IntoParts(s)
          BY <3>4, IntoPartsKeeps, Zenon
    <3>5. CASE SaveState(s)
          BY <3>5, SaveStateKeeps, Zenon
    <3>6. CASE MakeCodec(s)
          BY <3>6, MakeCodecKeeps, Zenon
    <3>7. CASE RegisterConn(s)
          BY <3>7, RegisterConnKeeps, Zenon
    <3> QED
          BY <2>1, <3>1, <3>2, <3>3, <3>4, <3>5, <3>6, <3>7, Zenon DEF Handshaking
  <2>2. ASSUME NEW s \in Side, Receiving(s) PROVE SecureInv'
    <3>1. CASE Read(s)
          BY <3>1, ReadKeeps, Zenon
    <3>2. CASE Decode(s)
          BY <3>2, DecodeKeeps, Zenon
    <3> QED
          BY <2>2, <3>1, <3>2, Zenon DEF Receiving
  <2>3. ASSUME NEW s \in Side, NEW len \in Sizes, Write(s, len) \/ WriteFails(s, len)
        PROVE  SecureInv'
    <3>1. CASE Write(s, len)
          BY <3>1, WriteKeeps, Zenon
    <3>2. CASE WriteFails(s, len)
          BY <3>2, WriteFailsKeeps, Zenon
    <3> QED
          BY <2>3, <3>1, <3>2, Zenon
  <2>4. CASE UNCHANGED secureVars
        BY <2>4, SecureStutter, Zenon
  <2> QED
        BY <2>1, <2>2, <2>3, <2>4, Zenon DEF SecureNext
<1> QED
      BY <1>1, <1>2, PTL DEF SecureSpec

\* What an end finds first in its buffer, if it is in step, is what it expects.
LEMMA ExpectedNext ==
    ASSUME SecureInv, NEW s \in Side, buffer[s] # <<>>
    PROVE  /\ At(s, {"recv"}) => Head(buffer[s]) = Clear
           /\ At(s, {"open"}) => Head(buffer[s]).nonce = noise[s].rx
           /\ Ready(s) => Head(buffer[s]).nonce = reader[s].rx
<1> DEFINE t == Other(s)
           p == pos[s]
           w == Table(example, s)[p + 1]
           r == HasRead(example, s, p)
           h == HasSent(example, t, pos[t]) - r
           c == Clears(example, s)
<1>0. SecureTypes /\ StepOf(s) /\ StateOf(s) /\ t \in Side
      BY InvByEnd, TwoEnds, Zenon
<1>1. /\ example \in {"noise", "libp2p"} /\ p \in Nat /\ pos[t] \in Nat
      /\ stream[s] \in Seq(Item) /\ buffer[s] \in Seq(Item) /\ Len(Pending(s)) \in Nat
      BY <1>0, EndTypes, Zenon
<1>2. Pending(s) = (<<>> \o buffer[s]) \o stream[s]
      BY <1>0, Zenon DEF StateOf, Pending
<1>3. Len(Pending(s)) >= 1 /\ Pending(s)[1] = Head(buffer[s])
      BY <1>1, <1>2, PendingTaken, Zenon
<1>4. /\ \A j \in 1..h : Pending(s)[j] = Handshake(r + j, c)
      /\ Len(Pending(s)) > h => Pending(s)[h + 1].nonce = Rx(s)
      BY <1>0, Zenon DEF StepOf, InStep
<1>5. /\ HasSent(example, t, pos[t]) \in Nat /\ r \in Nat /\ c \in Nat /\ Steps(example, s) \in Nat
      /\ HasOpened(example, s, p) \in Nat
      BY <1>0, <1>1, CountTypes, Zenon
<1>6. ASSUME At(s, {"recv", "open"}) PROVE Head(buffer[s]) = Handshake(r + 1, c)
  <2>1. h >= 1
        BY <1>3, <1>6, ReadsHandshake, Zenon
  <2>2. h \in Int
        BY <1>5
  <2> HIDE DEF h, r, c
  <2>3. 1 \in 1..h
        BY <2>1, <2>2
  <2> QED
        BY <1>3, <1>4, <2>3, Zenon
<1>7. ASSUME At(s, {"recv"}) PROVE Head(buffer[s]) = Clear
  <2>1. p < Steps(example, s) /\ w = "recv" /\ At(s, {"recv", "open"})
        BY <1>0, <1>7, AtStep, Zenon
  <2>2. r < c
        BY <1>1, <2>1, StepKinds, Zenon DEF Kinds
  <2>3. r + 1 <= c
        BY <1>5, <2>2
  <2> QED
        BY <1>6, <2>1, <2>3, Zenon DEF Handshake
<1>8. ASSUME At(s, {"open"}) PROVE Head(buffer[s]).nonce = noise[s].rx
  <2>1. p < Steps(example, s) /\ w = "open" /\ At(s, {"recv", "open"})
        BY <1>0, <1>8, AtStep
  <2>2. r = c + HasOpened(example, s, p)
        BY <1>1, <2>1, StepKinds, Zenon DEF Kinds
  <2>3. ~(r + 1 <= c) /\ (r + 1) - c - 1 = HasOpened(example, s, p)
        BY <1>5, <2>2
  <2>4. noise[s].rx = HasOpened(example, s, p)
        BY <1>0, Zenon DEF StateOf
  <2>5. Handshake(r + 1, c) = Sealed((r + 1) - c - 1, 0)
    <3>1. \A j, k : ~(j <= k) => Handshake(j, k) = Sealed(j - k - 1, 0)
          BY Zenon DEF Handshake
    <3> QED
          BY <2>3, <3>1, Zenon
  <2> QED
        BY <1>6, <2>1, <2>3, <2>4, <2>5 DEF Sealed
<1>9. ASSUME Ready(s) PROVE Head(buffer[s]).nonce = reader[s].rx
  <2>1. p = Steps(example, s)
        BY <1>0, <1>9, ReadyAtEnd, Zenon
  <2>2. h = 0
        BY <1>5, <2>1, AllRead
  <2>3. Rx(s) = reader[s].rx
        BY <1>5, <2>1 DEF Rx, ReaderMade
  <2> HIDE DEF h
  <2>4. Pending(s)[1].nonce = Rx(s)
        BY <1>1, <1>3, <1>4, <2>2
  <2> QED
        BY <1>3, <2>3, <2>4, Zenon
<1> QED
      BY <1>7, <1>8, <1>9, Zenon

\* Messages are received whole and in order, and the codecs find the state left for them.
LEMMA ReceivedInOrder ==
    ASSUME SecureInv, NEW s \in Side
    PROVE  /\ Len(received[s]) <= Len(sent[Other(s)])
           /\ received[s] = SubSeq(sent[Other(s)], 1, Len(received[s]))
           /\ At(s, {"reading", "writing"}) => noise_states[s] # None
           /\ Ready(s) => noise_states[s] = None
<1> DEFINE t == Other(s)
           n == Len(received[s])
<1>0. SecureTypes /\ StepOf(s) /\ StateOf(s) /\ t \in Side
      BY InvByEnd, TwoEnds, Zenon
<1>1. /\ example \in {"noise", "libp2p"} /\ pos[s] \in Nat /\ pos[t] \in Nat
      /\ Len(Pending(s)) \in Nat /\ n \in Nat /\ received[s] \in Seq(Nat) /\ sent[t] \in Seq(Sizes)
      BY <1>0, EndTypes, Zenon
<1>2. /\ HasSent(example, t, pos[t]) \in Nat /\ HasRead(example, s, pos[s]) \in Nat
      /\ Steps(example, s) \in Nat /\ HasSealed(example, s, pos[s]) \in Nat
      BY <1>0, <1>1, CountTypes, Zenon
<1>3. n <= Len(sent[t]) /\ \A i \in 1..n : received[s][i] = sent[t][i]
  <2> DEFINE h == HasSent(example, t, pos[t]) - HasRead(example, s, pos[s])
  <2>1. /\ h >= 0 /\ Len(Pending(s)) >= h /\ Len(sent[t]) = n + (Len(Pending(s)) - h)
        /\ \A i \in 1..n : received[s][i] = sent[t][i]
        BY <1>0, Zenon DEF StepOf, InStep
  <2>2. h \in Int
        BY <1>2
  <2> HIDE DEF h, n
  <2>3. Len(Pending(s)) - h >= 0 /\ Len(Pending(s)) - h \in Int
        BY <1>1, <2>1, <2>2
  <2> QED
        BY <1>1, <2>1, <2>3
<1>4. received[s] = SubSeq(sent[t], 1, n)
  <2>1. Len(sent[t]) \in Nat /\ sent[t] \in Seq(Nat)
    <3>1. Sizes \subseteq Nat
          BY Zenon
    <3> QED
          BY <1>1, <3>1, SeqMonotonic, LenProperties, Zenon
  <2>2. \A i \in 1..n : sent[t][i] \in Nat
    <3>1. \A i \in 1..n : i \in 1..Len(sent[t])
          BY <1>1, <1>3, <2>1
    <3> QED
          BY <2>1, <3>1, ElementOfSeq, Zenon
  <2>3. 1 \in Int /\ n \in Int /\ n - 1 + 1 = n /\ (1 <= n + 1)
        BY <1>1
  <2>4. /\ SubSeq(sent[t], 1, n) \in Seq(Nat)
        /\ Len(SubSeq(sent[t], 1, n)) = n
        /\ \A i \in 1..n : SubSeq(sent[t], 1, n)[i] = sent[t][i]
        BY <1>1, <2>2, <2>3, SubSeqProperties
  <2> QED
        BY <1>1, <1>3, <2>4, SeqEqual
<1>5. ASSUME At(s, {"reading", "writing"}) PROVE noise_states[s] # None
  <2> DEFINE w == Table(example, s)[pos[s] + 1]
  <2>1. pos[s] < Steps(example, s) /\ w \in {"reading", "writing"}
        BY <1>0, <1>5, AtStep, Zenon
  <2>2. pos[s] = Steps(example, s) - 3 \/ pos[s] = Steps(example, s) - 2
        BY <1>1, <2>1, StepPlaces DEF Places
  <2>3. Saved(s) /\ ~WriterMade(s)
        BY <1>1, <1>2, <2>2 DEF Saved, WriterMade
  <2>4. noise_states[s] = noise[s] /\ noise[s].tx = HasSealed(example, s, pos[s])
        BY <1>0, <2>3, Zenon DEF StateOf
  <2>5. noise[s].tx # -1
        BY <1>2, <2>4
  <2> QED
        BY <2>4, <2>5 DEF None
<1>6. ASSUME Ready(s) PROVE noise_states[s] = None
  <2>1. pos[s] = Steps(example, s)
        BY <1>0, <1>6, ReadyAtEnd, Zenon
  <2>2. WriterMade(s)
        BY <1>2, <2>1 DEF WriterMade
  <2> QED
        BY <1>0, <2>2, Zenon DEF StateOf
<1> QED
      BY <1>3, <1>4, <1>5, <1>6, Zenon

\* The next message an end decrypts is the one it expects, in the handshake and after it,
\* wherever its reads end; messages arrive whole and in order; and each codec finds the state
\* its handshake left for it.
THEOREM SecureNeverGarbled == SecureSpec => []NeverGarbled
<1>1. SecureInv => NeverGarbled
      BY ExpectedNext, ReceivedInOrder, Zenon DEF NeverGarbled
<1> QED
      BY <1>1, SecureInductive, PTL

\* Types, with the lengths of the scripts and the bounds of the nonces.
THEOREM SecureTyped == SecureSpec => []SecureTypeOK
<1>1. SecureInv => SecureTypeOK
  <2> SUFFICES ASSUME SecureInv PROVE SecureTypeOK
        BY Zenon
  <2>0. SecureTypes
        BY Zenon DEF SecureInv
  <2>1. ASSUME NEW s \in Side PROVE pos[s] \in 0..Len(Script(example, s))
    <3>1. /\ example \in {"noise", "libp2p"} /\ pos[s] \in Nat /\ pos[s] <= Steps(example, s)
          /\ Steps(example, s) \in Nat
          BY <2>0, EndTypes, CountTypes, Zenon
    <3> QED
          BY <3>1, ScriptTable
  <2>2. ASSUME NEW s \in Side, NEW st \in {noise, noise_states, reader, writer}
        PROVE  st[s].rx >= -1 /\ st[s].tx >= -1
    <3>1. st[s] \in NoiseState
          BY <2>0, EndTypes, Zenon
    <3>2. st[s].rx \in Nonce /\ st[s].tx \in Nonce
          BY <3>1, Zenon DEF NoiseState
    <3> QED
          BY <3>2 DEF Nonce
  <2>3. ASSUME NEW s \in Side PROVE \A i \in DOMAIN sent[s] : sent[s][i] \in Sizes
    <3>1. sent[s] \in Seq(Sizes)
          BY <2>0, EndTypes, Zenon
    <3> QED
          BY <3>1, LenProperties, ElementOfSeq, Zenon
  <2>4. down \subseteq Side
        BY <2>0, Zenon DEF SecureTypes
  <2> QED
        BY <2>1, <2>2, <2>3, <2>4, Zenon DEF SecureTypeOK
<1> QED
      BY <1>1, SecureInductive, PTL

=============================================================================
