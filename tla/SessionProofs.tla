---------------------------- MODULE SessionProofs ----------------------------
(* Theorems about the libp2p example's yamux streams, for any set of streams,  *)
(* number of pings and frames in flight: the two ends agree on the streams.    *)
EXTENDS Yamux, SequenceTheorems, TLAPS

\* A leaf that needs no arithmetic cites Zenon. The others are given to SMT, with
\* time for the longer ones, and then to Zenon.
USE SMTT(30), Zenon

USE YamuxAssumption

-----------------------------------------------------------------------------
(* Yamux: flags and frames. *)

\* The flags sent are the flags read.
LEMMA FlagValues ==
    /\ encode_flags({}) = 0 /\ encode_flags({"Syn"}) = 1 /\ encode_flags({"Ack"}) = 2
    /\ encode_flags({"Fin"}) = 4 /\ encode_flags({"Rst"}) = 8
    /\ decode_flags(0) = {} /\ decode_flags(1) = {"Syn"} /\ decode_flags(2) = {"Ack"}
    /\ decode_flags(4) = {"Fin"} /\ decode_flags(8) = {"Rst"}
<1>1. /\ encode_flags({}) = 0 /\ encode_flags({"Syn"}) = 1 /\ encode_flags({"Ack"}) = 2
      /\ encode_flags({"Fin"}) = 4 /\ encode_flags({"Rst"}) = 8
      BY DEF encode_flags, Bit
<1>2. DOMAIN Bit = {"Syn", "Ack", "Fin", "Rst"}
      BY Zenon DEF Bit
<1>3. Bit["Syn"] = 1 /\ Bit["Ack"] = 2 /\ Bit["Fin"] = 4 /\ Bit["Rst"] = 8
      BY Zenon DEF Bit
<1>4. decode_flags(0) = {}
      BY <1>2, <1>3 DEF decode_flags
<1>5. decode_flags(1) = {"Syn"}
      BY <1>2, <1>3 DEF decode_flags
<1>6. decode_flags(2) = {"Ack"}
      BY <1>2, <1>3 DEF decode_flags
<1>7. decode_flags(4) = {"Fin"}
      BY <1>2, <1>3 DEF decode_flags
<1>8. decode_flags(8) = {"Rst"}
      BY <1>2, <1>3 DEF decode_flags
<1> QED
      BY <1>1, <1>4, <1>5, <1>6, <1>7, <1>8, Zenon

\* The fields of a frame.
LEMMA FrameFields ==
    /\ \A id, flags, payload :
        /\ Data(id, flags, payload).ty = "Data" /\ Data(id, flags, payload).stream_id = id
        /\ Data(id, flags, payload).flags = encode_flags(flags)
        /\ Data(id, flags, payload).payload = payload
    /\ \A flags, opaque :
        /\ SessionPing(flags, opaque).ty = "Ping" /\ SessionPing(flags, opaque).stream_id = 0
        /\ SessionPing(flags, opaque).flags = encode_flags(flags)
        /\ SessionPing(flags, opaque).length = opaque
    /\ \A id :
        /\ WindowUpdate(id).ty = "WindowUpdate" /\ WindowUpdate(id).stream_id = id
        /\ WindowUpdate(id).flags = encode_flags({}) /\ WindowUpdate(id).payload = "empty"
BY Zenon DEF Data, SessionPing, WindowUpdate

\* What the swarm may say.
LEMMA RequestCases ==
    ASSUME NEW f \in RequestFrame
    PROVE  \/ /\ f.ty = "Data" /\ f.stream_id \in StreamId
              /\ \/ f.flags = 1 /\ f.payload \in Protocols
                 \/ f.flags = 0 /\ f.payload = "payload"
                 \/ f.flags \in {4, 8} /\ f.payload = "empty"
           \/ f.ty = "WindowUpdate" /\ f.stream_id \in StreamId /\ f.flags = 0 /\ f.payload = "empty"
           \/ f.ty = "Ping" /\ f.stream_id = 0 /\ f.flags = 1 /\ f.length \in Opaque
<1>1. CASE \E id \in StreamId, protocol \in Protocols : f = Data(id, {"Syn"}, protocol)
      BY <1>1, FlagValues, FrameFields
<1>2. CASE \E id \in StreamId : f = Data(id, {}, "payload")
      BY <1>2, FlagValues, FrameFields
<1>3. CASE \E id \in StreamId, flag \in {"Fin", "Rst"} : f = Data(id, {flag}, "empty")
  <2>1. \E id \in StreamId : f = Data(id, {"Fin"}, "empty") \/ f = Data(id, {"Rst"}, "empty")
        BY <1>3, Zenon
  <2> QED
        BY <2>1, FlagValues, FrameFields
<1>4. CASE \E opaque \in Opaque : f = SessionPing({"Syn"}, opaque)
      BY <1>4, FlagValues, FrameFields
<1>5. CASE \E id \in StreamId : f = WindowUpdate(id)
      BY <1>5, FlagValues, FrameFields
<1> QED
      BY <1>1, <1>2, <1>3, <1>4, <1>5 DEF RequestFrame

\* What the node may say.
LEMMA ReplyCases ==
    ASSUME NEW f \in ReplyFrame
    PROVE  \/ /\ f.ty = "Data" /\ f.stream_id \in StreamId
              /\ \/ f.flags = 2 /\ f.payload \in Protocols
                 \/ f.flags = 0 /\ f.payload \in {"payload", "empty"}
                 \/ f.flags = 4 /\ f.payload = "empty"
           \/ f.ty = "Ping" /\ f.stream_id = 0 /\ f.flags = 2 /\ f.length \in Opaque
<1>1. CASE \E id \in StreamId, protocol \in Protocols : f = Data(id, {"Ack"}, protocol)
      BY <1>1, FlagValues, FrameFields
<1>2. CASE \E id \in StreamId, payload \in {"payload", "empty"} : f = Data(id, {}, payload)
      BY <1>2, FlagValues, FrameFields
<1>3. CASE \E id \in StreamId : f = Data(id, {"Fin"}, "empty")
      BY <1>3, FlagValues, FrameFields
<1>4. CASE \E opaque \in Opaque : f = SessionPing({"Ack"}, opaque)
      BY <1>4, FlagValues, FrameFields
<1> QED
      BY <1>1, <1>2, <1>3, <1>4 DEF ReplyFrame

-----------------------------------------------------------------------------
(* Yamux: the list of the pings and answers in flight. *)

\* What a list says, with the numbers typed.
Listed(g, fs, k, id, m, n) ==
    /\ m \in Nat /\ m <= n
    /\ \A x \in 1..n : g[x] \in Nat /\ g[x] \in 1..Len(fs) /\ Asks(fs[g[x]], id)
    /\ \A x \in 1..n : g[x] <= k <=> x <= m
    /\ \A x \in 1..n, y \in 1..n : x < y => g[x] < g[y]
    /\ \A i \in 1..Len(fs) : Asks(fs[i], id) => \E x \in 1..n : g[x] = i

\* Its numbers are numbers.
LEMMA ListsMeaning ==
    ASSUME NEW fs, NEW g, NEW k, NEW id, NEW m, NEW n \in Nat, Lists(g, fs, k, id, m, n),
           Len(fs) \in Nat
    PROVE  Listed(g, fs, k, id, m, n)
BY DEF Lists, Listed

\* The frame behind the first k is the next of the list, if it is on it.
NextListed(g, fs, k, id, m, n) ==
    Asks(fs[k + 1], id) => m + 1 \in 1..n /\ g[m + 1] = k + 1

\* A list that holds a ping or an answer behind the first k holds it there.
LEMMA ListsNext ==
    ASSUME NEW fs, NEW g, NEW k \in Nat, NEW id, NEW m, NEW n \in Nat,
           Lists(g, fs, k, id, m, n), Len(fs) \in Nat, k < Len(fs)
    PROVE  NextListed(g, fs, k, id, m, n)
<1> SUFFICES ASSUME Asks(fs[k + 1], id)
             PROVE  m + 1 \in 1..n /\ g[m + 1] = k + 1
    BY Zenon DEF NextListed
<1>0. Listed(g, fs, k, id, m, n)
      BY ListsMeaning, Zenon
<1>1. /\ m \in Nat /\ m <= n
      /\ \A x \in 1..n : g[x] \in Nat /\ (g[x] <= k <=> x <= m)
      /\ \A x \in 1..n, y \in 1..n : x < y => g[x] < g[y]
      BY <1>0, Zenon DEF Listed
<1>2. PICK x \in 1..n : g[x] = k + 1
      BY <1>0 DEF Listed
<1>3. x > m
      BY <1>1, <1>2
<1>4. m + 1 \in 1..n
      BY <1>1, <1>3
<1>5. ~(m + 1 < x)
  <2>1. ~(g[m + 1] <= k) /\ g[m + 1] \in Nat
        BY <1>1, <1>4
  <2>2. m + 1 < x => g[m + 1] < g[x]
        BY <1>1, <1>4, Zenon
  <2> QED
        BY <1>2, <2>1, <2>2
<1>6. x = m + 1
      BY <1>1, <1>3, <1>5
<1> QED
      BY <1>2, <1>4, <1>6, Zenon

\* A frame is sent.
LEMMA ListsAppend ==
    ASSUME NEW fs, NEW es, NEW g, NEW k \in Nat, NEW id, NEW m, NEW n \in Nat,
           Lists(g, fs, k, id, m, n), Len(fs) \in Nat, k <= Len(fs),
           Len(es) = Len(fs) + 1, \A i \in 1..Len(fs) : es[i] = fs[i]
    PROVE  /\ ~Asks(es[Len(es)], id) => Lists(g, es, k, id, m, n)
           /\ Asks(es[Len(es)], id) =>
                Lists([x \in 1..(n + 1) |-> IF x <= n THEN g[x] ELSE Len(es)], es, k, id, m, n + 1)
<1>0. Listed(g, fs, k, id, m, n)
      BY ListsMeaning, Zenon
<1>1. /\ m \in Nat /\ m <= n
      /\ \A x \in 1..n : g[x] \in Nat /\ g[x] \in 1..Len(fs) /\ Asks(es[g[x]], id)
      /\ \A x \in 1..n : g[x] <= k <=> x <= m
      /\ \A x \in 1..n, y \in 1..n : x < y => g[x] < g[y]
      /\ \A i \in 1..Len(fs) : Asks(es[i], id) => \E x \in 1..n : g[x] = i
      BY <1>0, Zenon DEF Listed
<1>2. ASSUME ~Asks(es[Len(es)], id)
      PROVE  Lists(g, es, k, id, m, n)
  <2>1. g \in [1..n -> 1..Len(es)]
        BY DEF Lists
  <2>2. \A i \in 1..Len(es) : Asks(es[i], id) => \E x \in 1..n : g[x] = i
    <3>1. \A i \in 1..Len(es) : i \in 1..Len(fs) \/ i = Len(es)
          OBVIOUS
    <3> QED
          BY <1>1, <1>2, <3>1, Zenon
  <2> QED
        BY <1>1, <2>1, <2>2, Zenon DEF Lists
<1>3. ASSUME Asks(es[Len(es)], id)
      PROVE  Lists([x \in 1..(n + 1) |-> IF x <= n THEN g[x] ELSE Len(es)], es, k, id, m, n + 1)
  <2> DEFINE h == [x \in 1..(n + 1) |-> IF x <= n THEN g[x] ELSE Len(es)]
  <2>1. (\A x \in 1..n : h[x] = g[x]) /\ h[n + 1] = Len(es)
        OBVIOUS
  <2>2. h \in [1..(n + 1) -> 1..Len(es)]
        BY <1>1
  <2> HIDE DEF h
  <2>3. \A x \in 1..(n + 1) : x \in 1..n \/ x = n + 1
        OBVIOUS
  <2>4. \A x \in 1..(n + 1) : Asks(es[h[x]], id)
        BY <1>1, <1>3, <2>1, <2>3, Zenon
  <2>5. ASSUME NEW x \in 1..(n + 1) PROVE h[x] <= k <=> x <= m
    <3>1. CASE x \in 1..n
          BY <1>1, <2>1, <3>1, Zenon
    <3>2. CASE x = n + 1
          BY <1>1, <2>1, <3>2
    <3> QED
          BY <2>3, <3>1, <3>2, Zenon
  <2>6. ASSUME NEW x \in 1..(n + 1), NEW y \in 1..(n + 1), x < y PROVE h[x] < h[y]
    <3>1. x \in 1..n
          BY <2>6
    <3>2. CASE y \in 1..n
          BY <1>1, <2>1, <2>6, <3>1, <3>2, Zenon
    <3>3. CASE y = n + 1
          BY <1>1, <2>1, <3>1, <3>3
    <3> QED
          BY <2>3, <3>2, <3>3, Zenon
  <2>7. \A i \in 1..Len(es) : Asks(es[i], id) => \E x \in 1..(n + 1) : h[x] = i
    <3>1. \A i \in 1..Len(es) : i \in 1..Len(fs) \/ i = Len(es)
          OBVIOUS
    <3>2. n + 1 \in 1..(n + 1) /\ \A x \in 1..n : x \in 1..(n + 1)
          OBVIOUS
    <3> QED
          BY <1>1, <2>1, <3>1, <3>2, Zenon
  <2> QED
        BY <1>1, <2>2, <2>4, <2>5, <2>6, <2>7 DEF Lists, h
<1> QED
      BY <1>2, <1>3, Zenon

\* The first frame is taken.
LEMMA ListsTail ==
    ASSUME NEW fs, NEW es, NEW g, NEW k \in Nat, NEW id, NEW m, NEW n \in Nat,
           Lists(g, fs, k, id, m, n), Len(fs) \in Nat, k >= 1, k <= Len(fs),
           Len(es) = Len(fs) - 1, \A i \in 1..Len(es) : es[i] = fs[i + 1]
    PROVE  /\ ~Asks(fs[1], id) => Lists([x \in 1..n |-> g[x] - 1], es, k - 1, id, m, n)
           /\ Asks(fs[1], id) =>
                /\ n >= 1 /\ g[1] = 1
                /\ Lists([x \in 1..(n - 1) |-> g[x + 1] - 1], es, k - 1, id, m - 1, n - 1)
<1>0. Listed(g, fs, k, id, m, n)
      BY ListsMeaning, Zenon
<1>1. /\ m \in Nat /\ m <= n
      /\ \A x \in 1..n : g[x] \in Nat /\ g[x] \in 1..Len(fs) /\ Asks(fs[g[x]], id)
      /\ \A x \in 1..n : g[x] <= k <=> x <= m
      /\ \A x \in 1..n, y \in 1..n : x < y => g[x] < g[y]
      /\ \A i \in 1..Len(fs) : Asks(fs[i], id) => \E x \in 1..n : g[x] = i
      BY <1>0, Zenon DEF Listed
<1>2. ASSUME ~Asks(fs[1], id)
      PROVE  Lists([x \in 1..n |-> g[x] - 1], es, k - 1, id, m, n)
  <2> DEFINE h == [x \in 1..n |-> g[x] - 1]
  <2>1. \A x \in 1..n : g[x] # 1 /\ g[x] \in 2..Len(fs)
        BY <1>1, <1>2
  <2>2. \A x \in 1..n : h[x] = g[x] - 1 /\ h[x] \in 1..Len(es) /\ h[x] + 1 = g[x]
        BY <2>1
  <2>3. h \in [1..n -> 1..Len(es)]
        BY <2>1
  <2> HIDE DEF h
  <2>4. \A x \in 1..n : Asks(es[h[x]], id)
        BY <1>1, <2>2, Zenon
  <2>5. ASSUME NEW x \in 1..n PROVE h[x] <= k - 1 <=> x <= m
    <3>1. (g[x] <= k <=> x <= m) /\ g[x] \in Nat /\ h[x] = g[x] - 1
          BY <1>1, <2>2, Zenon
    <3> QED
          BY <3>1
  <2>6. \A x, y \in 1..n : x < y => h[x] < h[y]
        BY <1>1, <2>2
  <2>7. ASSUME NEW i \in 1..Len(es), Asks(es[i], id)
        PROVE  \E x \in 1..n : h[x] = i
    <3>1. i + 1 \in 1..Len(fs) /\ Asks(fs[i + 1], id)
          BY <2>7
    <3>2. PICK x \in 1..n : g[x] = i + 1
          BY <1>1, <3>1, Zenon
    <3>3. h[x] = i
          BY <2>2, <3>2
    <3> QED
          BY <3>3, Zenon
  <2> QED
        BY <1>1, <2>3, <2>4, <2>5, <2>6, <2>7, Zenon DEF Lists, h
<1>3. ASSUME Asks(fs[1], id)
      PROVE  /\ n >= 1 /\ g[1] = 1
             /\ Lists([x \in 1..(n - 1) |-> g[x + 1] - 1], es, k - 1, id, m - 1, n - 1)
  <2> DEFINE h == [x \in 1..(n - 1) |-> g[x + 1] - 1]
  <2>1. PICK z \in 1..n : g[z] = 1
        BY <1>1, <1>3
  <2>2. ~(1 < z) /\ 1 \in 1..n
    <3>1. 1 < z => g[1] < g[z]
          BY <1>1
    <3>2. 1 \in 1..n /\ g[1] \in 1..Len(fs)
          BY <1>1
    <3> QED
          BY <2>1, <3>1, <3>2
  <2>3. n >= 1 /\ g[1] = 1 /\ z = 1
        BY <2>1, <2>2
  <2>4. m >= 1
        BY <1>1, <2>2, <2>3, Zenon
  <2>5. \A x \in 1..(n - 1) : x + 1 \in 1..n /\ 1 < x + 1
        BY <2>3
  <2>6. \A x \in 1..(n - 1) : g[x + 1] > 1 /\ g[x + 1] \in 1..Len(fs)
        BY <1>1, <2>2, <2>3, <2>5, Zenon
  <2>7. \A x \in 1..(n - 1) : h[x] = g[x + 1] - 1 /\ h[x] \in 1..Len(es) /\ h[x] + 1 = g[x + 1]
        BY <2>6
  <2>8. h \in [1..(n - 1) -> 1..Len(es)]
        BY <2>6
  <2> HIDE DEF h
  <2>9. ASSUME NEW x \in 1..(n - 1) PROVE Asks(es[h[x]], id)
    <3>1. es[h[x]] = fs[g[x + 1]]
          BY <2>7, Zenon
    <3> QED
          BY <1>1, <2>5, <3>1, Zenon
  <2>10. ASSUME NEW x \in 1..(n - 1) PROVE h[x] <= k - 1 <=> x <= m - 1
    <3>1. (g[x + 1] <= k <=> x + 1 <= m) /\ g[x + 1] \in Nat
          BY <1>1, <2>5, Zenon
    <3>2. h[x] = g[x + 1] - 1 /\ m \in Nat
          BY <1>1, <2>7, Zenon
    <3> QED
          BY <3>1, <3>2
  <2>11. ASSUME NEW x \in 1..(n - 1), NEW y \in 1..(n - 1), x < y PROVE h[x] < h[y]
    <3>1. x + 1 \in 1..n /\ y + 1 \in 1..n /\ x + 1 < y + 1
          BY <2>5, <2>11
    <3>2. g[x + 1] < g[y + 1] /\ g[x + 1] \in Nat /\ g[y + 1] \in Nat
          BY <1>1, <3>1, Zenon
    <3>3. h[x] = g[x + 1] - 1 /\ h[y] = g[y + 1] - 1
          BY <2>7, Zenon
    <3> QED
          BY <3>2, <3>3
  <2>12. ASSUME NEW i \in 1..Len(es), Asks(es[i], id)
         PROVE  \E x \in 1..(n - 1) : h[x] = i
    <3>1. i + 1 \in 1..Len(fs) /\ Asks(fs[i + 1], id)
          BY <2>12
    <3>2. PICK x \in 1..n : g[x] = i + 1
          BY <1>1, <3>1, Zenon
    <3>3. x # 1
          BY <2>3, <3>2
    <3>4. x - 1 \in 1..(n - 1) /\ (x - 1) + 1 = x
          BY <3>3
    <3>5. h[x - 1] = i
          BY <2>7, <3>2, <3>4
    <3> QED
          BY <3>4, <3>5, Zenon
  <2>13. n - 1 \in Nat /\ m - 1 \in 0..(n - 1)
         BY <1>1, <2>3, <2>4
  <2> QED
        BY <2>3, <2>8, <2>9, <2>10, <2>11, <2>12, <2>13, Zenon DEF Lists, h
<1> QED
      BY <1>2, <1>3, Zenon

\* A request is answered: the answer takes its place.
LEMMA ListsReplace ==
    ASSUME NEW fs, NEW es, NEW g, NEW k \in Nat, NEW id, NEW m, NEW n \in Nat,
           Lists(g, fs, k, id, m, n), Len(fs) \in Nat, k < Len(fs), Len(es) = Len(fs),
           \A i \in 1..Len(fs) : i # k + 1 => es[i] = fs[i],
           Asks(es[k + 1], id) <=> Asks(fs[k + 1], id)
    PROVE  \E l \in 0..n : Lists(g, es, k + 1, id, l, n)
<1>0. Listed(g, fs, k, id, m, n)
      BY ListsMeaning, Zenon
<1>1. /\ m \in Nat /\ m <= n
      /\ \A x \in 1..n : g[x] \in Nat /\ g[x] \in 1..Len(fs) /\ Asks(fs[g[x]], id)
      /\ \A x \in 1..n : g[x] <= k <=> x <= m
      /\ \A x \in 1..n, y \in 1..n : x < y => g[x] < g[y]
      /\ \A i \in 1..Len(fs) : Asks(fs[i], id) => \E x \in 1..n : g[x] = i
      BY <1>0, Zenon DEF Listed
<1>2. \A i \in 1..Len(fs) : Asks(es[i], id) <=> Asks(fs[i], id)
      BY Zenon
<1>3. /\ \A x \in 1..n : Asks(es[g[x]], id)
      /\ \A i \in 1..Len(es) : Asks(es[i], id) => \E x \in 1..n : g[x] = i
      BY <1>1, <1>2, Zenon
<1>4. g \in [1..n -> 1..Len(es)]
      BY Zenon DEF Lists
<1>5. ASSUME Asks(fs[k + 1], id)
      PROVE  \E l \in 0..n : Lists(g, es, k + 1, id, l, n)
  <2>1. m + 1 \in 1..n /\ g[m + 1] = k + 1
    <3>1. NextListed(g, fs, k, id, m, n)
          BY ListsNext, Zenon
    <3> QED
          BY <1>5, <3>1, Zenon DEF NextListed
  <2>2. ASSUME NEW x \in 1..n PROVE g[x] <= k + 1 <=> x <= m + 1
    <3>1. CASE x < m + 1
          BY <1>1, <2>1, <3>1
    <3>2. CASE x = m + 1
          BY <1>1, <2>1, <3>2
    <3>3. CASE x > m + 1
          BY <1>1, <2>1, <3>3
    <3> QED
          BY <1>1, <3>1, <3>2, <3>3
  <2>3. Lists(g, es, k + 1, id, m + 1, n)
        BY <1>1, <1>3, <1>4, <2>1, <2>2 DEF Lists
  <2> QED
        BY <2>1, <2>3
<1>6. ASSUME ~Asks(fs[k + 1], id)
      PROVE  \E l \in 0..n : Lists(g, es, k + 1, id, l, n)
  <2>1. \A x \in 1..n : g[x] # k + 1
        BY <1>1, <1>6, Zenon
  <2>2. \A x \in 1..n : g[x] <= k + 1 <=> x <= m
        BY <1>1, <2>1
  <2>3. Lists(g, es, k + 1, id, m, n)
        BY <1>1, <1>3, <1>4, <2>2, Zenon DEF Lists
  <2> QED
        BY <1>1, <2>3
<1> QED
      BY <1>5, <1>6, Zenon

\* The last of the first k is counted with those behind them.
LEMMA ListsSplit ==
    ASSUME NEW fs, NEW g, NEW k \in Nat, k >= 1, NEW id, NEW m, NEW n \in Nat,
           Lists(g, fs, k, id, m, n), Len(fs) \in Nat
    PROVE  \E l \in 0..n : Lists(g, fs, k - 1, id, l, n)
<1>0. Listed(g, fs, k, id, m, n)
      BY ListsMeaning, Zenon
<1>1. /\ m \in Nat /\ m <= n
      /\ \A x \in 1..n : g[x] \in Nat /\ g[x] \in 1..Len(fs) /\ Asks(fs[g[x]], id)
      /\ \A x \in 1..n : g[x] <= k <=> x <= m
      /\ \A x \in 1..n, y \in 1..n : x < y => g[x] < g[y]
      /\ \A i \in 1..Len(fs) : Asks(fs[i], id) => \E x \in 1..n : g[x] = i
      BY <1>0, Zenon DEF Listed
<1>2. g \in [1..n -> 1..Len(fs)]
      BY Zenon DEF Lists
<1>3. ASSUME NEW l \in 0..n, \A x \in 1..n : g[x] <= k - 1 <=> x <= l
      PROVE  Lists(g, fs, k - 1, id, l, n)
      BY <1>1, <1>2, <1>3, Zenon DEF Lists
<1>4. CASE m \in 1..n /\ g[m] = k
  <2>1. ASSUME NEW x \in 1..n PROVE g[x] <= k - 1 <=> x <= m - 1
    <3>1. CASE x < m
          BY <1>1, <1>4, <3>1
    <3>2. CASE x = m
          BY <1>1, <1>4, <3>2
    <3>3. CASE x > m
          BY <1>1, <1>4, <3>3
    <3> QED
          BY <1>1, <3>1, <3>2, <3>3
  <2>2. m - 1 \in 0..n
        BY <1>4
  <2> QED
        BY <1>3, <2>1, <2>2, Zenon
<1>5. CASE ~(m \in 1..n /\ g[m] = k)
  <2>1. ASSUME NEW x \in 1..n PROVE g[x] # k
    <3>1. SUFFICES ASSUME g[x] = k PROVE FALSE
          BY Zenon
    <3>2. x <= m /\ m \in 1..n
          BY <1>1, <3>1
    <3>3. x # m
          BY <1>5, <3>1, <3>2, Zenon
    <3>4. x < m
          BY <1>1, <3>2, <3>3
    <3>5. g[x] < g[m] /\ g[m] \in Nat /\ (g[m] <= k <=> m <= m)
          BY <1>1, <3>2, <3>4, Zenon
    <3> QED
          BY <1>1, <3>1, <3>5
  <2>2. \A x \in 1..n : g[x] <= k - 1 <=> x <= m
        BY <1>1, <2>1
  <2>3. m \in 0..n
        BY <1>1
  <2> QED
        BY <1>3, <2>2, <2>3, Zenon
<1> QED
      BY <1>4, <1>5, Zenon

\* The list with one place less behind its first m.
Closer(g, m, n) == [x \in 1..n |-> IF x <= m THEN g[x] ELSE g[x] - 1]

\* The list without its member m + 1.
Shorter(g, m, n) == [x \in 1..(n - 1) |-> IF x <= m THEN g[x] ELSE g[x + 1] - 1]

\* A request has no answer: it is gone.
LEMMA ListsRemove ==
    ASSUME NEW fs, NEW es, NEW g, NEW k \in Nat, NEW id, NEW m, NEW n \in Nat,
           Lists(g, fs, k, id, m, n), Len(fs) \in Nat, k < Len(fs), Len(es) = Len(fs) - 1,
           \A i \in 1..k : es[i] = fs[i],
           \A i \in (k + 1)..Len(es) : es[i] = fs[i + 1]
    PROVE  /\ ~Asks(fs[k + 1], id) =>
                Lists(Closer(g, m, n), es, k, id, m, n)
           /\ Asks(fs[k + 1], id) =>
                /\ n >= 1
                /\ Lists(Shorter(g, m, n), es, k, id, m, n - 1)
<1>0. Listed(g, fs, k, id, m, n)
      BY ListsMeaning, Zenon
<1>1. /\ m \in Nat /\ m <= n
      /\ \A x \in 1..n : g[x] \in Nat /\ g[x] \in 1..Len(fs) /\ Asks(fs[g[x]], id)
      /\ \A x \in 1..n : g[x] <= k <=> x <= m
      /\ \A x \in 1..n, y \in 1..n : x < y => g[x] < g[y]
      /\ \A i \in 1..Len(fs) : Asks(fs[i], id) => \E x \in 1..n : g[x] = i
      BY <1>0, Zenon DEF Listed
<1>2. ASSUME ~Asks(fs[k + 1], id)
      PROVE  Lists(Closer(g, m, n), es, k, id, m, n)
  <2> DEFINE h == [x \in 1..n |-> IF x <= m THEN g[x] ELSE g[x] - 1]
  <2>1. \A x \in 1..n : g[x] # k + 1
        BY <1>1, <1>2, Zenon
  <2>2. ASSUME NEW x \in 1..n
        PROVE  \/ x <= m /\ h[x] = g[x] /\ h[x] \in 1..k /\ h[x] \in 1..Len(es)
               \/ /\ x > m /\ h[x] = g[x] - 1 /\ h[x] \in (k + 1)..Len(es)
                  /\ h[x] + 1 = g[x] /\ h[x] \in 1..Len(es)
    <3>1. g[x] # k + 1 /\ g[x] \in 1..Len(fs) /\ (g[x] <= k <=> x <= m)
          BY <1>1, <2>1, Zenon
    <3> QED
          BY <1>1, <3>1
  <2>3. h \in [1..n -> 1..Len(es)]
        BY <2>2, Zenon
  <2>8. /\ \A x \in 1..n : x <= m => h[x] = g[x]
        /\ \A x \in 1..n : ~(x <= m) => h[x] = g[x] - 1
        BY Zenon
  <2> HIDE DEF h
  <2>4. ASSUME NEW x \in 1..n PROVE Asks(es[h[x]], id)
    <3>1. es[h[x]] = fs[g[x]]
          BY <2>2, Zenon
    <3> QED
          BY <1>1, <3>1, Zenon
  <2>5. ASSUME NEW x \in 1..n PROVE h[x] <= k <=> x <= m
        BY <1>1, <2>2
  <2>6. ASSUME NEW x \in 1..n, NEW y \in 1..n, x < y PROVE h[x] < h[y]
    <3>1. g[x] < g[y] /\ g[x] \in Nat /\ g[y] \in Nat
          BY <1>1, <2>6, Zenon
    <3>2. CASE x <= m /\ y <= m
          BY <2>8, <3>1, <3>2, Zenon
    <3>3. CASE ~(x <= m) /\ ~(y <= m)
          BY <2>8, <3>1, <3>3
    <3>4. CASE x <= m /\ ~(y <= m)
      <4>1. h[x] \in 1..k /\ h[y] \in (k + 1)..Len(es)
            BY <1>1, <2>2, <3>4
      <4> QED
            BY <4>1
    <3> QED
          BY <1>1, <2>6, <3>2, <3>3, <3>4
  <2>7. ASSUME NEW i \in 1..Len(es), Asks(es[i], id)
        PROVE  \E x \in 1..n : h[x] = i
    <3>1. CASE i <= k
      <4>1. i \in 1..Len(fs) /\ Asks(fs[i], id)
            BY <2>7, <3>1
      <4>2. PICK x \in 1..n : g[x] = i
            BY <1>1, <4>1, Zenon
      <4>3. x <= m
            BY <1>1, <3>1, <4>2, Zenon
      <4> QED
            BY <2>8, <4>2, <4>3, Zenon
    <3>2. CASE i > k
      <4>1. i + 1 \in 1..Len(fs) /\ Asks(fs[i + 1], id)
        <5>1. i \in (k + 1)..Len(es) /\ i + 1 \in 1..Len(fs)
              BY <3>2
        <5>2. es[i] = fs[i + 1]
              BY <5>1, Zenon
        <5> QED
              BY <2>7, <5>1, <5>2, Zenon
      <4>2. PICK x \in 1..n : g[x] = i + 1
            BY <1>1, <4>1, Zenon
      <4>3. ~(x <= m)
            BY <1>1, <3>2, <4>2
      <4>4. h[x] = i
            BY <1>1, <2>2, <4>2, <4>3
      <4> QED
            BY <4>4, Zenon
    <3> QED
          BY <3>1, <3>2
  <2> QED
        BY <1>1, <2>3, <2>4, <2>5, <2>6, <2>7, Zenon DEF Lists, h, Closer
<1>n. Asks(fs[k + 1], id) => m + 1 \in 1..n /\ g[m + 1] = k + 1
  <2>1. NextListed(g, fs, k, id, m, n)
        BY ListsNext, Zenon
  <2> QED
        BY <2>1, Zenon DEF NextListed
<1>3. ASSUME Asks(fs[k + 1], id)
      PROVE  /\ n >= 1
             /\ Lists(Shorter(g, m, n), es, k, id, m, n - 1)
  <2> DEFINE h == [x \in 1..(n - 1) |-> IF x <= m THEN g[x] ELSE g[x + 1] - 1]
  <2>1. m + 1 \in 1..n /\ g[m + 1] = k + 1
        BY <1>3, <1>n, Zenon
  <2>2. n >= 1 /\ n - 1 \in Nat /\ m \in 0..(n - 1)
        BY <1>1, <2>1
  <2>3. ASSUME NEW x \in 1..(n - 1)
        PROVE  \/ x <= m /\ h[x] = g[x] /\ h[x] \in 1..k /\ h[x] \in 1..Len(es)
               \/ /\ x > m /\ h[x] = g[x + 1] - 1 /\ h[x] \in (k + 1)..Len(es)
                  /\ h[x] + 1 = g[x + 1] /\ h[x] \in 1..Len(es) /\ x + 1 \in 1..n
    <3>1. x \in 1..n /\ x + 1 \in 1..n
          BY <2>2
    <3>2. CASE x <= m
      <4>1. g[x] <= k /\ g[x] \in 1..Len(fs)
            BY <1>1, <3>1, <3>2, Zenon
      <4> QED
            BY <3>2, <4>1
    <3>3. CASE x > m
      <4>1. m + 1 < x + 1
            BY <1>1, <3>3
      <4>2. g[m + 1] < g[x + 1] /\ g[x + 1] \in 1..Len(fs)
            BY <1>1, <2>1, <3>1, <4>1, Zenon
      <4>3. h[x] = g[x + 1] - 1
            BY <1>1, <3>3
      <4> QED
            BY <2>1, <3>1, <3>3, <4>2, <4>3
    <3> QED
          BY <1>1, <3>2, <3>3
  <2>4. h \in [1..(n - 1) -> 1..Len(es)]
        BY <2>3, Zenon
  <2>9. /\ \A x \in 1..(n - 1) : x <= m => h[x] = g[x]
        /\ \A x \in 1..(n - 1) : ~(x <= m) => h[x] = g[x + 1] - 1
        BY Zenon
  <2> HIDE DEF h
  <2>5. ASSUME NEW x \in 1..(n - 1) PROVE Asks(es[h[x]], id)
    <3>1. x \in 1..n
          BY <2>2
    <3>2. CASE x <= m
      <4>1. h[x] \in 1..k /\ h[x] = g[x]
            BY <1>1, <2>3, <3>2
      <4> QED
            BY <1>1, <3>1, <4>1, Zenon
    <3>3. CASE ~(x <= m)
      <4>1. h[x] \in (k + 1)..Len(es) /\ h[x] + 1 = g[x + 1] /\ x + 1 \in 1..n
            BY <1>1, <2>3, <3>3, Zenon
      <4>2. es[h[x]] = fs[g[x + 1]]
            BY <4>1, Zenon
      <4> QED
            BY <1>1, <4>1, <4>2, Zenon
    <3> QED
          BY <3>2, <3>3, Zenon
  <2>6. ASSUME NEW x \in 1..(n - 1) PROVE h[x] <= k <=> x <= m
        BY <1>1, <2>3
  <2>7. ASSUME NEW x \in 1..(n - 1), NEW y \in 1..(n - 1), x < y PROVE h[x] < h[y]
    <3>1. x \in 1..n /\ y \in 1..n /\ x + 1 \in 1..n /\ y + 1 \in 1..n /\ x + 1 < y + 1
          BY <2>2, <2>7
    <3>2. /\ g[x] < g[y] /\ g[x] \in Nat /\ g[y] \in Nat
          /\ g[x + 1] < g[y + 1] /\ g[x + 1] \in Nat /\ g[y + 1] \in Nat
          BY <1>1, <2>7, <3>1, Zenon
    <3>3. CASE x <= m /\ y <= m
          BY <2>9, <3>2, <3>3, Zenon
    <3>4. CASE ~(x <= m) /\ ~(y <= m)
      <4>1. h[x] = g[x + 1] - 1 /\ h[y] = g[y + 1] - 1
            BY <2>9, <3>4, Zenon
      <4> QED
            BY <3>2, <4>1
    <3>5. CASE x <= m /\ ~(y <= m)
      <4>1. h[x] \in 1..k /\ h[y] \in (k + 1)..Len(es)
            BY <1>1, <2>3, <3>5
      <4> QED
            BY <4>1
    <3> QED
          BY <1>1, <2>7, <3>3, <3>4, <3>5
  <2>8. ASSUME NEW i \in 1..Len(es), Asks(es[i], id)
        PROVE  \E x \in 1..(n - 1) : h[x] = i
    <3>1. CASE i <= k
      <4>1. i \in 1..Len(fs) /\ Asks(fs[i], id)
            BY <2>8, <3>1
      <4>2. PICK x \in 1..n : g[x] = i
            BY <1>1, <4>1, Zenon
      <4>3. x <= m /\ x \in 1..(n - 1)
            BY <1>1, <2>2, <3>1, <4>2
      <4> QED
            BY <2>9, <4>2, <4>3, Zenon
    <3>2. CASE i > k
      <4>1. i + 1 \in 1..Len(fs) /\ Asks(fs[i + 1], id)
        <5>1. i \in (k + 1)..Len(es) /\ i + 1 \in 1..Len(fs)
              BY <3>2
        <5>2. es[i] = fs[i + 1]
              BY <5>1, Zenon
        <5> QED
              BY <2>8, <5>1, <5>2, Zenon
      <4>2. PICK x \in 1..n : g[x] = i + 1
            BY <1>1, <4>1, Zenon
      <4>3. ~(x <= m) /\ x # m + 1
            BY <1>1, <2>1, <3>2, <4>2
      <4>4. x - 1 \in 1..(n - 1) /\ ~(x - 1 <= m) /\ (x - 1) + 1 = x
            BY <1>1, <2>2, <4>3
      <4>5. h[x - 1] = i
            BY <1>1, <2>3, <4>2, <4>4
      <4> QED
            BY <4>4, <4>5, Zenon
    <3> QED
          BY <3>1, <3>2
  <2> QED
        BY <2>2, <2>4, <2>5, <2>6, <2>7, <2>8, Zenon DEF Lists, h, Shorter
<1> QED
      BY <1>2, <1>3, Zenon

\* The requests are lost with the connection.
LEMMA ListsCut ==
    ASSUME NEW fs, NEW es, NEW g, NEW k \in Nat, NEW id, NEW m, NEW n \in Nat,
           Lists(g, fs, k, id, m, n), Len(fs) \in Nat, k <= Len(fs), Len(es) = k,
           \A i \in 1..k : es[i] = fs[i]
    PROVE  Lists([x \in 1..m |-> g[x]], es, k, id, m, m)
<1> DEFINE h == [x \in 1..m |-> g[x]]
<1>0. Listed(g, fs, k, id, m, n)
      BY ListsMeaning, Zenon
<1>1. /\ m \in Nat /\ m <= n
      /\ \A x \in 1..n : g[x] \in Nat /\ g[x] \in 1..Len(fs) /\ Asks(fs[g[x]], id)
      /\ \A x \in 1..n : g[x] <= k <=> x <= m
      /\ \A x \in 1..n, y \in 1..n : x < y => g[x] < g[y]
      /\ \A i \in 1..Len(fs) : Asks(fs[i], id) => \E x \in 1..n : g[x] = i
      BY <1>0, Zenon DEF Listed
<1>2. ASSUME NEW x \in 1..m PROVE x \in 1..n /\ h[x] = g[x] /\ h[x] \in 1..k
      BY <1>1
<1>3. h \in [1..m -> 1..Len(es)]
      BY <1>2, Zenon
<1> HIDE DEF h
<1>4. \A x \in 1..m : Asks(es[h[x]], id)
      BY <1>1, <1>2, Zenon
<1>5. \A x \in 1..m : h[x] <= k <=> x <= m
      BY <1>1, <1>2, Zenon
<1>6. \A x \in 1..m, y \in 1..m : x < y => h[x] < h[y]
      BY <1>1, <1>2, Zenon
<1>7. ASSUME NEW i \in 1..k, Asks(es[i], id)
      PROVE  \E x \in 1..m : h[x] = i
  <2>1. i \in 1..Len(fs) /\ Asks(fs[i], id)
        BY <1>7
  <2>2. PICK x \in 1..n : g[x] = i
        BY <1>1, <2>1, Zenon
  <2>3. x \in 1..m
        BY <1>1, <2>2
  <2> QED
        BY <1>2, <2>2, <2>3, Zenon
<1> QED
      BY <1>1, <1>3, <1>4, <1>5, <1>6, <1>7 DEF Lists, h

-----------------------------------------------------------------------------
(* Yamux: the frames in flight, before and after a step. *)

Frame == RequestFrame \cup ReplyFrame

\* The replies first, then the requests.
LEMMA FlightParts ==
    ASSUME NEW s \in Seq(ReplyFrame), NEW r \in Seq(RequestFrame)
    PROVE  /\ Len(s) \in Nat /\ Len(r) \in Nat
           /\ s \o r \in Seq(Frame) /\ Len(s \o r) = Len(s) + Len(r)
           /\ \A i \in 1..Len(s) : (s \o r)[i] = s[i] /\ s[i] \in ReplyFrame
           /\ \A i \in 1..Len(r) : (s \o r)[Len(s) + i] = r[i] /\ r[i] \in RequestFrame
           /\ \A i \in (Len(s) + 1)..(Len(s) + Len(r)) : (s \o r)[i] = r[i - Len(s)]
<1>1. s \in Seq(Frame) /\ r \in Seq(Frame)
      BY SeqMonotonic, Zenon DEF Frame
<1>2. /\ s \o r \in Seq(Frame) /\ Len(s \o r) = Len(s) + Len(r)
      /\ \A i \in 1..(Len(s) + Len(r)) : (s \o r)[i] = IF i <= Len(s) THEN s[i] ELSE r[i - Len(s)]
      BY <1>1, ConcatProperties, Zenon
<1>3. Len(s) \in Nat /\ Len(r) \in Nat
      BY LenProperties, Zenon
<1>4. /\ \A i \in 1..Len(s) : s[i] \in ReplyFrame
      /\ \A i \in 1..Len(r) : r[i] \in RequestFrame
      BY ElementOfSeq, Zenon
<1>5. \A i \in 1..Len(s) : (s \o r)[i] = s[i]
      BY <1>2, <1>3
<1>6. ASSUME NEW i \in 1..Len(r) PROVE (s \o r)[Len(s) + i] = r[i]
  <2>1. Len(s) + i \in 1..(Len(s) + Len(r)) /\ ~(Len(s) + i <= Len(s)) /\ (Len(s) + i) - Len(s) = i
        BY <1>3
  <2> QED
        BY <1>2, <2>1, Zenon
<1>7. ASSUME NEW i \in (Len(s) + 1)..(Len(s) + Len(r)) PROVE (s \o r)[i] = r[i - Len(s)]
  <2>1. i \in 1..(Len(s) + Len(r)) /\ ~(i <= Len(s))
        BY <1>3
  <2> QED
        BY <1>2, <2>1, Zenon
<1> QED
      BY <1>2, <1>3, <1>4, <1>5, <1>6, <1>7, Zenon

\* c after c, with the frame f sent.
Said(c, d, f) ==
    /\ Len(d) = Len(c) + 1 /\ d[Len(d)] = f
    /\ \A i \in 1..Len(c) : d[i] = c[i]

\* With the first frame taken.
Heard(c, d) == Len(d) = Len(c) - 1 /\ \A i \in 1..Len(d) : d[i] = c[i + 1]

\* With the frame behind the first k replaced by f.
Replaced(c, d, k, f) ==
    /\ Len(d) = Len(c) /\ k < Len(c) /\ d[k + 1] = f
    /\ \A i \in 1..Len(c) : i # k + 1 => d[i] = c[i]

\* With the frame behind the first k removed.
Removed(c, d, k) ==
    /\ Len(d) = Len(c) - 1 /\ k < Len(c)
    /\ \A i \in 1..k : d[i] = c[i]
    /\ \A i \in (k + 1)..Len(d) : d[i] = c[i + 1]

\* With only the first k left.
CutAt(c, d, k) == Len(d) = k /\ \A i \in 1..k : d[i] = c[i]

\* The swarm says f.
LEMMA FlightSaid ==
    ASSUME NEW s \in Seq(ReplyFrame), NEW r \in Seq(RequestFrame), NEW f \in RequestFrame
    PROVE  Append(r, f) \in Seq(RequestFrame) /\ Said(s \o r, s \o Append(r, f), f)
<1> DEFINE q == Append(r, f)
<1>1. /\ q \in Seq(RequestFrame) /\ Len(q) = Len(r) + 1 /\ q[Len(r) + 1] = f
      /\ \A i \in 1..Len(r) : q[i] = r[i]
      BY AppendProperties
<1> HIDE DEF q
<1> DEFINE c == s \o r
           d == s \o q
<1>2. /\ Len(s) \in Nat /\ Len(r) \in Nat /\ Len(c) = Len(s) + Len(r)
      /\ \A i \in 1..Len(s) : c[i] = s[i]
      /\ \A i \in (Len(s) + 1)..(Len(s) + Len(r)) : c[i] = r[i - Len(s)]
      BY FlightParts, Zenon
<1>3. /\ Len(d) = Len(s) + Len(q)
      /\ \A i \in 1..Len(s) : d[i] = s[i]
      /\ \A i \in (Len(s) + 1)..(Len(s) + Len(q)) : d[i] = q[i - Len(s)]
      BY <1>1, FlightParts, Zenon
<1> HIDE DEF c, d
<1>4. Len(d) = Len(c) + 1
      BY <1>1, <1>2, <1>3
<1>5. d[Len(d)] = f
  <2>1. Len(d) \in (Len(s) + 1)..(Len(s) + Len(q)) /\ Len(d) - Len(s) = Len(r) + 1
        BY <1>1, <1>2, <1>3
  <2> QED
        BY <1>1, <1>3, <2>1, Zenon
<1>6. ASSUME NEW i \in 1..Len(c) PROVE d[i] = c[i]
  <2>1. CASE i <= Len(s)
        BY <1>2, <1>3, <2>1
  <2>2. CASE i > Len(s)
    <3>1. /\ i \in (Len(s) + 1)..(Len(s) + Len(r)) /\ i \in (Len(s) + 1)..(Len(s) + Len(q))
          /\ i - Len(s) \in 1..Len(r)
          BY <1>1, <1>2, <2>2
    <3> QED
          BY <1>1, <1>2, <1>3, <3>1, Zenon
  <2> QED
        BY <1>2, <2>1, <2>2
<1>7. Said(c, d, f)
      BY <1>4, <1>5, <1>6, Zenon DEF Said
<1> QED
      BY <1>1, <1>7, Zenon DEF c, d, q

\* The swarm takes the first reply.
LEMMA FlightHeard ==
    ASSUME NEW s \in Seq(ReplyFrame), NEW r \in Seq(RequestFrame), s # <<>>
    PROVE  /\ Head(s) \in ReplyFrame /\ Tail(s) \in Seq(ReplyFrame)
           /\ Len(Tail(s)) = Len(s) - 1 /\ Len(s) >= 1 /\ (s \o r)[1] = Head(s)
           /\ Heard(s \o r, Tail(s) \o r)
<1> DEFINE t == Tail(s)
<1>1. /\ Head(s) \in ReplyFrame /\ t \in Seq(ReplyFrame) /\ Len(t) = Len(s) - 1
      /\ \A i \in 1..Len(t) : t[i] = s[i + 1]
      BY HeadTailProperties, Zenon
<1>2. Head(s) = s[1] /\ Len(s) >= 1 /\ Len(s) \in Nat
      BY EmptySeq, LenProperties
<1> HIDE DEF t
<1> DEFINE c == s \o r
           d == t \o r
<1>3. /\ Len(s) \in Nat /\ Len(r) \in Nat /\ Len(c) = Len(s) + Len(r)
      /\ \A i \in 1..Len(s) : c[i] = s[i]
      /\ \A i \in (Len(s) + 1)..(Len(s) + Len(r)) : c[i] = r[i - Len(s)]
      BY FlightParts, Zenon
<1>4. /\ Len(d) = Len(t) + Len(r)
      /\ \A i \in 1..Len(t) : d[i] = t[i]
      /\ \A i \in (Len(t) + 1)..(Len(t) + Len(r)) : d[i] = r[i - Len(t)]
      BY <1>1, FlightParts, Zenon
<1> HIDE DEF c, d
<1>5. Len(d) = Len(c) - 1 /\ c[1] = Head(s)
      BY <1>1, <1>2, <1>3, <1>4
<1>6. ASSUME NEW i \in 1..Len(d) PROVE d[i] = c[i + 1]
  <2>1. CASE i <= Len(t)
    <3>1. i \in 1..Len(t) /\ i + 1 \in 1..Len(s)
          BY <1>1, <1>2, <2>1
    <3> QED
          BY <1>1, <1>3, <1>4, <3>1, Zenon
  <2>2. CASE i > Len(t)
    <3>1. /\ i \in (Len(t) + 1)..(Len(t) + Len(r)) /\ i + 1 \in (Len(s) + 1)..(Len(s) + Len(r))
          /\ i - Len(t) = (i + 1) - Len(s)
          BY <1>1, <1>2, <1>3, <1>4, <2>2
    <3> QED
          BY <1>3, <1>4, <3>1
  <2> QED
        BY <1>1, <1>2, <2>1, <2>2
<1>7. Heard(c, d)
      BY <1>5, <1>6, Zenon DEF Heard
<1> QED
      BY <1>1, <1>2, <1>5, <1>7, Zenon DEF c, d, t

\* The node takes the first request and answers it with f.
LEMMA FlightReplaced ==
    ASSUME NEW s \in Seq(ReplyFrame), NEW r \in Seq(RequestFrame), r # <<>>, NEW f \in ReplyFrame
    PROVE  /\ s \o <<f>> \in Seq(ReplyFrame) /\ Len(s \o <<f>>) = Len(s) + 1
           /\ Replaced(s \o r, (s \o <<f>>) \o Tail(r), Len(s), f)
<1> DEFINE t == Tail(r)
           q == s \o <<f>>
<1>1. /\ t \in Seq(RequestFrame) /\ Len(t) = Len(r) - 1
      /\ \A i \in 1..Len(t) : t[i] = r[i + 1]
      BY HeadTailProperties, Zenon
<1>2. Len(r) >= 1 /\ Len(r) \in Nat /\ Len(s) \in Nat
      BY EmptySeq, LenProperties
<1>3. /\ q \in Seq(ReplyFrame) /\ Len(q) = Len(s) + 1 /\ q[Len(s) + 1] = f
      /\ \A i \in 1..Len(s) : q[i] = s[i]
  <2>1. q = Append(s, f)
        BY AppendIsConcat, Zenon
  <2> QED
        BY <2>1, AppendProperties
<1> HIDE DEF t, q
<1> DEFINE c == s \o r
           d == q \o t
<1>4. /\ Len(c) = Len(s) + Len(r)
      /\ \A i \in 1..Len(s) : c[i] = s[i]
      /\ \A i \in (Len(s) + 1)..(Len(s) + Len(r)) : c[i] = r[i - Len(s)]
      BY FlightParts, Zenon
<1>5. /\ Len(d) = Len(q) + Len(t)
      /\ \A i \in 1..Len(q) : d[i] = q[i]
      /\ \A i \in (Len(q) + 1)..(Len(q) + Len(t)) : d[i] = t[i - Len(q)]
      BY <1>1, <1>3, FlightParts, Zenon
<1> HIDE DEF c, d
<1>6. Len(d) = Len(c) /\ Len(s) < Len(c) /\ d[Len(s) + 1] = f
      BY <1>1, <1>2, <1>3, <1>4, <1>5
<1>7. ASSUME NEW i \in 1..Len(c), i # Len(s) + 1 PROVE d[i] = c[i]
  <2>1. CASE i <= Len(s)
    <3>1. i \in 1..Len(s) /\ i \in 1..Len(q)
          BY <1>2, <1>3, <2>1
    <3> QED
          BY <1>3, <1>4, <1>5, <3>1, Zenon
  <2>2. CASE i > Len(s)
    <3>1. /\ i \in (Len(s) + 1)..(Len(s) + Len(r)) /\ i \in (Len(q) + 1)..(Len(q) + Len(t))
          /\ (i - Len(q)) + 1 = i - Len(s) /\ i - Len(q) \in 1..Len(t)
          BY <1>1, <1>2, <1>3, <1>4, <1>7, <2>2
    <3> QED
          BY <1>1, <1>4, <1>5, <3>1, ZenonT(30)
  <2> QED
        BY <1>2, <2>1, <2>2
<1>8. Replaced(c, d, Len(s), f)
      BY <1>6, <1>7, Zenon DEF Replaced
<1> QED
      BY <1>3, <1>8, Zenon DEF c, d, q, t

\* The node takes the first request and does not answer it.
LEMMA FlightRemoved ==
    ASSUME NEW s \in Seq(ReplyFrame), NEW r \in Seq(RequestFrame), r # <<>>
    PROVE  /\ Head(r) \in RequestFrame /\ Tail(r) \in Seq(RequestFrame)
           /\ Len(Tail(r)) = Len(r) - 1 /\ Len(r) >= 1 /\ Head(r) = r[1]
           /\ \A i \in 1..Len(Tail(r)) : Tail(r)[i] = r[i + 1]
           /\ (s \o r)[Len(s) + 1] = Head(r)
           /\ Removed(s \o r, s \o Tail(r), Len(s))
<1> DEFINE t == Tail(r)
<1>1. /\ Head(r) \in RequestFrame /\ t \in Seq(RequestFrame) /\ Len(t) = Len(r) - 1
      /\ \A i \in 1..Len(t) : t[i] = r[i + 1]
      BY HeadTailProperties, Zenon
<1>2. Head(r) = r[1] /\ Len(r) >= 1 /\ Len(r) \in Nat /\ Len(s) \in Nat
      BY EmptySeq, LenProperties
<1> HIDE DEF t
<1> DEFINE c == s \o r
           d == s \o t
<1>3. /\ Len(c) = Len(s) + Len(r)
      /\ \A i \in 1..Len(s) : c[i] = s[i]
      /\ \A i \in (Len(s) + 1)..(Len(s) + Len(r)) : c[i] = r[i - Len(s)]
      BY FlightParts, Zenon
<1>4. /\ Len(d) = Len(s) + Len(t)
      /\ \A i \in 1..Len(s) : d[i] = s[i]
      /\ \A i \in (Len(s) + 1)..(Len(s) + Len(t)) : d[i] = t[i - Len(s)]
      BY <1>1, FlightParts, Zenon
<1> HIDE DEF c, d
<1>5. c[Len(s) + 1] = Head(r)
  <2>1. Len(s) + 1 \in (Len(s) + 1)..(Len(s) + Len(r)) /\ (Len(s) + 1) - Len(s) = 1
        BY <1>2
  <2> QED
        BY <1>2, <1>3, <2>1, Zenon
<1>6. Len(d) = Len(c) - 1 /\ Len(s) < Len(c) /\ \A i \in 1..Len(s) : d[i] = c[i]
      BY <1>1, <1>2, <1>3, <1>4
<1>7. ASSUME NEW i \in (Len(s) + 1)..Len(d) PROVE d[i] = c[i + 1]
  <2>1. /\ i \in (Len(s) + 1)..(Len(s) + Len(t)) /\ i + 1 \in (Len(s) + 1)..(Len(s) + Len(r))
        /\ (i - Len(s)) + 1 = (i + 1) - Len(s) /\ i - Len(s) \in 1..Len(t)
        BY <1>1, <1>2, <1>4
  <2>2. d[i] = t[i - Len(s)]
        BY <1>4, <2>1, Zenon
  <2>3. t[i - Len(s)] = r[(i - Len(s)) + 1]
        BY <1>1, <2>1, Zenon
  <2>4. c[i + 1] = r[(i + 1) - Len(s)]
        BY <1>3, <2>1, Zenon
  <2> QED
        BY <2>1, <2>2, <2>3, <2>4, Zenon
<1>8. Removed(c, d, Len(s))
      BY <1>6, <1>7, Zenon DEF Removed
<1> QED
      BY <1>1, <1>2, <1>5, <1>8, Zenon DEF c, d, t

\* The requests are gone.
LEMMA FlightCut ==
    ASSUME NEW s \in Seq(ReplyFrame), NEW r \in Seq(RequestFrame)
    PROVE  <<>> \in Seq(RequestFrame) /\ CutAt(s \o r, s \o <<>>, Len(s))
<1>1. <<>> \in Seq(RequestFrame) /\ s \o <<>> = s
      BY EmptySeq, ConcatEmptySeq, Zenon
<1>2. \A i \in 1..Len(s) : (s \o r)[i] = s[i]
      BY FlightParts, Zenon
<1> QED
      BY <1>1, <1>2, Zenon DEF CutAt

\* The replies without the last.
LEMMA AllButLast ==
    ASSUME NEW s \in Seq(ReplyFrame), s # <<>>
    PROVE  /\ Len(s) >= 1 /\ Len(s) \in Nat /\ Len(s) - 1 \in Nat
           /\ SubSeq(s, 1, Len(s) - 1) \in Seq(ReplyFrame)
           /\ CutAt(s, SubSeq(s, 1, Len(s) - 1), Len(s) - 1)
<1> DEFINE n == Len(s) - 1
<1>1. Len(s) >= 1 /\ Len(s) \in Nat /\ n \in Nat
      BY EmptySeq, LenProperties
<1>2. n \in Int /\ 1 \in Int /\ \A i \in 1..n : i \in 1..Len(s)
      BY <1>1
<1>3. \A i \in 1..n : s[i] \in ReplyFrame
      BY <1>2, ElementOfSeq, Zenon
<1> HIDE DEF n
<1>4. /\ SubSeq(s, 1, n) \in Seq(ReplyFrame)
      /\ Len(SubSeq(s, 1, n)) = IF 1 <= n THEN n - 1 + 1 ELSE 0
      /\ \A i \in 1..(n - 1 + 1) : SubSeq(s, 1, n)[i] = s[1 + i - 1]
      BY <1>2, <1>3, SubSeqProperties
<1>5. /\ (IF 1 <= n THEN n - 1 + 1 ELSE 0) = n /\ n - 1 + 1 = n
      /\ \A i \in 1..n : 1 + i - 1 = i
      BY <1>1
<1> QED
      BY <1>1, <1>4, <1>5, Zenon DEF n, CutAt

\* The last reply is lost.
LEMMA FlightUnwritten ==
    ASSUME NEW s \in Seq(ReplyFrame), NEW r \in Seq(RequestFrame), NEW t \in Seq(ReplyFrame),
           Len(s) \in Nat, Len(s) >= 1, CutAt(s, t, Len(s) - 1)
    PROVE  Len(t) = Len(s) - 1 /\ Removed(s \o r, t \o r, Len(s) - 1)
<1> DEFINE c == s \o r
           d == t \o r
           k == Len(s) - 1
<1>1. Len(t) = k /\ (\A i \in 1..k : t[i] = s[i]) /\ k \in Nat /\ Len(s) = k + 1
      BY DEF CutAt
<1>3. /\ Len(r) \in Nat /\ Len(c) = Len(s) + Len(r)
      /\ \A i \in 1..Len(s) : c[i] = s[i]
      /\ \A i \in (Len(s) + 1)..(Len(s) + Len(r)) : c[i] = r[i - Len(s)]
      BY FlightParts, Zenon
<1>4. /\ Len(d) = Len(t) + Len(r)
      /\ \A i \in 1..Len(t) : d[i] = t[i]
      /\ \A i \in (Len(t) + 1)..(Len(t) + Len(r)) : d[i] = r[i - Len(t)]
      BY FlightParts, Zenon
<1> HIDE DEF c, d, k
<1>5. Len(d) = Len(c) - 1 /\ k < Len(c)
      BY <1>1, <1>3, <1>4
<1>6. ASSUME NEW i \in 1..k PROVE d[i] = c[i]
  <2>1. i \in 1..Len(s) /\ i \in 1..Len(t)
        BY <1>1
  <2> QED
        BY <1>1, <1>3, <1>4, <2>1, Zenon
<1>7. ASSUME NEW i \in (k + 1)..Len(d) PROVE d[i] = c[i + 1]
  <2>1. /\ i \in (Len(t) + 1)..(Len(t) + Len(r)) /\ i + 1 \in (Len(s) + 1)..(Len(s) + Len(r))
        /\ i - Len(t) = (i + 1) - Len(s)
    <3>1. Len(t) = k /\ Len(s) = k + 1 /\ Len(d) = k + Len(r) /\ Len(r) \in Nat /\ k \in Nat
          BY <1>1, <1>3, <1>4, Zenon
    <3> QED
          BY <3>1
  <2>2. d[i] = r[i - Len(t)] /\ c[i + 1] = r[(i + 1) - Len(s)]
        BY <1>3, <1>4, <2>1, Zenon
  <2> QED
        BY <2>1, <2>2, Zenon
<1>8. Removed(c, d, k)
      BY <1>5, <1>6, <1>7, Zenon DEF Removed
<1> QED
      BY <1>1, <1>8, Zenon DEF c, d, k

-----------------------------------------------------------------------------
(* Yamux: what the node does with a request. *)

Stays == streams' = streams
Goes(id) == streams' = Without(id)
Silent == to_swarm' = to_swarm
Answers(f) == to_swarm' = to_swarm \o <<f>>

\* The five kinds of request, and the replies to them. Without the writing task there is none.
LEMMA ProcessCases ==
    ASSUME YamuxTypes, Process,
           NEW f, f = Head(to_node)
    PROVE  /\ ~writing => Silent
           /\ \/ /\ f.ty = "Ping" /\ Stays
                 /\ ~writing \/ Answers(SessionPing({"Ack"}, f.length))
              \/ /\ f.ty = "Data" /\ f.flags = 1
                 /\ \/ ~peer_state /\ Stays
                    \/ /\ peer_state
                       /\ streams' = Without(f.stream_id)
                                     \cup {[id |-> f.stream_id, protocol |-> f.payload]}
                 /\ Silent \/ Answers(Data(f.stream_id, {"Ack"}, f.payload))
              \/ /\ f.ty = "Data" /\ f.flags = 8 /\ Goes(f.stream_id) /\ Silent
              \/ /\ f.ty = "Data" /\ f.flags = 4 /\ Goes(f.stream_id)
                 /\ Silent \/ Answers(Data(f.stream_id, {"Fin"}, "empty"))
              \/ /\ f.ty # "Ping" /\ f.flags = 0 /\ Stays
                 /\ \/ Silent
                    \/ Protocol(f.stream_id) = {"ping"} /\ Answers(Data(f.stream_id, {}, f.payload))
<1>1. to_node \in Seq(RequestFrame) /\ to_node # <<>> /\ to_swarm \in Seq(ReplyFrame)
      BY Zenon DEF YamuxTypes, Process
<1>2. f \in RequestFrame
      BY <1>1, HeadTailProperties, Zenon
<1>3. to_swarm \o <<>> = to_swarm
      BY <1>1, ConcatEmptySeq, Zenon
<1>4. streams' = Handled(f)[1] /\ to_swarm' = to_swarm \o Replies(f)
      BY Zenon DEF Process
<1>11. ~writing => Silent
      BY <1>3, <1>4, Zenon DEF Replies, Silent
<1>12. Len(to_swarm) < MESSAGE_QUEUE_DEPTH
  <2>1. Len(to_node) + Len(to_swarm) <= MaxInFlight
        BY Zenon DEF YamuxTypes
  <2>2. Len(to_node) >= 1 /\ Len(to_node) \in Nat /\ Len(to_swarm) \in Nat
        BY <1>1, EmptySeq, LenProperties
  <2> QED
        BY <2>1, <2>2, YamuxAssumption
<1>13. writing => to_swarm' = to_swarm \o Handled(f)[2]
      BY <1>4, <1>12, Zenon DEF Replies
<1>10. ASSUME NEW ss, NEW rs, Handled(f) = <<ss, rs>>
      PROVE  streams' = ss /\ (writing => to_swarm' = to_swarm \o rs)
  <2>1. <<ss, rs>>[1] = ss /\ <<ss, rs>>[2] = rs
        BY Zenon
  <2> QED
        BY <1>4, <1>13, <1>10, <2>1, Zenon
<1>5. CASE f.ty = "Ping" /\ f.flags = 1
  <2>1. Handled(f) = Probe(f)
        BY <1>5, Zenon DEF Handled
  <2>2. Probe(f) = <<streams, <<SessionPing({"Ack"}, f.length)>>>>
        BY <1>5, FlagValues, Zenon DEF Probe
  <2>3. Stays /\ (writing => Answers(SessionPing({"Ack"}, f.length)))
        BY <1>10, <2>1, <2>2, Zenon DEF Stays, Answers
  <2> QED
        BY <1>5, <1>11, <2>3, Zenon
<1>6. CASE f.ty = "Data" /\ f.flags = 1
  <2>1. Handled(f) = Syn(f)
        BY <1>6, FlagValues, Zenon DEF Handled
  <2>2. CASE ~peer_state
    <3>1. Syn(f) = <<streams, <<Data(f.stream_id, {"Ack"}, f.payload)>>>>
          BY <2>2, Zenon DEF Syn
    <3>2. Stays /\ (writing => Answers(Data(f.stream_id, {"Ack"}, f.payload)))
          BY <1>10, <2>1, <3>1, Zenon DEF Stays, Answers
    <3> QED
          BY <1>6, <1>11, <2>2, <3>2, Zenon
  <2>3. CASE peer_state
    <3>1. \/ Syn(f) = <<Without(f.stream_id) \cup {[id |-> f.stream_id, protocol |-> f.payload]},
                        <<Data(f.stream_id, {"Ack"}, f.payload)>>>>
          \/ Syn(f) = <<Without(f.stream_id) \cup {[id |-> f.stream_id, protocol |-> f.payload]},
                        <<>>>>
          BY <2>3, Zenon DEF Syn
    <3>2. /\ streams' = Without(f.stream_id) \cup {[id |-> f.stream_id, protocol |-> f.payload]}
          /\ writing => Silent \/ Answers(Data(f.stream_id, {"Ack"}, f.payload))
          BY <1>3, <1>10, <2>1, <3>1, Zenon DEF Silent, Answers
    <3> QED
          BY <1>6, <1>11, <2>3, <3>2, Zenon
  <2> QED
        BY <2>2, <2>3, Zenon
<1>7. CASE f.ty = "Data" /\ f.flags = 8
  <2>1. Handled(f) = Rst(f)
        BY <1>7, FlagValues, Zenon DEF Handled
  <2>2. Goes(f.stream_id) /\ (writing => Silent)
        BY <1>3, <1>10, <2>1, Zenon DEF Rst, Goes, Silent
  <2> QED
        BY <1>7, <1>11, <2>2, Zenon
<1>8. CASE f.ty = "Data" /\ f.flags = 4
  <2>1. Handled(f) = Fin(f)
        BY <1>8, FlagValues, Zenon DEF Handled
  <2>2. Goes(f.stream_id) /\ (writing => Silent \/ Answers(Data(f.stream_id, {"Fin"}, "empty")))
    <3>1. \/ Fin(f) = <<Without(f.stream_id), <<>>>>
          \/ Fin(f) = <<Without(f.stream_id), <<Data(f.stream_id, {"Fin"}, "empty")>>>>
          BY Zenon DEF Fin
    <3> QED
          BY <1>3, <1>10, <2>1, <3>1, Zenon DEF Goes, Silent, Answers
  <2> QED
        BY <1>8, <1>11, <2>2, Zenon
<1>9. CASE f.ty # "Ping" /\ f.flags = 0
  <2>1. Handled(f) = Regular(f)
        BY <1>9, FlagValues, Zenon DEF Handled
  <2>2. /\ Stays
        /\ writing => \/ Silent
                      \/ /\ Protocol(f.stream_id) = {"ping"}
                         /\ Answers(Data(f.stream_id, {}, f.payload))
    <3>1. \/ Regular(f) = <<streams, <<>>>>
          \/ /\ Protocol(f.stream_id) = {"ping"}
             /\ Regular(f) = <<streams, <<Data(f.stream_id, {}, f.payload)>>>>
          BY Zenon DEF Regular
    <3> QED
          BY <1>3, <1>10, <2>1, <3>1, Zenon DEF Stays, Silent, Answers
  <2> QED
        BY <1>9, <1>11, <2>2, Zenon
<1>15. \/ f.ty = "Ping" /\ f.flags = 1
       \/ f.ty = "Data" /\ f.flags \in {1, 4, 8}
       \/ f.ty # "Ping" /\ f.flags = 0
      BY <1>2, RequestCases, Zenon
<1> QED
      BY <1>5, <1>6, <1>7, <1>8, <1>9, <1>15, Zenon

-----------------------------------------------------------------------------
(* Yamux: types. *)

\* The frames of the two ends.
LEMMA FramesTyped ==
    /\ \A id \in StreamId, protocol \in Protocols : Data(id, {"Syn"}, protocol) \in RequestFrame
    /\ \A id \in StreamId : Data(id, {}, "payload") \in RequestFrame /\ WindowUpdate(id) \in RequestFrame
    /\ \A id \in StreamId, flag \in {"Fin", "Rst"} : Data(id, {flag}, "empty") \in RequestFrame
    /\ \A opaque \in Opaque : SessionPing({"Syn"}, opaque) \in RequestFrame
    /\ \A id \in StreamId, protocol \in Protocols : Data(id, {"Ack"}, protocol) \in ReplyFrame
    /\ \A id \in StreamId, payload \in {"payload", "empty"} : Data(id, {}, payload) \in ReplyFrame
    /\ \A id \in StreamId : Data(id, {"Fin"}, "empty") \in ReplyFrame
    /\ \A opaque \in Opaque : SessionPing({"Ack"}, opaque) \in ReplyFrame
<1>1. /\ \A id \in StreamId, protocol \in Protocols : Data(id, {"Syn"}, protocol) \in RequestFrame
      /\ \A id \in StreamId : Data(id, {}, "payload") \in RequestFrame /\ WindowUpdate(id) \in RequestFrame
      /\ \A opaque \in Opaque : SessionPing({"Syn"}, opaque) \in RequestFrame
      BY DEF RequestFrame
<1>2. ASSUME NEW id \in StreamId, NEW flag \in {"Fin", "Rst"}
      PROVE  Data(id, {flag}, "empty") \in RequestFrame
      BY DEF RequestFrame
<1>3. /\ \A id \in StreamId, protocol \in Protocols : Data(id, {"Ack"}, protocol) \in ReplyFrame
      /\ \A id \in StreamId, payload \in {"payload", "empty"} : Data(id, {}, payload) \in ReplyFrame
      /\ \A id \in StreamId : Data(id, {"Fin"}, "empty") \in ReplyFrame
      /\ \A opaque \in Opaque : SessionPing({"Ack"}, opaque) \in ReplyFrame
      BY DEF ReplyFrame
<1> QED
      BY <1>1, <1>2, <1>3, Zenon

\* What Process and the swarm's actions do to the sequences in flight.
LEMMA ProcessTypes ==
    ASSUME YamuxTypes, Process
    PROVE  YamuxTypes'
<1> DEFINE f == Head(to_node)
<1>1. /\ to_node \in Seq(RequestFrame) /\ to_node # <<>> /\ to_swarm \in Seq(ReplyFrame)
      /\ to_node' = Tail(to_node)
      /\ UNCHANGED <<peer_state, link, writing, remote, spoken, unanswered, probes, pinged>>
      BY Zenon DEF YamuxTypes, Process, swarmVars
<1>2. f \in RequestFrame /\ Tail(to_node) \in Seq(RequestFrame) /\ Len(Tail(to_node)) = Len(to_node) - 1
      BY <1>1, HeadTailProperties, Zenon
<1>8. Len(to_node) \in Nat /\ Len(to_swarm) \in Nat /\ Len(to_node) + Len(to_swarm) <= MaxInFlight
      BY <1>1, LenProperties, Zenon DEF YamuxTypes
<1>3. streams \subseteq [id : StreamId, protocol : Protocols]
      BY Zenon DEF YamuxTypes
<1> HIDE DEF f
<1> DEFINE Fits == to_swarm' \in Seq(ReplyFrame) /\ Len(to_node') + Len(to_swarm') <= MaxInFlight
<1>4. ASSUME NEW a \in ReplyFrame, Answers(a) PROVE Fits
  <2>1. to_swarm' \in Seq(ReplyFrame) /\ Len(to_swarm') = Len(to_swarm) + 1
        BY <1>1, <1>4, FlightReplaced, Zenon DEF Answers
  <2>2. Len(to_node') = Len(to_node) - 1
        BY <1>1, <1>2, Zenon
  <2> QED
        BY <1>8, <2>1, <2>2
<1>5. Silent => Fits
  <2>1. Len(to_node') = Len(to_node) - 1
        BY <1>1, <1>2, Zenon
  <2>2. Len(to_node') + Len(to_swarm) <= MaxInFlight
        BY <1>8, <2>1
  <2> QED
        BY <1>1, <2>2, Zenon DEF Silent
<1> HIDE DEF Fits
<1>6. \A id : Without(id) \subseteq [id : StreamId, protocol : Protocols]
      BY <1>3, Zenon DEF Without
<1>7. /\ streams' \subseteq [id : StreamId, protocol : Protocols]
      /\ Fits
  <2>1. CASE /\ f.ty = "Ping" /\ Stays
             /\ Silent \/ Answers(SessionPing({"Ack"}, f.length))
    <3>1. f.length \in Opaque
          BY <1>2, <2>1, RequestCases, Zenon
    <3> QED
          BY <1>3, <1>4, <1>5, <2>1, <3>1, FramesTyped, Zenon DEF Stays
  <2>2. CASE /\ f.ty = "Data" /\ f.flags = 1
             /\ \/ ~peer_state /\ Stays
                \/ /\ peer_state
                   /\ streams' = Without(f.stream_id)
                                 \cup {[id |-> f.stream_id, protocol |-> f.payload]}
             /\ Silent \/ Answers(Data(f.stream_id, {"Ack"}, f.payload))
    <3>1. f.stream_id \in StreamId /\ f.payload \in Protocols
          BY <1>2, <2>2, RequestCases
    <3>2. Fits
          BY <1>4, <1>5, <2>2, <3>1, FramesTyped, Zenon
    <3>3. [id |-> f.stream_id, protocol |-> f.payload] \in [id : StreamId, protocol : Protocols]
          BY <3>1, Zenon
    <3>4. \/ streams' = streams
          \/ streams' = Without(f.stream_id) \cup {[id |-> f.stream_id, protocol |-> f.payload]}
          BY <2>2, Zenon DEF Stays
    <3> QED
          BY <1>3, <1>6, <3>2, <3>3, <3>4, Zenon
  <2>3. CASE /\ f.ty = "Data" /\ f.flags = 8 /\ Goes(f.stream_id) /\ Silent
        BY <1>5, <1>6, <2>3, Zenon DEF Goes
  <2>4. CASE /\ f.ty = "Data" /\ f.flags = 4 /\ Goes(f.stream_id)
             /\ Silent \/ Answers(Data(f.stream_id, {"Fin"}, "empty"))
    <3>1. f.stream_id \in StreamId
          BY <1>2, <2>4, RequestCases, Zenon
    <3>2. Fits
          BY <1>4, <1>5, <2>4, <3>1, FramesTyped, Zenon
    <3> QED
          BY <1>6, <2>4, <3>2, Zenon DEF Goes
  <2>5. CASE /\ f.ty # "Ping" /\ f.flags = 0 /\ Stays
             /\ \/ Silent
                \/ Protocol(f.stream_id) = {"ping"} /\ Answers(Data(f.stream_id, {}, f.payload))
    <3>1. f.stream_id \in StreamId /\ f.payload \in {"payload", "empty"}
          BY <1>2, <2>5, RequestCases
    <3>2. Fits
          BY <1>4, <1>5, <2>5, <3>1, FramesTyped, Zenon
    <3> QED
          BY <1>3, <2>5, <3>2, Zenon DEF Stays
  <2> QED
        BY <2>1, <2>2, <2>3, <2>4, <2>5, ProcessCases, Zenon DEF f
<1> QED
      BY <1>1, <1>2, <1>7, Zenon DEF YamuxTypes, Fits

\* The first reply is one the swarm waits for.
LEMMA FirstReply ==
    ASSUME YamuxInv, to_swarm # <<>>,
           NEW f, f = Head(to_swarm)
    PROVE  /\ f \in ReplyFrame
           /\ \/ f.ty = "Ping" /\ f.stream_id = 0 /\ f.flags = 2
                 /\ Len(probes) >= 1 /\ f.length = probes[1]
              \/ /\ f.ty = "Data" /\ f.stream_id \in StreamId
                 /\ \/ /\ f.flags = 2 /\ f.payload = spoken[f.stream_id]
                       /\ remote[f.stream_id] \in {"opening", "reset"}
                    \/ f.flags = 4 /\ remote[f.stream_id] = "closing"
                    \/ /\ f.flags = 0
                       /\ IF f.payload = "empty" THEN spoken[f.stream_id] = "ping"
                          ELSE unanswered[f.stream_id] > 0
<1>1. to_node \in Seq(RequestFrame) /\ to_swarm \in Seq(ReplyFrame)
      BY Zenon DEF YamuxInv, YamuxTypes
<1>2. /\ f \in ReplyFrame /\ InFlight[1] = f
      /\ Len(to_swarm) \in Nat /\ Len(to_swarm) >= 1 /\ Len(InFlight) \in Nat
      /\ Len(InFlight) = Len(to_swarm) + Len(to_node)
      /\ 1 \in 1..Len(InFlight) /\ 1 \in 1..Len(to_swarm)
      /\ \A i \in 1..Len(to_swarm) : InFlight[i] = to_swarm[i]
  <2>1. f \in ReplyFrame /\ InFlight[1] = f /\ Len(to_swarm) >= 1
        BY <1>1, FlightHeard, Zenon DEF InFlight
  <2>2. /\ Len(to_swarm) \in Nat /\ Len(to_node) \in Nat
        /\ Len(InFlight) = Len(to_swarm) + Len(to_node)
        /\ \A i \in 1..Len(to_swarm) : InFlight[i] = to_swarm[i]
        BY <1>1, FlightParts, Zenon DEF InFlight
  <2> QED
        BY <2>1, <2>2
<1>3. CASE f.ty = "Ping" /\ f.stream_id = 0 /\ f.flags = 2
  <2>a. /\ Awaited[1] = f /\ Len(Awaited) \in Nat /\ 1 \in 1..Len(Awaited)
    <3>1. to_swarm[1] = f
          BY <1>2, Zenon
    <3> QED
          BY <1>2, <3>1, Zenon DEF Awaited
  <2>0. PICK n \in 0..Len(probes) : \E m \in 0..n : \E g \in [1..n -> 1..Len(Awaited)] :
            /\ Lists(g, Awaited, Len(to_swarm), 0, m, n)
            /\ \A x \in 1..n : Awaited[g[x]].length = probes[x]
        BY Zenon DEF YamuxInv, ProbesInOrder
  <2>1. PICK m \in 0..n, g \in [1..n -> 1..Len(Awaited)] :
            /\ Lists(g, Awaited, Len(to_swarm), 0, m, n)
            /\ \A x \in 1..n : Awaited[g[x]].length = probes[x]
        BY <2>0, Zenon
  <2>2. Asks(Awaited[1], 0)
        BY <1>3, <2>a, Zenon DEF Asks
  <2>3. Len(probes) \in Nat /\ n \in Nat /\ n <= Len(probes)
    <3>1. Len(probes) \in Nat
          BY LenProperties, Zenon DEF YamuxInv, YamuxTypes
    <3> QED
          BY <3>1
  <2>4. /\ \A x \in 1..n : g[x] \in Nat /\ g[x] \in 1..Len(Awaited)
        /\ \A x \in 1..n, y \in 1..n : x < y => g[x] < g[y]
        /\ \A i \in 1..Len(Awaited) : Asks(Awaited[i], 0) => \E x \in 1..n : g[x] = i
    <3>1. Listed(g, Awaited, Len(to_swarm), 0, m, n)
          BY <2>a, <2>1, <2>3, ListsMeaning, Zenon
    <3> QED
          BY <3>1, Zenon DEF Listed
  <2>5. PICK x \in 1..n : g[x] = 1
        BY <2>a, <2>2, <2>4, Zenon
  <2>6. 1 \in 1..n /\ g[1] \in 1..Len(Awaited) /\ (1 < x => g[1] < g[x])
        BY <2>3, <2>4, <2>5
  <2>7. x = 1
        BY <2>a, <2>5, <2>6
  <2>8. Awaited[g[1]].length = probes[1]
        BY <2>1, <2>6, Zenon
  <2>9. Len(probes) >= 1
        BY <2>3, <2>6
  <2>10. f.length = probes[1]
        BY <2>a, <2>5, <2>7, <2>8, Zenon
  <2> QED
        BY <1>2, <1>3, <2>9, <2>10, Zenon
<1>4. CASE f.ty = "Data" /\ f.stream_id \in StreamId /\ f.flags = 0
  <2> DEFINE id == f.stream_id
  <2>2. spoken[id] = "ping"
    <3>1. to_swarm[1].stream_id = id /\ to_swarm[1].flags = encode_flags({})
          BY <1>2, <1>4, FlagValues, Zenon
    <3> QED
          BY <1>2, <1>4, <3>1, Zenon DEF YamuxInv, AnswersCounted
  <2>8. CASE f.payload = "empty"
        BY <1>2, <1>4, <2>2, <2>8, Zenon
  <2>9. SUFFICES ASSUME f.payload # "empty" PROVE unanswered[id] > 0
        BY <1>2, <1>4, <2>8, Zenon
  <2>1. Asks(InFlight[1], id)
        BY <1>2, <1>4, <2>9, FlagValues, Zenon DEF Asks
  <2>7. PICK n \in 0..unanswered[id] : \E m \in 0..n : \E g \in [1..n -> 1..Len(InFlight)] :
            Lists(g, InFlight, Len(to_swarm), id, m, n)
        BY <1>4, <2>2, Zenon DEF YamuxInv, AnswersCounted
  <2>3. PICK m \in 0..n, g \in [1..n -> 1..Len(InFlight)] :
            Lists(g, InFlight, Len(to_swarm), id, m, n)
        BY <2>7, Zenon
  <2>4. unanswered[id] \in Nat /\ n \in Nat /\ n <= unanswered[id]
    <3>1. unanswered[id] \in 0..MaxPings
          BY <1>4, Zenon DEF YamuxInv, YamuxTypes
    <3> QED
          BY <3>1
  <2>5. PICK x \in 1..n : g[x] = 1
    <3>1. Listed(g, InFlight, Len(to_swarm), id, m, n)
          BY <1>2, <2>3, <2>4, ListsMeaning, Zenon
    <3> QED
          BY <1>2, <2>1, <3>1, Zenon DEF Listed
  <2> QED
        BY <2>4, <2>5
<1>5. CASE f.ty = "Data" /\ f.stream_id \in StreamId /\ f.flags = 2
  <2>1. Opens(InFlight[1], f.stream_id)
        BY <1>2, <1>5, FlagValues, Zenon DEF Opens, Flagged
  <2>2. remote[f.stream_id] \in {"opening", "reset"} /\ f.payload = spoken[f.stream_id]
        BY <1>2, <1>5, <2>1 DEF YamuxInv, OpenedOnce
  <2> QED
        BY <1>2, <1>5, <2>2, Zenon
<1>6. CASE f.ty = "Data" /\ f.stream_id \in StreamId /\ f.flags = 4
  <2>1. Flagged(InFlight[1], f.stream_id, "Fin")
        BY <1>2, <1>6, FlagValues, Zenon DEF Flagged
  <2>2. remote[f.stream_id] = "closing"
        BY <1>2, <1>6, <2>1, Zenon DEF YamuxInv, OpenedOnce
  <2> QED
        BY <1>2, <1>6, <2>2, Zenon
<1> QED
      BY <1>2, <1>3, <1>4, <1>5, <1>6, ReplyCases, Zenon

\* What the swarm does with it.
LEMMA HearCases ==
    ASSUME YamuxInv, Hear,
           NEW f, f = Head(to_swarm)
    PROVE  \/ /\ f.ty = "Ping" /\ probes' = Tail(probes) /\ UNCHANGED <<remote, unanswered>>
           \/ /\ f.ty = "Data" /\ f.stream_id \in StreamId
              /\ remote[f.stream_id] = "reset" \/ (f.flags = 0 /\ f.payload = "empty")
              /\ UNCHANGED <<remote, unanswered, probes>>
           \/ /\ f.ty = "Data" /\ f.stream_id \in StreamId /\ f.flags = 2
              /\ remote[f.stream_id] = "opening"
              /\ remote' = [remote EXCEPT ![f.stream_id] = "open"]
              /\ UNCHANGED <<unanswered, probes>>
           \/ /\ f.ty = "Data" /\ f.stream_id \in StreamId /\ f.flags = 4
              /\ remote[f.stream_id] = "closing"
              /\ remote' = [remote EXCEPT ![f.stream_id] = "closed"]
              /\ UNCHANGED <<unanswered, probes>>
           \/ /\ f.ty = "Data" /\ f.stream_id \in StreamId /\ f.flags = 0
              /\ remote[f.stream_id] # "reset" /\ unanswered[f.stream_id] > 0 /\ f.payload # "empty"
              /\ unanswered' = [unanswered EXCEPT ![f.stream_id] = @ - 1]
              /\ UNCHANGED <<remote, probes>>
<1> DEFINE flags == decode_flags(f.flags)
           id == f.stream_id
<1>1. /\ remote' = IF f.ty = "Data" /\ remote[id] # "reset" /\ flags # {}
                   THEN [remote EXCEPT ![id] = IF flags = {"Ack"} THEN "open" ELSE "closed"]
                   ELSE remote
      /\ unanswered' = IF f.ty = "Data" /\ remote[id] # "reset" /\ flags = {} /\ f.payload # "empty"
                       THEN [unanswered EXCEPT ![id] = @ - 1] ELSE unanswered
      /\ probes' = IF f.ty = "Ping" THEN Tail(probes) ELSE probes
      BY Zenon DEF Hear
<1>2. CASE f.ty = "Ping"
      BY <1>1, <1>2, Zenon
<1>3. CASE f.ty = "Data" /\ id \in StreamId /\ remote[id] = "reset"
      BY <1>1, <1>3, Zenon
<1>4. CASE f.ty = "Data" /\ id \in StreamId /\ f.flags = 2 /\ remote[id] = "opening"
  <2>1. flags = {"Ack"}
        BY <1>4, FlagValues, Zenon
  <2>2. remote' = [remote EXCEPT ![id] = "open"] /\ UNCHANGED <<unanswered, probes>>
        BY <1>1, <1>4, <2>1, Zenon
  <2> QED
        BY <1>4, <2>2, Zenon
<1>5. CASE f.ty = "Data" /\ id \in StreamId /\ f.flags = 4 /\ remote[id] = "closing"
  <2>1. flags = {"Fin"}
        BY <1>5, FlagValues, Zenon
  <2>2. remote' = [remote EXCEPT ![id] = "closed"] /\ UNCHANGED <<unanswered, probes>>
        BY <1>1, <1>5, <2>1, Zenon
  <2> QED
        BY <1>5, <2>2, Zenon
<1>6. CASE /\ f.ty = "Data" /\ id \in StreamId /\ f.flags = 0 /\ unanswered[id] > 0
           /\ remote[id] # "reset" /\ f.payload # "empty"
  <2>1. flags = {}
        BY <1>6, FlagValues, Zenon
  <2>2. unanswered' = [unanswered EXCEPT ![id] = @ - 1] /\ UNCHANGED <<remote, probes>>
        BY <1>1, <1>6, <2>1, Zenon
  <2> QED
        BY <1>6, <2>2, Zenon
<1>7. CASE f.ty = "Data" /\ id \in StreamId /\ f.flags = 0 /\ f.payload = "empty"
  <2>1. flags = {}
        BY <1>7, FlagValues, Zenon
  <2> QED
        BY <1>1, <1>7, <2>1, Zenon
<1> QED
      BY <1>2, <1>3, <1>4, <1>5, <1>6, <1>7, FirstReply, Zenon DEF Hear

\* Every step keeps the types.
LEMMA YamuxNextTypes ==
    ASSUME YamuxInv, [YamuxNext]_yamuxVars
    PROVE  YamuxTypes'
<1> USE DEF nodeVars, swarmVars, yamuxVars
<1>0. /\ YamuxTypes
      /\ streams \subseteq [id : StreamId, protocol : Protocols]
      /\ link \in {"up", "closing", "down"} /\ peer_state \in BOOLEAN /\ writing \in BOOLEAN
      /\ remote \in [StreamId -> {"idle", "opening", "open", "closing", "closed", "reset"}]
      /\ spoken \in [StreamId -> Protocols]
      /\ unanswered \in [StreamId -> 0..MaxPings]
      /\ pinged \in [StreamId \cup {0} -> 0..MaxPings]
      /\ probes \in Seq(Opaque)
      /\ to_node \in Seq(RequestFrame) /\ to_swarm \in Seq(ReplyFrame)
      /\ Len(to_node) + Len(to_swarm) <= MaxInFlight
      BY Zenon DEF YamuxInv, YamuxTypes
<1>a. Len(to_node) \in Nat /\ Len(to_swarm) \in Nat
      BY <1>0, LenProperties, Zenon
<1>b. ASSUME NEW f \in RequestFrame, Say(f), to_swarm' = to_swarm
      PROVE  to_node' \in Seq(RequestFrame) /\ Len(to_node') + Len(to_swarm') <= MaxInFlight
  <2>1. to_node' \in Seq(RequestFrame) /\ Len(to_node') = Len(to_node) + 1
        BY <1>0, <1>b, AppendProperties, Zenon DEF Say
  <2>2. Len(to_node) + Len(to_swarm) < MaxInFlight
        BY <1>b, Zenon DEF Say
  <2> QED
        BY <1>a, <1>b, <2>1, <2>2
<1>1. CASE Process
      BY <1>0, <1>1, ProcessTypes, Zenon
<1>2. CASE OnDisconnectPeer
      BY <1>0, <1>2, Zenon DEF OnDisconnectPeer, YamuxTypes
<1>3. CASE LinkDown
  <2>1. <<>> \in Seq(RequestFrame) /\ Len(<<>>) = 0
        BY EmptySeq, Zenon
  <2>2. to_node' = <<>> /\ to_swarm' = to_swarm
        BY <1>3, Zenon DEF LinkDown
  <2>3. Len(to_node') + Len(to_swarm') <= MaxInFlight
        BY <1>0, <1>a, <2>1, <2>2
  <2>4. writing' \in BOOLEAN /\ link' \in {"up", "closing", "down"}
        BY <1>3, Zenon DEF LinkDown
  <2> QED
        BY <1>0, <1>3, <2>1, <2>3, <2>4, Zenon DEF LinkDown, YamuxTypes
<1>4. CASE Hear
  <2> DEFINE f == Head(to_swarm)
  <2>1. to_swarm # <<>> /\ to_swarm' = Tail(to_swarm)
        /\ UNCHANGED <<peer_state, streams, link, writing, to_node, spoken, pinged>>
        BY <1>4, Zenon DEF Hear
  <2>2. Tail(to_swarm) \in Seq(ReplyFrame) /\ Len(Tail(to_swarm)) = Len(to_swarm) - 1
        BY <1>0, <2>1, HeadTailProperties, Zenon
  <2>4. Len(to_node') + Len(to_swarm') <= MaxInFlight
    <3>1. Len(to_node') = Len(to_node) /\ Len(to_swarm') = Len(to_swarm) - 1
          BY <2>1, <2>2, Zenon
    <3> QED
          BY <1>0, <1>a, <3>1
  <2> HIDE DEF f
  <2>3. /\ remote' \in [StreamId -> {"idle", "opening", "open", "closing", "closed", "reset"}]
        /\ unanswered' \in [StreamId -> 0..MaxPings] /\ probes' \in Seq(Opaque)
    <3>1. CASE f.ty = "Ping" /\ probes' = Tail(probes) /\ UNCHANGED <<remote, unanswered>>
      <4>1. Len(probes) >= 1
            BY <2>1, <3>1, FirstReply, Zenon DEF f
      <4>2. probes # <<>>
            BY <4>1
      <4>3. Tail(probes) \in Seq(Opaque)
            BY <1>0, <4>2, HeadTailProperties, Zenon
      <4> QED
            BY <1>0, <3>1, <4>3, Zenon
    <3>2. CASE UNCHANGED <<remote, unanswered, probes>>
          BY <1>0, <3>2, Zenon
    <3>3. CASE /\ f.stream_id \in StreamId
               /\ \/ remote' = [remote EXCEPT ![f.stream_id] = "open"]
                  \/ remote' = [remote EXCEPT ![f.stream_id] = "closed"]
               /\ UNCHANGED <<unanswered, probes>>
          BY <1>0, <3>3, Zenon
    <3>4. CASE /\ f.stream_id \in StreamId /\ unanswered[f.stream_id] > 0
               /\ unanswered' = [unanswered EXCEPT ![f.stream_id] = @ - 1]
               /\ UNCHANGED <<remote, probes>>
      <4>1. unanswered[f.stream_id] - 1 \in 0..MaxPings
            BY <1>0, <3>4
      <4> QED
            BY <1>0, <3>4, <4>1, Zenon
    <3> QED
          BY <1>4, <3>1, <3>2, <3>3, <3>4, HearCases, Zenon DEF f
  <2> QED
        BY <1>0, <2>1, <2>2, <2>3, <2>4, Zenon DEF YamuxTypes
<1>5. ASSUME NEW id \in StreamId, Ping(id) PROVE YamuxTypes'
  <2>1. to_node' \in Seq(RequestFrame) /\ Len(to_node') + Len(to_swarm') <= MaxInFlight
        BY <1>5, <1>b, FramesTyped, Zenon DEF Ping
  <2>2. /\ pinged[id] \in 0..MaxPings /\ pinged[id] < MaxPings /\ unanswered[id] \in 0..MaxPings
        /\ unanswered[id] <= pinged[id]
        BY <1>0, <1>5, Zenon DEF Ping, YamuxInv, AnswersCounted
  <2>3. pinged[id] + 1 \in 0..MaxPings /\ unanswered[id] + 1 \in 0..MaxPings
        BY <2>2
  <2>4. /\ pinged' \in [StreamId \cup {0} -> 0..MaxPings]
        /\ unanswered' \in [StreamId -> 0..MaxPings]
        BY <1>0, <1>5, <2>2, <2>3, Zenon DEF Ping
  <2> QED
        BY <1>0, <1>5, <2>1, <2>4, Zenon DEF Ping, YamuxTypes
<1>6. ASSUME NEW id \in StreamId, NEW protocol \in Protocols, Open(id, protocol) PROVE YamuxTypes'
  <2>1. to_node' \in Seq(RequestFrame) /\ Len(to_node') + Len(to_swarm') <= MaxInFlight
        BY <1>6, <1>b, FramesTyped, Zenon DEF Open
  <2> QED
        BY <1>0, <1>6, <2>1, Zenon DEF Open, YamuxTypes
<1>7. ASSUME NEW id \in StreamId, NEW flag \in {"Fin", "Rst"}, Close(id, flag) PROVE YamuxTypes'
  <2>1. Data(id, {flag}, "empty") \in RequestFrame
        BY FramesTyped, Zenon
  <2>2. to_node' \in Seq(RequestFrame) /\ Len(to_node') + Len(to_swarm') <= MaxInFlight
        BY <1>7, <1>b, <2>1, Zenon DEF Close
  <2>3. remote' \in [StreamId -> {"idle", "opening", "open", "closing", "closed", "reset"}]
        BY <1>0, <1>7, Zenon DEF Close
  <2> QED
        BY <1>0, <1>7, <2>2, <2>3, Zenon DEF Close, YamuxTypes
<1>8. ASSUME NEW opaque \in Opaque, KeepAlive(opaque) PROVE YamuxTypes'
  <2>1. to_node' \in Seq(RequestFrame) /\ Len(to_node') + Len(to_swarm') <= MaxInFlight
        BY <1>8, <1>b, FramesTyped, Zenon DEF KeepAlive
  <2>2. probes' \in Seq(Opaque)
        BY <1>0, <1>8, AppendProperties, Zenon DEF KeepAlive
  <2>3. pinged[0] + 1 \in 0..MaxPings
        BY <1>0, <1>8 DEF KeepAlive
  <2>4. pinged' \in [StreamId \cup {0} -> 0..MaxPings]
        BY <1>0, <1>8, <2>3, Zenon DEF KeepAlive
  <2> QED
        BY <1>0, <1>8, <2>1, <2>2, <2>4, Zenon DEF KeepAlive, YamuxTypes
<1>11. CASE WriterEnds
  <2>1. writing' \in BOOLEAN
        BY <1>11, Zenon DEF WriterEnds
  <2> QED
        BY <1>0, <1>11, <2>1, Zenon DEF WriterEnds, YamuxTypes
<1>12. CASE Unwritten
  <2>1. to_swarm # <<>> /\ to_swarm' = SubSeq(to_swarm, 1, Len(to_swarm) - 1) /\ to_node' = to_node
        BY <1>12, Zenon DEF Unwritten
  <2>2. to_swarm' \in Seq(ReplyFrame) /\ Len(to_swarm') = Len(to_swarm) - 1
        BY <1>0, <2>1, AllButLast, Zenon DEF CutAt
  <2>3. Len(to_node') + Len(to_swarm') <= MaxInFlight
    <3>1. Len(to_node') = Len(to_node) /\ Len(to_swarm') = Len(to_swarm) - 1
          BY <2>1, <2>2, Zenon
    <3> QED
          BY <1>0, <1>a, <3>1
  <2> QED
        BY <1>0, <1>12, <2>2, <2>3, Zenon DEF Unwritten, YamuxTypes
<1>13. ASSUME NEW id \in StreamId, Update(id) PROVE YamuxTypes'
  <2>1. to_node' \in Seq(RequestFrame) /\ Len(to_node') + Len(to_swarm') <= MaxInFlight
        BY <1>13, <1>b, FramesTyped, Zenon DEF Update
  <2> QED
        BY <1>0, <1>13, <2>1, Zenon DEF Update, YamuxTypes
<1>9. CASE UNCHANGED yamuxVars
      BY <1>0, <1>9, Zenon DEF YamuxTypes
<1> QED
      BY <1>1, <1>2, <1>3, <1>4, <1>5, <1>6, <1>7, <1>8, <1>9, <1>11, <1>12, <1>13, Zenon DEF YamuxNext

-----------------------------------------------------------------------------
(* Yamux: a stream is opened once, and closed once. *)

\* OpenedOnce, for the stream id in state st that speaks sp, with the frames c in flight.
Once(c, id, st, sp) ==
    /\ st = "idle" => \A i \in 1..Len(c) : c[i].stream_id # id
    /\ \A i \in 1..Len(c) : Opens(c[i], id) =>
        /\ st \in {"opening", "reset"} /\ c[i].payload = sp
        /\ \A j \in 1..Len(c) : Opens(c[j], id) => i = j
    /\ \A i \in 1..Len(c) : Flagged(c[i], id, "Fin") =>
        /\ st = "closing"
        /\ \A j \in 1..Len(c) : Flagged(c[j], id, "Fin") => i = j

\* OpenedOnce, stream by stream.
LEMMA OpenedOnceIsOnce ==
    OpenedOnce <=> \A id \in StreamId : Once(InFlight, id, remote[id], spoken[id])
BY Zenon DEF OpenedOnce, Once

\* f opens, or closes, only what e does.
Follows(f, e) ==
    /\ f.stream_id = e.stream_id
    /\ \A id : Opens(f, id) => Opens(e, id) /\ f.payload = e.payload
    /\ \A id : Flagged(f, id, "Fin") => Flagged(e, id, "Fin")

\* Every frame of d follows one of c, and no two the same one.
LEMMA OnceKept ==
    ASSUME NEW c, NEW d, NEW id, NEW st, NEW sp, Once(c, id, st, sp),
           NEW phi \in [1..Len(d) -> 1..Len(c)],
           \A i \in 1..Len(d) : Follows(d[i], c[phi[i]]),
           \A i, j \in 1..Len(d) : phi[i] = phi[j] => i = j
    PROVE  Once(d, id, st, sp)
<1>1. st = "idle" => \A i \in 1..Len(d) : d[i].stream_id # id
      BY DEF Once, Follows
<1>2. ASSUME NEW i \in 1..Len(d), Opens(d[i], id)
      PROVE  /\ st \in {"opening", "reset"} /\ d[i].payload = sp
             /\ \A j \in 1..Len(d) : Opens(d[j], id) => i = j
  <2>1. Opens(c[phi[i]], id) /\ d[i].payload = c[phi[i]].payload
        BY <1>2, Zenon DEF Follows
  <2>2. \A j \in 1..Len(d) : Opens(d[j], id) => Opens(c[phi[j]], id)
        BY Zenon DEF Follows
  <2>3. st \in {"opening", "reset"} /\ c[phi[i]].payload = sp
        BY <2>1, Zenon DEF Once
  <2>4. \A j \in 1..Len(d) : Opens(d[j], id) => phi[i] = phi[j]
        BY <2>1, <2>2, Zenon DEF Once
  <2> QED
        BY <2>1, <2>3, <2>4, Zenon
<1>3. ASSUME NEW i \in 1..Len(d), Flagged(d[i], id, "Fin")
      PROVE  /\ st = "closing"
             /\ \A j \in 1..Len(d) : Flagged(d[j], id, "Fin") => i = j
  <2>1. Flagged(c[phi[i]], id, "Fin")
        BY <1>3, Zenon DEF Follows
  <2>2. \A j \in 1..Len(d) : Flagged(d[j], id, "Fin") => Flagged(c[phi[j]], id, "Fin")
        BY Zenon DEF Follows
  <2> QED
        BY <2>1, <2>2, Zenon DEF Once
<1> QED
      BY <1>1, <1>2, <1>3, Zenon DEF Once

\* When the first frame is taken, one is removed or replaced, or the last ones are cut off.
LEMMA OnceHeard ==
    ASSUME NEW c, NEW d, NEW id, NEW st, NEW sp, Once(c, id, st, sp),
           Len(c) \in Nat, Len(c) >= 1, Heard(c, d)
    PROVE  Once(d, id, st, sp)
<1> DEFINE phi == [i \in 1..Len(d) |-> i + 1]
<1>1. Len(d) = Len(c) - 1 /\ \A i \in 1..Len(d) : d[i] = c[i + 1]
      BY Zenon DEF Heard
<1>2. phi \in [1..Len(d) -> 1..Len(c)]
      BY <1>1
<1>3. \A i, j \in 1..Len(d) : phi[i] = phi[j] => i = j
      BY <1>1
<1>4. \A i \in 1..Len(d) : d[i] = c[phi[i]]
      BY <1>1, Zenon
<1>5. \A i \in 1..Len(d) : Follows(d[i], c[phi[i]])
      BY <1>4, Zenon DEF Follows
<1> HIDE DEF phi
<1> QED
      BY <1>2, <1>3, <1>5, OnceKept, Zenon

\* When the node takes a request it does not answer.
LEMMA OnceRemoved ==
    ASSUME NEW c, NEW d, NEW id, NEW st, NEW sp, Once(c, id, st, sp),
           Len(c) \in Nat, NEW k \in Nat, Removed(c, d, k)
    PROVE  Once(d, id, st, sp)
<1> DEFINE phi == [i \in 1..Len(d) |-> IF i <= k THEN i ELSE i + 1]
<1>1. /\ Len(d) = Len(c) - 1 /\ k < Len(c) /\ \A i \in 1..k : d[i] = c[i]
      /\ \A i \in (k + 1)..Len(d) : d[i] = c[i + 1]
      BY Zenon DEF Removed
<1>2. phi \in [1..Len(d) -> 1..Len(c)]
      BY <1>1
<1>3. \A i, j \in 1..Len(d) : phi[i] = phi[j] => i = j
      BY <1>1
<1>4. \A i \in 1..Len(d) : d[i] = c[phi[i]]
      BY <1>1
<1>5. \A i \in 1..Len(d) : Follows(d[i], c[phi[i]])
      BY <1>4, Zenon DEF Follows
<1> HIDE DEF phi
<1> QED
      BY <1>2, <1>3, <1>5, OnceKept, Zenon

\* When an answer takes the place of its request.
LEMMA OnceReplaced ==
    ASSUME NEW c, NEW d, NEW id, NEW st, NEW sp, Once(c, id, st, sp),
           Len(c) \in Nat, NEW k \in Nat, NEW f, Replaced(c, d, k, f), Follows(f, c[k + 1])
    PROVE  Once(d, id, st, sp)
<1> DEFINE phi == [i \in 1..Len(d) |-> i]
<1>1. /\ Len(d) = Len(c) /\ k < Len(c) /\ d[k + 1] = f
      /\ \A i \in 1..Len(c) : i # k + 1 => d[i] = c[i]
      BY Zenon DEF Replaced
<1>2. phi \in [1..Len(d) -> 1..Len(c)]
      BY <1>1, Zenon
<1>3. \A i, j \in 1..Len(d) : phi[i] = phi[j] => i = j
      BY <1>1, Zenon
<1>4. \A i \in 1..Len(d) : phi[i] = i /\ (i # k + 1 => d[i] = c[i])
      BY <1>1, Zenon
<1>5. ASSUME NEW i \in 1..Len(d) PROVE Follows(d[i], c[phi[i]])
  <2>1. CASE i = k + 1
        BY <1>1, <1>4, <2>1, Zenon
  <2>2. CASE i # k + 1
        BY <1>4, <2>2, Zenon DEF Follows
  <2> QED
        BY <2>1, <2>2, Zenon
<1> HIDE DEF phi
<1> QED
      BY <1>2, <1>3, <1>5, OnceKept, Zenon

\* When the requests that were not read are lost with the link.
LEMMA OnceCut ==
    ASSUME NEW c, NEW d, NEW id, NEW st, NEW sp, Once(c, id, st, sp),
           Len(c) \in Nat, NEW k \in Nat, k <= Len(c), CutAt(c, d, k)
    PROVE  Once(d, id, st, sp)
<1> DEFINE phi == [i \in 1..Len(d) |-> i]
<1>1. Len(d) = k /\ \A i \in 1..k : d[i] = c[i]
      BY Zenon DEF CutAt
<1>2. phi \in [1..Len(d) -> 1..Len(c)]
      BY <1>1
<1>3. \A i, j \in 1..Len(d) : phi[i] = phi[j] => i = j
      BY <1>1, Zenon
<1>4. \A i \in 1..Len(d) : d[i] = c[phi[i]]
      BY <1>1, Zenon
<1>5. \A i \in 1..Len(d) : Follows(d[i], c[phi[i]])
      BY <1>4, Zenon DEF Follows
<1> HIDE DEF phi
<1> QED
      BY <1>2, <1>3, <1>5, OnceKept, Zenon

\* When the swarm says something: of another stream, or neither an opening nor a FIN; when it
\* opens the stream; and when it ends it.
LEMMA OnceSaid ==
    ASSUME NEW c, NEW d, NEW f, NEW id, NEW st, NEW sp, Once(c, id, st, sp),
           Len(c) \in Nat, Said(c, d, f)
    PROVE  /\ (f.stream_id # id \/ (st # "idle" /\ ~Opens(f, id) /\ ~Flagged(f, id, "Fin")))
                => Once(d, id, st, sp)
           /\ st = "idle" /\ Flagged(f, id, "Syn") => Once(d, id, "opening", f.payload)
           /\ st = "open" /\ Flagged(f, id, "Fin") => Once(d, id, "closing", sp)
           /\ st \in {"opening", "open"} /\ Flagged(f, id, "Rst") => Once(d, id, "reset", sp)
<1>1. /\ Len(d) = Len(c) + 1 /\ d[Len(d)] = f
      /\ \A i \in 1..Len(c) : d[i] = c[i]
      BY Zenon DEF Said
<1>2. \A i \in 1..Len(d) : i \in 1..Len(c) \/ (i = Len(d) /\ d[i] = f)
      BY <1>1
<1>3. ASSUME f.stream_id # id \/ (st # "idle" /\ ~Opens(f, id) /\ ~Flagged(f, id, "Fin"))
      PROVE  Once(d, id, st, sp)
  <2>1. ~Opens(f, id) /\ ~Flagged(f, id, "Fin")
        BY <1>3, Zenon DEF Opens, Flagged
  <2> QED
        BY <1>1, <1>2, <1>3, <2>1, Zenon DEF Once
<1>4. ASSUME st = "idle", Flagged(f, id, "Syn")
      PROVE  Once(d, id, "opening", f.payload)
  <2>1. \A i \in 1..Len(c) : ~Opens(d[i], id) /\ ~Flagged(d[i], id, "Fin")
        BY <1>1, <1>4, Zenon DEF Once, Opens, Flagged
  <2>2. ~Flagged(f, id, "Fin")
        BY <1>4, FlagValues DEF Flagged
  <2> QED
        BY <1>1, <1>2, <2>1, <2>2, Zenon DEF Once
<1>5. ASSUME st = "open", Flagged(f, id, "Fin")
      PROVE  Once(d, id, "closing", sp)
  <2>1. \A i \in 1..Len(c) : ~Opens(d[i], id) /\ ~Flagged(d[i], id, "Fin")
        BY <1>1, <1>5, Zenon DEF Once
  <2>2. ~Opens(f, id)
        BY <1>5, FlagValues DEF Flagged, Opens
  <2> QED
        BY <1>1, <1>2, <2>1, <2>2, Zenon DEF Once
<1>6. ASSUME st \in {"opening", "open"}, Flagged(f, id, "Rst")
      PROVE  Once(d, id, "reset", sp)
  <2>1. ~Opens(f, id) /\ ~Flagged(f, id, "Fin")
        BY <1>6, FlagValues DEF Flagged, Opens
  <2> QED
        BY <1>1, <1>2, <1>6, <2>1, Zenon DEF Once
<1> QED
      BY <1>3, <1>4, <1>5, <1>6, Zenon

\* The node answers a in place of the request f: it says no more than f did.
Answered(a, f) ==
    /\ a \in ReplyFrame /\ Follows(a, f)
    /\ \A id : Asks(a, id) <=> Asks(f, id)
    /\ f.ty = "Ping" => a.length = f.length
    /\ a.ty = "Data" /\ a.flags = 0 => Protocol(a.stream_id) = {"ping"}

\* What Process does to the frames in flight: the request is gone, or an answer takes its place.
LEMMA ProcessFlight ==
    ASSUME YamuxTypes, Process,
           NEW f, f = Head(to_node)
    PROVE  \/ /\ to_swarm' = to_swarm /\ Removed(InFlight, InFlight', Len(to_swarm))
              /\ f.ty = "Ping" => ~writing
           \/ \E a \in ReplyFrame :
              /\ to_swarm' = to_swarm \o <<a>> /\ Answered(a, f)
              /\ Replaced(InFlight, InFlight', Len(to_swarm), a)
<1>1. /\ to_node \in Seq(RequestFrame) /\ to_node # <<>> /\ to_swarm \in Seq(ReplyFrame)
      /\ to_node' = Tail(to_node)
      BY Zenon DEF YamuxTypes, Process
<1>2. f \in RequestFrame
      BY <1>1, HeadTailProperties, Zenon
<1>3. Silent => to_swarm' = to_swarm /\ Removed(InFlight, InFlight', Len(to_swarm))
      BY <1>1, FlightRemoved, Zenon DEF Silent, InFlight
<1>4. ASSUME NEW a, Answered(a, f), Answers(a)
      PROVE  \E b \in ReplyFrame :
              /\ to_swarm' = to_swarm \o <<b>> /\ Answered(b, f)
              /\ Replaced(InFlight, InFlight', Len(to_swarm), b)
  <2>1. a \in ReplyFrame
        BY <1>4, Zenon DEF Answered
  <2>2. Replaced(InFlight, InFlight', Len(to_swarm), a)
        BY <1>1, <1>4, <2>1, FlightReplaced, Zenon DEF Answers, InFlight
  <2> QED
        BY <1>4, <2>1, <2>2, Zenon DEF Answers
<1>5. CASE f.ty = "Ping" /\ Answers(SessionPing({"Ack"}, f.length))
  <2> DEFINE a == SessionPing({"Ack"}, f.length)
  <2>1. f.length \in Opaque /\ f.stream_id = 0
        BY <1>2, <1>5, RequestCases, Zenon
  <2>2. a \in ReplyFrame /\ a.ty = "Ping" /\ a.stream_id = 0 /\ a.length = f.length
        BY <2>1, FramesTyped, FrameFields
  <2> HIDE DEF a
  <2>3. Answered(a, f)
        BY <1>5, <2>1, <2>2, Zenon DEF Answered, Follows, Opens, Flagged, Asks
  <2> QED
        BY <1>4, <1>5, <2>3, Zenon DEF a
<1>6. CASE f.ty = "Data" /\ f.flags = 1 /\ Answers(Data(f.stream_id, {"Ack"}, f.payload))
  <2> DEFINE a == Data(f.stream_id, {"Ack"}, f.payload)
  <2>1. f.payload \in Protocols /\ f.stream_id \in StreamId
        BY <1>2, <1>6, RequestCases
  <2>2. /\ a \in ReplyFrame /\ a.ty = "Data" /\ a.stream_id = f.stream_id
        /\ a.payload = f.payload /\ a.flags = 2
        BY <2>1, FramesTyped, FrameFields, FlagValues
  <2> HIDE DEF a
  <2>3. Answered(a, f)
        BY <1>6, <2>1, <2>2, FlagValues DEF Answered, Follows, Opens, Flagged, Asks
  <2> QED
        BY <1>4, <1>6, <2>3, Zenon DEF a
<1>7. CASE f.ty = "Data" /\ f.flags = 4 /\ Answers(Data(f.stream_id, {"Fin"}, "empty"))
  <2> DEFINE a == Data(f.stream_id, {"Fin"}, "empty")
  <2>1. f.stream_id \in StreamId
        BY <1>2, <1>7, RequestCases, Zenon
  <2>2. a \in ReplyFrame /\ a.ty = "Data" /\ a.stream_id = f.stream_id /\ a.flags = 4
        BY <2>1, FramesTyped, FrameFields, FlagValues
  <2> HIDE DEF a
  <2>3. Answered(a, f)
        BY <1>7, <2>1, <2>2, FlagValues DEF Answered, Follows, Opens, Flagged, Asks
  <2> QED
        BY <1>4, <1>7, <2>3, Zenon DEF a
<1>8. CASE /\ f.ty # "Ping" /\ f.flags = 0 /\ Protocol(f.stream_id) = {"ping"}
           /\ Answers(Data(f.stream_id, {}, f.payload))
  <2> DEFINE a == Data(f.stream_id, {}, f.payload)
  <2>1. f.stream_id \in StreamId /\ f.payload \in {"payload", "empty"}
        BY <1>2, <1>8, RequestCases
  <2>2. /\ a \in ReplyFrame /\ a.ty = "Data" /\ a.stream_id = f.stream_id
        /\ a.flags = 0 /\ a.payload = f.payload
        BY <2>1, FramesTyped, FrameFields, FlagValues
  <2> HIDE DEF a
  <2>3. Answered(a, f)
        BY <1>8, <2>1, <2>2, FlagValues DEF Answered, Follows, Opens, Flagged, Asks
  <2> QED
        BY <1>4, <1>8, <2>3, Zenon DEF a
<1>9. CASE Silent /\ (f.ty = "Ping" => ~writing)
      BY <1>3, <1>9, Zenon
<1> QED
      BY <1>5, <1>6, <1>7, <1>8, <1>9, ProcessCases, Zenon

\* What is known before a step about the frames in flight.
LEMMA FlightNow ==
    ASSUME YamuxTypes
    PROVE  /\ to_node \in Seq(RequestFrame) /\ to_swarm \in Seq(ReplyFrame)
           /\ Len(to_swarm) \in Nat /\ Len(to_node) \in Nat
           /\ Len(InFlight) \in Nat /\ Len(InFlight) = Len(to_swarm) + Len(to_node)
           /\ \A i \in 1..Len(to_swarm) : i \in 1..Len(InFlight) /\ InFlight[i] = to_swarm[i]
           /\ \A i \in 1..Len(to_node) :
                Len(to_swarm) + i \in 1..Len(InFlight) /\ InFlight[Len(to_swarm) + i] = to_node[i]
           /\ to_node # <<>> => InFlight[Len(to_swarm) + 1] = Head(to_node) /\ Len(to_node) >= 1
           /\ to_swarm # <<>> => InFlight[1] = Head(to_swarm) /\ Len(to_swarm) >= 1
<1>1. to_node \in Seq(RequestFrame) /\ to_swarm \in Seq(ReplyFrame)
      BY Zenon DEF YamuxTypes
<1>2. /\ Len(to_swarm) \in Nat /\ Len(to_node) \in Nat
      /\ Len(InFlight) = Len(to_swarm) + Len(to_node)
      /\ \A i \in 1..Len(to_swarm) : InFlight[i] = to_swarm[i]
      /\ \A i \in 1..Len(to_node) : InFlight[Len(to_swarm) + i] = to_node[i]
      BY <1>1, FlightParts, Zenon DEF InFlight
<1>3. to_node # <<>> => InFlight[Len(to_swarm) + 1] = Head(to_node) /\ Len(to_node) >= 1
      BY <1>1, FlightRemoved, Zenon DEF InFlight
<1>4. to_swarm # <<>> => InFlight[1] = Head(to_swarm) /\ Len(to_swarm) >= 1
      BY <1>1, FlightHeard, Zenon DEF InFlight
<1> QED
      BY <1>1, <1>2, <1>3, <1>4

\* Every step keeps OpenedOnce.
LEMMA YamuxNextOpened ==
    ASSUME YamuxInv, [YamuxNext]_yamuxVars
    PROVE  OpenedOnce'
<1> USE DEF nodeVars, swarmVars, yamuxVars
<1> DEFINE c == InFlight
           d == InFlight'
<1>0. /\ YamuxTypes /\ remote \in [StreamId -> {"idle", "opening", "open", "closing", "closed", "reset"}]
      /\ spoken \in [StreamId -> Protocols]
      /\ to_node \in Seq(RequestFrame) /\ to_swarm \in Seq(ReplyFrame)
      /\ Len(c) \in Nat /\ Len(to_swarm) \in Nat /\ Len(to_swarm) <= Len(c)
      BY FlightNow DEF YamuxInv, YamuxTypes
<1>a. \A id \in StreamId : Once(c, id, remote[id], spoken[id])
      BY OpenedOnceIsOnce, Zenon DEF YamuxInv
<1>b. SUFFICES ASSUME NEW id \in StreamId PROVE Once(d, id, remote'[id], spoken'[id])
  <2>1. OpenedOnce' <=> \A id \in StreamId : Once(d, id, remote'[id], spoken'[id])
        BY Zenon DEF OpenedOnce, Once
  <2> QED
        BY <2>1, Zenon
<1>c. Once(c, id, remote[id], spoken[id])
      BY <1>a, Zenon
<1> HIDE DEF c, d
<1>1. CASE Process
  <2> DEFINE f == Head(to_node)
  <2>1. UNCHANGED <<remote, spoken>> /\ to_node # <<>>
        BY <1>1, Zenon DEF Process
  <2>2. c[Len(to_swarm) + 1] = f
        BY <1>0, <2>1, FlightNow, Zenon DEF c
  <2> HIDE DEF f
  <2>3. CASE Removed(c, d, Len(to_swarm))
        BY <1>0, <1>c, <2>1, <2>3, OnceRemoved, Zenon
  <2>4. CASE \E a \in ReplyFrame : Answered(a, f) /\ Replaced(c, d, Len(to_swarm), a)
    <3>1. PICK a \in ReplyFrame : Answered(a, f) /\ Replaced(c, d, Len(to_swarm), a)
          BY <2>4, Zenon
    <3>2. Follows(a, c[Len(to_swarm) + 1])
          BY <2>2, <3>1, Zenon DEF Answered
    <3> QED
          BY <1>0, <1>c, <2>1, <3>1, <3>2, OnceReplaced, Zenon
  <2> QED
        BY <1>0, <1>1, <2>3, <2>4, ProcessFlight, Zenon DEF c, d, f
<1>2. CASE OnDisconnectPeer
      BY <1>2, <1>c, Zenon DEF OnDisconnectPeer, c, d, InFlight
<1>3. CASE LinkDown
  <2>1. CutAt(c, d, Len(to_swarm)) /\ UNCHANGED <<remote, spoken>>
        BY <1>0, <1>3, FlightCut, Zenon DEF LinkDown, c, d, InFlight
  <2> QED
        BY <1>0, <1>c, <2>1, OnceCut, Zenon
<1>4. CASE Hear
  <2> DEFINE f == Head(to_swarm)
  <2>1. /\ to_swarm # <<>> /\ to_swarm' = Tail(to_swarm) /\ UNCHANGED <<to_node, spoken>>
        BY <1>4, Zenon DEF Hear
  <2>2. Heard(c, d) /\ Len(c) >= 1 /\ c[1] = f
    <3>1. Heard(c, d) /\ c[1] = f
          BY <1>0, <2>1, FlightHeard, Zenon DEF c, d, InFlight
    <3>2. Len(to_swarm) >= 1
          BY <1>0, <2>1, FlightNow, Zenon
    <3> QED
          BY <1>0, <3>1, <3>2
  <2>3. Once(d, id, remote[id], spoken[id])
        BY <1>0, <1>c, <2>2, OnceHeard, Zenon
  <2> HIDE DEF f
  <2>4. /\ Len(d) \in Nat /\ Len(d) = Len(c) - 1
        /\ \A i \in 1..Len(d) : d[i] = c[i + 1] /\ i + 1 \in 1..Len(c) /\ i + 1 # 1
        BY <1>0, <2>2 DEF Heard
  <2>5. 1 \in 1..Len(c)
        BY <1>0, <2>2
  <2>6. CASE /\ f.ty = "Data" /\ f.stream_id = id /\ f.flags = 2
             /\ remote[id] = "opening" /\ remote' = [remote EXCEPT ![id] = "open"]
    <3>1. Opens(c[1], id)
          BY <2>2, <2>6, FlagValues, Zenon DEF Opens, Flagged
    <3>2. \A i \in 1..Len(d) : ~Opens(d[i], id)
          BY <1>c, <2>4, <2>5, <3>1, Zenon DEF Once
    <3>3. \A i \in 1..Len(d) : ~Flagged(d[i], id, "Fin")
          BY <2>3, <2>6, Zenon DEF Once
    <3>4. remote'[id] = "open"
          BY <1>0, <2>6, Zenon
    <3> QED
          BY <3>2, <3>3, <3>4, Zenon DEF Once
  <2>7. CASE /\ f.ty = "Data" /\ f.stream_id = id /\ f.flags = 4
             /\ remote[id] = "closing" /\ remote' = [remote EXCEPT ![id] = "closed"]
    <3>1. Flagged(c[1], id, "Fin")
          BY <2>2, <2>7, FlagValues, Zenon DEF Flagged
    <3>2. \A i \in 1..Len(d) : ~Flagged(d[i], id, "Fin")
          BY <1>c, <2>4, <2>5, <3>1, Zenon DEF Once
    <3>3. \A i \in 1..Len(d) : ~Opens(d[i], id)
          BY <2>3, <2>7, Zenon DEF Once
    <3>4. remote'[id] = "closed"
          BY <1>0, <2>7, Zenon
    <3> QED
          BY <3>2, <3>3, <3>4, Zenon DEF Once
  <2>8. CASE remote'[id] = remote[id]
        BY <2>1, <2>3, <2>8, Zenon
  <2>9. \/ remote' = remote
        \/ /\ f.ty = "Data" /\ f.stream_id \in StreamId /\ f.flags = 2
           /\ remote[f.stream_id] = "opening" /\ remote' = [remote EXCEPT ![f.stream_id] = "open"]
        \/ /\ f.ty = "Data" /\ f.stream_id \in StreamId /\ f.flags = 4
           /\ remote[f.stream_id] = "closing" /\ remote' = [remote EXCEPT ![f.stream_id] = "closed"]
        BY <1>4, HearCases, Zenon DEF f
  <2>10. \/ remote'[id] = remote[id]
         \/ /\ f.ty = "Data" /\ f.stream_id = id /\ f.flags = 2
            /\ remote[id] = "opening" /\ remote' = [remote EXCEPT ![id] = "open"]
         \/ /\ f.ty = "Data" /\ f.stream_id = id /\ f.flags = 4
            /\ remote[id] = "closing" /\ remote' = [remote EXCEPT ![id] = "closed"]
         BY <1>0, <2>9, Zenon
  <2> QED
        BY <2>6, <2>7, <2>8, <2>10, Zenon
<1>5. ASSUME NEW i \in StreamId, Ping(i) PROVE Once(d, id, remote'[id], spoken'[id])
  <2> DEFINE f == Data(i, {}, "payload")
  <2>1. Said(c, d, f) /\ UNCHANGED <<remote, spoken>> /\ remote[i] # "idle"
        BY <1>0, <1>5, FramesTyped, FlightSaid, Zenon DEF Ping, Say, c, d, InFlight
  <2>2. f.stream_id = i /\ f.flags = 0
        BY FrameFields, FlagValues
  <2> HIDE DEF f
  <2>3. ~Opens(f, id) /\ ~Flagged(f, id, "Fin")
        BY <2>2, FlagValues DEF Opens, Flagged
  <2> QED
        BY <1>0, <1>c, <2>1, <2>2, <2>3, OnceSaid, Zenon
<1>6. ASSUME NEW i \in StreamId, NEW protocol \in Protocols, Open(i, protocol)
      PROVE  Once(d, id, remote'[id], spoken'[id])
  <2> DEFINE f == Data(i, {"Syn"}, protocol)
  <2>1. /\ Said(c, d, f) /\ remote[i] = "idle"
        /\ remote' = [remote EXCEPT ![i] = "opening"] /\ spoken' = [spoken EXCEPT ![i] = protocol]
        BY <1>0, <1>6, FramesTyped, FlightSaid, Zenon DEF Open, Say, c, d, InFlight
  <2>2. f.stream_id = i /\ f.payload = protocol /\ Flagged(f, i, "Syn")
        BY FrameFields DEF Flagged
  <2> HIDE DEF f
  <2>3. CASE i = id
    <3>1. remote'[id] = "opening" /\ spoken'[id] = f.payload /\ remote[id] = "idle"
          BY <1>0, <2>1, <2>2, <2>3, Zenon
    <3> QED
          BY <1>0, <1>c, <2>1, <2>2, <2>3, <3>1, OnceSaid, Zenon
  <2>4. CASE i # id
    <3>1. remote'[id] = remote[id] /\ spoken'[id] = spoken[id]
          BY <1>0, <2>1, <2>4, Zenon
    <3> QED
          BY <1>0, <1>c, <2>1, <2>2, <2>4, <3>1, OnceSaid, Zenon
  <2> QED
        BY <2>3, <2>4, Zenon
<1>7. ASSUME NEW i \in StreamId, NEW flag \in {"Fin", "Rst"}, Close(i, flag)
      PROVE  Once(d, id, remote'[id], spoken'[id])
  <2> DEFINE f == Data(i, {flag}, "empty")
  <2>1. f \in RequestFrame
        BY FramesTyped, Zenon
  <2>2. f.stream_id = i /\ Flagged(f, i, flag)
        BY FrameFields DEF Flagged
  <2>3. to_node' = Append(to_node, f) /\ to_swarm' = to_swarm
        BY <1>7, Zenon DEF Close, Say
  <2> HIDE DEF f
  <2>4. Said(c, d, f)
        BY <1>0, <2>1, <2>3, FlightSaid, Zenon DEF c, d, InFlight
  <2>5. /\ remote[i] \in {"opening", "open"} /\ (flag = "Fin" => remote[i] = "open")
        /\ remote' = [remote EXCEPT ![i] = IF flag = "Fin" THEN "closing" ELSE "reset"]
        /\ spoken' = spoken
        BY <1>7, Zenon DEF Close
  <2>6. CASE i = id
    <3>1. CASE flag = "Fin"
      <4>1. remote'[id] = "closing" /\ remote[id] = "open" /\ spoken'[id] = spoken[id]
            BY <1>0, <2>5, <2>6, <3>1, Zenon
      <4>2. Flagged(f, id, "Fin")
            BY <2>2, <2>6, <3>1, Zenon
      <4> QED
            BY <1>0, <1>c, <2>4, <4>1, <4>2, OnceSaid, Zenon
    <3>2. CASE flag = "Rst"
      <4>1. remote'[id] = "reset" /\ remote[id] \in {"opening", "open"} /\ spoken'[id] = spoken[id]
            BY <1>0, <2>5, <2>6, <3>2, Zenon
      <4>2. Flagged(f, id, "Rst")
            BY <2>2, <2>6, <3>2, Zenon
      <4> QED
            BY <1>0, <1>c, <2>4, <4>1, <4>2, OnceSaid, Zenon
    <3> QED
          BY <3>1, <3>2, Zenon
  <2>7. CASE i # id
    <3>1. remote'[id] = remote[id] /\ spoken'[id] = spoken[id]
          BY <1>0, <2>5, <2>7, Zenon
    <3> QED
          BY <1>0, <1>c, <2>2, <2>4, <2>7, <3>1, OnceSaid, Zenon
  <2> QED
        BY <2>6, <2>7, Zenon
<1>8. ASSUME NEW opaque \in Opaque, KeepAlive(opaque) PROVE Once(d, id, remote'[id], spoken'[id])
  <2> DEFINE f == SessionPing({"Syn"}, opaque)
  <2>1. Said(c, d, f) /\ UNCHANGED <<remote, spoken>>
        BY <1>0, <1>8, FramesTyped, FlightSaid, Zenon DEF KeepAlive, Say, c, d, InFlight
  <2>2. f.stream_id = 0
        BY FrameFields
  <2> HIDE DEF f
  <2> QED
        BY <1>0, <1>c, <2>1, <2>2, OnceSaid, Zenon
<1>11. CASE WriterEnds
      BY <1>11, <1>c, Zenon DEF WriterEnds, c, d, InFlight
<1>12. CASE Unwritten
  <2>1. /\ to_swarm # <<>> /\ to_swarm' = SubSeq(to_swarm, 1, Len(to_swarm) - 1)
        /\ UNCHANGED <<to_node, remote, spoken>>
        BY <1>12, Zenon DEF Unwritten
  <2>2. Removed(c, d, Len(to_swarm) - 1) /\ Len(to_swarm) - 1 \in Nat
        BY <1>0, <2>1, AllButLast, FlightUnwritten, Zenon DEF c, d, InFlight
  <2> QED
        BY <1>0, <1>c, <2>1, <2>2, OnceRemoved, Zenon
<1>13. ASSUME NEW i \in StreamId, Update(i) PROVE Once(d, id, remote'[id], spoken'[id])
  <2> DEFINE f == WindowUpdate(i)
  <2>1. Said(c, d, f) /\ UNCHANGED <<remote, spoken>> /\ remote[i] # "idle"
        BY <1>0, <1>13, FramesTyped, FlightSaid, Zenon DEF Update, Say, c, d, InFlight
  <2>2. f.stream_id = i /\ f.ty = "WindowUpdate"
        BY FrameFields, Zenon
  <2> HIDE DEF f
  <2>3. ~Opens(f, id) /\ ~Flagged(f, id, "Fin")
        BY <2>2, Zenon DEF Opens, Flagged
  <2> QED
        BY <1>0, <1>c, <2>1, <2>2, <2>3, OnceSaid, Zenon
<1>9. CASE UNCHANGED yamuxVars
      BY <1>9, <1>c, Zenon DEF c, d, InFlight
<1> QED
      BY <1>1, <1>2, <1>3, <1>4, <1>5, <1>6, <1>7, <1>8, <1>9, <1>11, <1>12, <1>13, Zenon DEF YamuxNext

-----------------------------------------------------------------------------
(* Yamux: the end of a stream is the last the swarm says on it, and the node's *)
(* streams follow the swarm's.                                                 *)

\* EndIsLast, for the stream id in state st, with the frames r on their way to the node.
Last(r, id, st) == \A i \in 1..Len(r) : Ends(r[i], id) =>
    /\ st = IF Flagged(r[i], id, "Fin") THEN "closing" ELSE "reset"
    /\ \A j \in (i + 1)..Len(r) : r[j].stream_id # id

\* Announced, with the node's streams ss.
Known(r, ss, id) ==
    (\E s \in ss : s.id = id) \/ \E i \in 1..Len(r) : Flagged(r[i], id, "Syn")

\* What StreamsFollow says of the stream while the connection is up.
Follow(r, ss, id, st) ==
    /\ st \in {"opening", "open"} => Known(r, ss, id)
    /\ Known(r, ss, id) => st \in {"opening", "open"} \/ \E i \in 1..Len(r) : Ends(r[i], id)

\* The frames to the node alone, when the swarm says f and when the node takes the first.
LEMMA NodeSaid ==
    ASSUME NEW r \in Seq(RequestFrame), NEW f \in RequestFrame
    PROVE  Len(r) \in Nat /\ Said(r, Append(r, f), f)
BY AppendProperties, LenProperties DEF Said

\* The frame the node takes is the first one on its way to it.
LEMMA NodeHeard ==
    ASSUME NEW r \in Seq(RequestFrame), r # <<>>
    PROVE  Len(r) \in Nat /\ Len(r) >= 1 /\ Head(r) = r[1] /\ Heard(r, Tail(r))
<1>1. /\ Len(Tail(r)) = Len(r) - 1 /\ Len(r) >= 1 /\ Head(r) = r[1]
      /\ \A i \in 1..Len(Tail(r)) : Tail(r)[i] = r[i + 1]
  <2>1. <<>> \in Seq(ReplyFrame)
        BY EmptySeq, Zenon
  <2> QED
        BY <2>1, FlightRemoved, Zenon
<1>2. Len(r) \in Nat
      BY LenProperties, Zenon
<1> QED
      BY <1>1, <1>2, Zenon DEF Heard

\* When the swarm's side sends one more frame f.
LEMMA LastSaid ==
    ASSUME NEW r, NEW q, NEW f, NEW id, NEW st, Last(r, id, st),
           Len(r) \in Nat, Said(r, q, f)
    PROVE  /\ (f.stream_id # id \/ (st \notin {"closing", "reset"} /\ ~Ends(f, id)))
                => \A su : (su = st \/ st \notin {"closing", "reset"}) => Last(q, id, su)
           /\ st \notin {"closing", "reset"} /\ Flagged(f, id, "Fin") => Last(q, id, "closing")
           /\ st \notin {"closing", "reset"} /\ Flagged(f, id, "Rst") => Last(q, id, "reset")
<1>1. /\ Len(q) = Len(r) + 1 /\ q[Len(q)] = f
      /\ \A i \in 1..Len(r) : q[i] = r[i]
      BY Zenon DEF Said
<1>2. ASSUME NEW i \in 1..Len(q) PROVE (i \in 1..Len(r) /\ q[i] = r[i]) \/ (i = Len(q) /\ q[i] = f)
      BY <1>1
<1>3. st \notin {"closing", "reset"} => \A i \in 1..Len(r) : ~Ends(r[i], id)
      BY Zenon DEF Last
<1>4. ASSUME f.stream_id # id \/ (st \notin {"closing", "reset"} /\ ~Ends(f, id)),
             NEW su, su = st \/ st \notin {"closing", "reset"}
      PROVE  Last(q, id, su)
  <2>1. ~Ends(f, id)
        BY <1>4, Zenon DEF Ends, Flagged
  <2>2. SUFFICES ASSUME NEW i \in 1..Len(q), Ends(q[i], id)
                 PROVE  /\ su = IF Flagged(q[i], id, "Fin") THEN "closing" ELSE "reset"
                        /\ \A j \in (i + 1)..Len(q) : q[j].stream_id # id
        BY Zenon DEF Last
  <2>3. i \in 1..Len(r) /\ q[i] = r[i] /\ Ends(r[i], id)
        BY <1>2, <2>1, <2>2, Zenon
  <2>4. st \in {"closing", "reset"} /\ su = st /\ f.stream_id # id
        BY <1>3, <1>4, <2>3, Zenon
  <2>5. /\ st = IF Flagged(r[i], id, "Fin") THEN "closing" ELSE "reset"
        /\ \A j \in (i + 1)..Len(r) : r[j].stream_id # id
        BY <2>3, Zenon DEF Last
  <2>6. ASSUME NEW j \in (i + 1)..Len(q) PROVE q[j].stream_id # id
    <3>1. j \in 1..Len(q) /\ (j = Len(q) \/ j \in (i + 1)..Len(r))
          BY <1>1, <2>3
    <3> QED
          BY <1>1, <2>3, <2>4, <2>5, <3>1
  <2> QED
        BY <2>3, <2>4, <2>5, <2>6, Zenon
<1>5. ASSUME st \notin {"closing", "reset"}, NEW su, Ends(f, id),
             su = IF Flagged(f, id, "Fin") THEN "closing" ELSE "reset"
      PROVE  Last(q, id, su)
  <2>2. SUFFICES ASSUME NEW i \in 1..Len(q), Ends(q[i], id)
                 PROVE  /\ su = IF Flagged(q[i], id, "Fin") THEN "closing" ELSE "reset"
                        /\ \A j \in (i + 1)..Len(q) : q[j].stream_id # id
        BY Zenon DEF Last
  <2>3. i = Len(q) /\ q[i] = f
        BY <1>2, <1>3, <1>5, <2>2, Zenon
  <2>4. \A j \in (i + 1)..Len(q) : FALSE
        BY <1>1, <2>3
  <2> QED
        BY <1>5, <2>3, <2>4, Zenon
<1>6. Flagged(f, id, "Rst") => ~Flagged(f, id, "Fin")
      BY FlagValues DEF Flagged
<1> QED
      BY <1>4, <1>5, <1>6, Zenon DEF Ends

\* When the node takes the first frame.
LEMMA LastHeard ==
    ASSUME NEW r, NEW q, NEW id, NEW st, Last(r, id, st), Len(r) \in Nat, Len(r) >= 1, Heard(r, q)
    PROVE  /\ Last(q, id, st)
           /\ Ends(r[1], id) => \A i \in 1..Len(q) : q[i].stream_id # id
<1>1. Len(q) = Len(r) - 1 /\ \A i \in 1..Len(q) : q[i] = r[i + 1]
      BY Zenon DEF Heard
<1>2. ASSUME NEW i \in 1..Len(q), Ends(q[i], id)
      PROVE  /\ st = IF Flagged(q[i], id, "Fin") THEN "closing" ELSE "reset"
             /\ \A j \in (i + 1)..Len(q) : q[j].stream_id # id
  <2>1. i + 1 \in 1..Len(r) /\ q[i] = r[i + 1]
        BY <1>1
  <2>2. /\ st = IF Flagged(r[i + 1], id, "Fin") THEN "closing" ELSE "reset"
        /\ \A j \in ((i + 1) + 1)..Len(r) : r[j].stream_id # id
        BY <1>2, <2>1, Zenon DEF Last
  <2>3. ASSUME NEW j \in (i + 1)..Len(q) PROVE q[j].stream_id # id
    <3>1. j \in 1..Len(q) /\ j + 1 \in ((i + 1) + 1)..Len(r)
          BY <1>1
    <3> QED
          BY <1>1, <2>2, <3>1, Zenon
  <2> QED
        BY <2>1, <2>2, <2>3, Zenon
<1>3. ASSUME Ends(r[1], id), NEW i \in 1..Len(q) PROVE q[i].stream_id # id
  <2>1. 1 \in 1..Len(r) /\ i + 1 \in (1 + 1)..Len(r) /\ q[i] = r[i + 1]
        BY <1>1
  <2> QED
        BY <1>3, <2>1, Zenon DEF Last
<1> QED
      BY <1>2, <1>3, Zenon DEF Last

\* When the swarm's side sends one more frame f.
LEMMA FollowSaid ==
    ASSUME NEW r, NEW q, NEW f, NEW ss, NEW id, NEW st, Follow(r, ss, id, st),
           Len(r) \in Nat, Said(r, q, f)
    PROVE  /\ ~Flagged(f, id, "Syn") /\ ~Ends(f, id) => Follow(q, ss, id, st)
           /\ Flagged(f, id, "Syn") => Follow(q, ss, id, "opening")
           /\ Ends(f, id) => Follow(q, ss, id, "closing") /\ Follow(q, ss, id, "reset")
<1>1. /\ Len(q) \in 1..Len(q) /\ q[Len(q)] = f
      /\ \A i \in 1..Len(r) : i \in 1..Len(q) /\ q[i] = r[i]
      /\ \A i \in 1..Len(q) : i \in 1..Len(r) \/ i = Len(q)
      BY DEF Said
<1> QED
      BY <1>1, Zenon DEF Follow, Known

\* When the node takes the first frame f, and has the streams ts after it.
LEMMA FollowHeard ==
    ASSUME NEW r, NEW q, NEW ss, NEW ts, NEW id, NEW st, Follow(r, ss, id, st), Last(r, id, st),
           Len(r) \in Nat, Len(r) >= 1, Heard(r, q),
           \/ /\ ~Flagged(r[1], id, "Syn") /\ ~Ends(r[1], id)
              /\ (\E s \in ts : s.id = id) <=> (\E s \in ss : s.id = id)
           \/ Flagged(r[1], id, "Syn") /\ \E s \in ts : s.id = id
           \/ Ends(r[1], id) /\ \A s \in ts : s.id # id
    PROVE  Follow(q, ts, id, st)
<1>1. Len(q) = Len(r) - 1 /\ \A i \in 1..Len(q) : q[i] = r[i + 1]
      BY Zenon DEF Heard
<1>2. /\ 1 \in 1..Len(r) /\ \A i \in 1..Len(q) : i + 1 \in 1..Len(r)
      /\ \A i \in 1..Len(r) : i = 1 \/ (i - 1 \in 1..Len(q) /\ r[i] = q[i - 1])
      BY <1>1
<1>3. CASE ~Flagged(r[1], id, "Syn") /\ ~Ends(r[1], id)
           /\ ((\E s \in ts : s.id = id) <=> (\E s \in ss : s.id = id))
  <2>1. (\E i \in 1..Len(q) : Flagged(q[i], id, "Syn")) <=> \E i \in 1..Len(r) : Flagged(r[i], id, "Syn")
        BY <1>1, <1>2, <1>3, Zenon
  <2>2. (\E i \in 1..Len(q) : Ends(q[i], id)) <=> \E i \in 1..Len(r) : Ends(r[i], id)
        BY <1>1, <1>2, <1>3, Zenon
  <2> QED
        BY <1>3, <2>1, <2>2, Zenon DEF Follow, Known
<1>4. CASE Flagged(r[1], id, "Syn") /\ \E s \in ts : s.id = id
  <2>1. ~Ends(r[1], id)
    <3>1. r[1].flags = 1 /\ encode_flags({"Fin"}) # 1 /\ encode_flags({"Rst"}) # 1
          BY <1>4, FlagValues DEF Flagged
    <3> QED
          BY <3>1, Zenon DEF Ends, Flagged
  <2>2. (\E i \in 1..Len(q) : Ends(q[i], id)) <=> \E i \in 1..Len(r) : Ends(r[i], id)
        BY <1>1, <1>2, <2>1, Zenon
  <2>3. Known(r, ss, id)
        BY <1>2, <1>4, Zenon DEF Known
  <2> QED
        BY <1>4, <2>2, <2>3, Zenon DEF Follow, Known
<1>5. CASE Ends(r[1], id) /\ \A s \in ts : s.id # id
  <2>1. \A i \in 1..Len(q) : ~Flagged(q[i], id, "Syn")
        BY <1>5, LastHeard, Zenon DEF Flagged
  <2>2. st \in {"closing", "reset"}
        BY <1>2, <1>5, Zenon DEF Last
  <2> QED
        BY <1>5, <2>1, <2>2, Zenon DEF Follow, Known
<1> QED
      BY <1>3, <1>4, <1>5, Zenon

\* Once the node has answered the FIN of a stream, no end of it is on its way.
LEMMA NoEndLeft ==
    ASSUME YamuxInv, to_swarm # <<>>, NEW f, f = Head(to_swarm), f.ty = "Data", f.flags = 4,
           f.stream_id \in StreamId
    PROVE  \A i \in 1..Len(to_node) : ~Ends(to_node[i], f.stream_id)
<1> DEFINE id == f.stream_id
           k == Len(to_swarm)
<1>1. /\ k \in Nat /\ k >= 1 /\ InFlight[1] = f /\ 1 \in 1..Len(InFlight)
      /\ \A i \in 1..Len(to_node) : k + i \in 1..Len(InFlight) /\ InFlight[k + i] = to_node[i]
  <2>1. YamuxTypes
        BY Zenon DEF YamuxInv
  <2>2. /\ k \in Nat /\ k >= 1 /\ InFlight[1] = f /\ k \in 1..k
        /\ \A i \in 1..Len(to_node) : k + i \in 1..Len(InFlight) /\ InFlight[k + i] = to_node[i]
        /\ Len(InFlight) = k + Len(to_node) /\ Len(to_node) \in Nat
        BY <2>1, FlightNow
  <2> QED
        BY <2>2
<1> HIDE DEF k
<1>2. Flagged(InFlight[1], id, "Fin")
      BY <1>1, FlagValues, Zenon DEF Flagged
<1>3. remote[id] = "closing" /\ \A j \in 1..Len(InFlight) : Flagged(InFlight[j], id, "Fin") => 1 = j
      BY <1>1, <1>2 DEF YamuxInv, OpenedOnce
<1>4. ASSUME NEW i \in 1..Len(to_node) PROVE ~Ends(to_node[i], id)
  <2>1. k + i # 1
        BY <1>1
  <2>2. ~Flagged(to_node[i], id, "Fin")
        BY <1>1, <1>3, <2>1, Zenon
  <2> QED
        BY <1>3, <2>2, Zenon DEF YamuxInv, EndIsLast
<1> QED
      BY <1>4, Zenon

\* Every step keeps EndIsLast.
LEMMA YamuxNextEnds ==
    ASSUME YamuxInv, [YamuxNext]_yamuxVars
    PROVE  EndIsLast'
<1> USE DEF nodeVars, swarmVars, yamuxVars
<1> DEFINE r == to_node
           q == to_node'
<1>0. /\ remote \in [StreamId -> {"idle", "opening", "open", "closing", "closed", "reset"}]
      /\ r \in Seq(RequestFrame) /\ to_swarm \in Seq(ReplyFrame)
      BY Zenon DEF YamuxInv, YamuxTypes
<1>b. SUFFICES ASSUME NEW id \in StreamId PROVE Last(q, id, remote'[id])
      BY Zenon DEF EndIsLast, Last
<1>c. Last(r, id, remote[id])
      BY Zenon DEF YamuxInv, EndIsLast, Last
<1>d. ASSUME NEW f \in RequestFrame, q = Append(r, f)
      PROVE  Len(r) \in Nat /\ Said(r, q, f)
      BY <1>0, <1>d, NodeSaid, Zenon
<1> HIDE DEF r, q
<1>1. CASE Process
  <2>1. r # <<>> /\ q = Tail(r) /\ remote' = remote
        BY <1>1, Zenon DEF Process, r, q
  <2> QED
        BY <1>0, <1>c, <2>1, NodeHeard, LastHeard, Zenon
<1>2. CASE OnDisconnectPeer
      BY <1>2, <1>c, Zenon DEF OnDisconnectPeer, r, q
<1>3. CASE LinkDown
  <2>1. q = <<>>
        BY <1>3, Zenon DEF LinkDown, q
  <2>2. \A i \in 1..Len(q) : FALSE
        BY <2>1
  <2> QED
        BY <2>2, Zenon DEF Last
<1>4. CASE Hear
  <2> DEFINE f == Head(to_swarm)
  <2>1. q = r /\ to_swarm # <<>>
        BY <1>4, Zenon DEF Hear, r, q
  <2>2. \/ remote' = remote
        \/ /\ f.ty = "Data" /\ f.stream_id \in StreamId /\ f.flags = 2
           /\ remote[f.stream_id] = "opening" /\ remote' = [remote EXCEPT ![f.stream_id] = "open"]
        \/ /\ f.ty = "Data" /\ f.stream_id \in StreamId /\ f.flags = 4
           /\ remote[f.stream_id] = "closing" /\ remote' = [remote EXCEPT ![f.stream_id] = "closed"]
        BY <1>4, HearCases, Zenon
  <2>3. \/ remote'[id] = remote[id]
        \/ remote[id] = "opening"
        \/ f.ty = "Data" /\ f.stream_id = id /\ f.flags = 4
        BY <1>0, <2>2, Zenon
  <2>4. \/ remote'[id] = remote[id]
        \/ \A i \in 1..Len(r) : ~Ends(r[i], id)
    <3>1. remote[id] = "opening" => \A i \in 1..Len(r) : ~Ends(r[i], id)
          BY <1>c, Zenon DEF Last
    <3>2. f.ty = "Data" /\ f.stream_id = id /\ f.flags = 4 => \A i \in 1..Len(r) : ~Ends(r[i], id)
          BY <2>1, NoEndLeft, Zenon DEF r
    <3> QED
          BY <2>3, <3>1, <3>2, Zenon
  <2> QED
        BY <1>c, <2>1, <2>4, Zenon DEF Last
<1>5. ASSUME NEW i \in StreamId, Ping(i) PROVE Last(q, id, remote'[id])
  <2> DEFINE f == Data(i, {}, "payload")
  <2>1. f \in RequestFrame /\ q = Append(r, f) /\ remote' = remote /\ remote[i] \in {"opening", "open"}
        BY <1>5, FramesTyped, Zenon DEF Ping, Say, r, q
  <2>2. f.stream_id = i /\ f.flags = 0
        BY FrameFields, FlagValues
  <2> HIDE DEF f
  <2>3. ~Ends(f, id)
        BY <2>2, FlagValues, ZenonT(30) DEF Ends, Flagged
  <2> QED
        BY <1>0, <1>c, <1>d, <2>1, <2>2, <2>3, LastSaid, Zenon
<1>6. ASSUME NEW i \in StreamId, NEW protocol \in Protocols, Open(i, protocol)
      PROVE  Last(q, id, remote'[id])
  <2> DEFINE f == Data(i, {"Syn"}, protocol)
  <2>1. /\ f \in RequestFrame /\ q = Append(r, f) /\ remote[i] = "idle"
        /\ remote' = [remote EXCEPT ![i] = "opening"]
        BY <1>6, FramesTyped, Zenon DEF Open, Say, r, q
  <2>2. f.stream_id = i /\ f.flags = 1
        BY FrameFields, FlagValues
  <2> HIDE DEF f
  <2>3. ~Ends(f, id)
        BY <2>2, FlagValues DEF Ends, Flagged
  <2>4. remote'[id] = remote[id] \/ (i = id /\ remote[id] = "idle")
        BY <1>0, <2>1, Zenon
  <2> QED
        BY <1>0, <1>c, <1>d, <2>1, <2>2, <2>3, <2>4, LastSaid, Zenon
<1>7. ASSUME NEW i \in StreamId, NEW flag \in {"Fin", "Rst"}, Close(i, flag)
      PROVE  Last(q, id, remote'[id])
  <2> DEFINE f == Data(i, {flag}, "empty")
  <2>1. f \in RequestFrame
        BY FramesTyped, Zenon
  <2>2. f.stream_id = i /\ Flagged(f, i, flag)
        BY FrameFields DEF Flagged
  <2>3. /\ q = Append(r, f) /\ remote[i] \in {"opening", "open"}
        /\ remote' = [remote EXCEPT ![i] = IF flag = "Fin" THEN "closing" ELSE "reset"]
        BY <1>7, Zenon DEF Close, Say, r, q
  <2> HIDE DEF f
  <2>4. Len(r) \in Nat /\ Said(r, q, f)
        BY <1>d, <2>1, <2>3, Zenon
  <2>5. CASE i = id
    <3>1. remote'[id] = IF flag = "Fin" THEN "closing" ELSE "reset"
          BY <1>0, <2>3, <2>5, Zenon
    <3>2. remote[id] \notin {"closing", "reset"}
          BY <2>3, <2>5, Zenon
    <3>3. \/ flag = "Fin" /\ Flagged(f, id, "Fin") /\ remote'[id] = "closing"
          \/ flag = "Rst" /\ Flagged(f, id, "Rst") /\ remote'[id] = "reset"
          BY <2>2, <2>5, <3>1, Zenon
    <3> QED
          BY <1>c, <2>4, <3>2, <3>3, LastSaid, Zenon
  <2>6. CASE i # id
    <3>1. remote'[id] = remote[id]
          BY <1>0, <2>3, <2>6, Zenon
    <3> QED
          BY <1>c, <2>2, <2>4, <2>6, <3>1, LastSaid, Zenon
  <2> QED
        BY <2>5, <2>6, Zenon
<1>8. ASSUME NEW opaque \in Opaque, KeepAlive(opaque) PROVE Last(q, id, remote'[id])
  <2> DEFINE f == SessionPing({"Syn"}, opaque)
  <2>1. f \in RequestFrame /\ q = Append(r, f) /\ remote' = remote
        BY <1>8, FramesTyped, Zenon DEF KeepAlive, Say, r, q
  <2>2. f.stream_id = 0
        BY FrameFields
  <2> HIDE DEF f
  <2> QED
        BY <1>0, <1>c, <1>d, <2>1, <2>2, LastSaid, Zenon
<1>11. CASE WriterEnds
      BY <1>11, <1>c, Zenon DEF WriterEnds, r, q
<1>12. CASE Unwritten
      BY <1>12, <1>c, Zenon DEF Unwritten, r, q
<1>13. ASSUME NEW i \in StreamId, Update(i) PROVE Last(q, id, remote'[id])
  <2> DEFINE f == WindowUpdate(i)
  <2>1. f \in RequestFrame /\ q = Append(r, f) /\ remote' = remote /\ remote[i] \in {"opening", "open"}
        BY <1>13, FramesTyped, Zenon DEF Update, Say, r, q
  <2>2. f.stream_id = i /\ f.ty = "WindowUpdate"
        BY FrameFields, Zenon
  <2> HIDE DEF f
  <2>3. ~Ends(f, id)
        BY <2>2, Zenon DEF Ends, Flagged
  <2> QED
        BY <1>0, <1>c, <1>d, <2>1, <2>2, <2>3, LastSaid, Zenon
<1>9. CASE UNCHANGED yamuxVars
      BY <1>9, <1>c, Zenon DEF r, q
<1> QED
      BY <1>1, <1>2, <1>3, <1>4, <1>5, <1>6, <1>7, <1>8, <1>9, <1>11, <1>12, <1>13, Zenon DEF YamuxNext

\* Every step keeps StreamsFollow.
LEMMA YamuxNextFollow ==
    ASSUME YamuxInv, [YamuxNext]_yamuxVars
    PROVE  StreamsFollow'
<1> USE DEF nodeVars, swarmVars, yamuxVars
<1> DEFINE r == to_node
           q == to_node'
<1>0. /\ remote \in [StreamId -> {"idle", "opening", "open", "closing", "closed", "reset"}]
      /\ spoken \in [StreamId -> Protocols] /\ streams \subseteq [id : StreamId, protocol : Protocols]
      /\ r \in Seq(RequestFrame) /\ to_swarm \in Seq(ReplyFrame)
      /\ peer_state \in BOOLEAN /\ YamuxTypes
      BY Zenon DEF YamuxInv, YamuxTypes
<1>a. /\ peer_state = (link = "up")
      /\ link # "up" => streams = {}
      /\ \A s \in streams : s.id \in StreamId /\ s.protocol = spoken[s.id] /\ remote[s.id] # "idle"
      BY <1>0, Zenon DEF YamuxInv, StreamsFollow
<1>c. \A id \in StreamId : Last(r, id, remote[id])
      BY Zenon DEF YamuxInv, EndIsLast, Last
<1>e. link = "up" => \A id \in StreamId : Follow(r, streams, id, remote[id])
      BY Zenon DEF YamuxInv, StreamsFollow, Follow, Announced, Known
<1>d. ASSUME NEW f \in RequestFrame, q = Append(r, f)
      PROVE  Len(r) \in Nat /\ Said(r, q, f)
      BY <1>0, <1>d, NodeSaid, Zenon
<1>b. ASSUME peer_state' = (link' = "up"), link' # "up" => streams' = {},
             \A s \in streams' : s.protocol = spoken'[s.id] /\ remote'[s.id] # "idle",
             link' = "up" => \A id \in StreamId : Follow(q, streams', id, remote'[id])
      PROVE  StreamsFollow'
      BY <1>b, Zenon DEF StreamsFollow, Follow, Announced, Known
<1> HIDE DEF r, q
<1>1. CASE Process
  <2> DEFINE f == Head(r)
  <2>1. r # <<>> /\ q = Tail(r) /\ UNCHANGED <<remote, spoken, link, peer_state>>
        BY <1>1, Zenon DEF Process, r, q
  <2>2. Len(r) \in Nat /\ Len(r) >= 1 /\ f = r[1] /\ Heard(r, q) /\ f \in RequestFrame
        BY <1>0, <2>1, NodeHeard, HeadTailProperties, Zenon
  <2>3. f.ty = "Data" /\ f.flags = 1 => f.payload = spoken[f.stream_id] /\ remote[f.stream_id] # "idle"
    <3>1. /\ Len(to_swarm) + 1 \in 1..Len(InFlight) /\ InFlight[Len(to_swarm) + 1] = f
          BY <1>0, <2>1, FlightNow DEF r
    <3>2. SUFFICES ASSUME f.ty = "Data" /\ f.flags = 1
                   PROVE  f.payload = spoken[f.stream_id] /\ remote[f.stream_id] # "idle"
          BY Zenon
    <3>3. f.stream_id \in StreamId /\ Opens(InFlight[Len(to_swarm) + 1], f.stream_id)
          BY <2>2, <3>1, <3>2, RequestCases, FlagValues, Zenon DEF Opens, Flagged
    <3> QED
      <4>1. OpenedOnce
            BY <1>0, Zenon DEF YamuxInv
      <4> DEFINE k == Len(to_swarm) + 1
                 id == f.stream_id
      <4>2. k \in 1..Len(InFlight) /\ InFlight[k] = f /\ id \in StreamId /\ Opens(InFlight[k], id)
            BY <3>1, <3>3, Zenon
      <4> HIDE DEF k, id
      <4>3. remote[id] \in {"opening", "reset"} /\ InFlight[k].payload = spoken[id]
            BY <4>1, <4>2, Zenon DEF OpenedOnce
      <4> QED
            BY <4>2, <4>3, Zenon DEF id
  <2> HIDE DEF f
  <2>4. /\ f.ty = "Ping" => streams' = streams
        /\ f.ty # "Ping" /\ f.flags = 0 => streams' = streams
        /\ f.ty = "Data" /\ f.flags \in {4, 8} => streams' = Without(f.stream_id)
        /\ f.ty = "Data" /\ f.flags = 1 =>
             IF peer_state THEN streams' = Without(f.stream_id)
                                           \cup {[id |-> f.stream_id, protocol |-> f.payload]}
             ELSE streams' = streams
        BY <1>0, <1>1, ProcessCases DEF Stays, Goes, f, r
  <2>5. \/ f.ty = "Ping" /\ f.stream_id = 0
        \/ f.ty # "Ping" /\ f.stream_id \in StreamId /\ f.flags = 0
        \/ f.ty = "Data" /\ f.stream_id \in StreamId /\ f.flags \in {1, 4, 8}
        BY <2>2, RequestCases, Zenon
  <2>6. ASSUME link # "up" PROVE streams' = {}
        BY <1>0, <1>a, <2>4, <2>5, <2>6, Zenon DEF Without
  <2>7. ASSUME NEW s \in streams' PROVE s.protocol = spoken[s.id] /\ remote[s.id] # "idle"
    <3>1. \/ s \in streams
          \/ /\ f.ty = "Data" /\ f.flags = 1
             /\ s = [id |-> f.stream_id, protocol |-> f.payload]
          BY <2>4, <2>5, <2>7, Zenon DEF Without
    <3> QED
          BY <1>a, <2>3, <3>1
  <2>8. ASSUME link = "up", NEW id \in StreamId PROVE Follow(q, streams', id, remote[id])
    <3>1. peer_state
          BY <1>a, <2>8, Zenon
    <3>2. CASE f.stream_id # id \/ f.ty = "Ping" \/ f.flags = 0
      <4>1. ~Flagged(f, id, "Syn") /\ ~Ends(f, id)
            BY <3>2, FlagValues DEF Ends, Flagged
      <4>2. (\E s \in streams' : s.id = id) <=> (\E s \in streams : s.id = id)
        <5>1. CASE streams' = streams
              BY <5>1, Zenon
        <5>2. CASE f.stream_id # id /\ streams' = Without(f.stream_id)
              BY <5>2, Zenon DEF Without
        <5>3. CASE /\ f.stream_id # id
                   /\ streams' = Without(f.stream_id) \cup {[id |-> f.stream_id, protocol |-> f.payload]}
              BY <5>3 DEF Without
        <5> QED
              BY <2>4, <2>5, <3>1, <3>2, <5>1, <5>2, <5>3, YamuxAssumption, Zenon
      <4> QED
            BY <1>c, <1>e, <2>2, <2>8, <4>1, <4>2, FollowHeard, Zenon
    <3>3. CASE f.stream_id = id /\ f.ty = "Data" /\ f.flags = 1
      <4>1. Flagged(f, id, "Syn")
            BY <3>3, FlagValues, Zenon DEF Flagged
      <4>2. [id |-> f.stream_id, protocol |-> f.payload] \in streams'
            BY <2>4, <3>1, <3>3, Zenon
      <4>3. \E s \in streams' : s.id = id
            BY <3>3, <4>2, Zenon
      <4> QED
            BY <1>c, <1>e, <2>2, <2>8, <4>1, <4>3, FollowHeard, Zenon
    <3>4. CASE f.stream_id = id /\ f.ty = "Data" /\ f.flags \in {4, 8}
      <4>1. Ends(f, id)
            BY <3>4, FlagValues, Zenon DEF Ends, Flagged
      <4>2. \A s \in streams' : s.id # id
            BY <2>4, <3>4, Zenon DEF Without
      <4> QED
            BY <1>c, <1>e, <2>2, <2>8, <4>1, <4>2, FollowHeard, Zenon
    <3> QED
          BY <2>5, <3>2, <3>3, <3>4, Zenon
  <2> QED
        BY <1>a, <1>b, <2>1, <2>6, <2>7, <2>8, Zenon
<1>2. CASE OnDisconnectPeer
  <2>1. link' = "closing" /\ peer_state' = FALSE /\ streams' = {}
        BY <1>2, Zenon DEF OnDisconnectPeer
  <2> QED
        BY <1>b, <2>1, Zenon
<1>3. CASE LinkDown
  <2>1. link = "closing" /\ link' = "down" /\ UNCHANGED <<peer_state, streams, remote, spoken>>
        BY <1>3, Zenon DEF LinkDown
  <2> QED
        BY <1>a, <1>b, <2>1, Zenon
<1>4. CASE Hear
  <2> DEFINE f == Head(to_swarm)
  <2>1. q = r /\ to_swarm # <<>> /\ UNCHANGED <<peer_state, streams, link, spoken>>
        BY <1>4, Zenon DEF Hear, r, q
  <2>2. \/ remote' = remote
        \/ /\ f.ty = "Data" /\ f.stream_id \in StreamId /\ f.flags = 2
           /\ remote[f.stream_id] = "opening" /\ remote' = [remote EXCEPT ![f.stream_id] = "open"]
        \/ /\ f.ty = "Data" /\ f.stream_id \in StreamId /\ f.flags = 4
           /\ remote[f.stream_id] = "closing" /\ remote' = [remote EXCEPT ![f.stream_id] = "closed"]
        BY <1>4, HearCases, Zenon
  <2>3. ASSUME NEW id \in StreamId
        PROVE  \/ remote'[id] = remote[id]
               \/ remote[id] = "opening" /\ remote'[id] = "open"
               \/ /\ f.ty = "Data" /\ f.stream_id = id /\ f.flags = 4
                  /\ remote[id] = "closing" /\ remote'[id] = "closed"
        BY <1>0, <2>2, Zenon
  <2> HIDE DEF f
  <2>4. ASSUME link = "up", NEW id \in StreamId PROVE Follow(q, streams', id, remote'[id])
    <3>1. Follow(r, streams, id, remote[id])
          BY <1>e, <2>4, Zenon
    <3>2. CASE /\ f.ty = "Data" /\ f.stream_id = id /\ f.flags = 4
               /\ remote[id] = "closing" /\ remote'[id] = "closed"
      <4>1. \A i \in 1..Len(r) : ~Ends(r[i], id)
            BY <2>1, <3>2, NoEndLeft, Zenon DEF r, f
      <4> QED
            BY <2>1, <3>1, <3>2, <4>1, Zenon DEF Follow
    <3> QED
          BY <2>1, <2>3, <3>1, <3>2, Zenon DEF Follow
  <2>5. ASSUME NEW s \in streams' PROVE s.protocol = spoken'[s.id] /\ remote'[s.id] # "idle"
        BY <1>a, <2>1, <2>3, Zenon
  <2> QED
        BY <1>a, <1>b, <2>1, <2>4, <2>5, Zenon
<1>5. ASSUME NEW i \in StreamId, Ping(i) PROVE StreamsFollow'
  <2> DEFINE f == Data(i, {}, "payload")
  <2>1. /\ f \in RequestFrame /\ q = Append(r, f)
        /\ UNCHANGED <<peer_state, streams, link, remote, spoken>>
        BY <1>5, FramesTyped, Zenon DEF Ping, Say, r, q
  <2>2. f.flags = 0
        BY FrameFields, FlagValues
  <2> HIDE DEF f
  <2>3. ASSUME link = "up", NEW id \in StreamId PROVE Follow(q, streams, id, remote[id])
    <3>1. ~Flagged(f, id, "Syn") /\ ~Ends(f, id)
          BY <2>2, FlagValues, ZenonT(30) DEF Ends, Flagged
    <3> QED
          BY <1>d, <1>e, <2>1, <2>3, <3>1, FollowSaid, Zenon
  <2> QED
        BY <1>a, <1>b, <2>1, <2>3, Zenon
<1>6. ASSUME NEW i \in StreamId, NEW protocol \in Protocols, Open(i, protocol)
      PROVE  StreamsFollow'
  <2> DEFINE f == Data(i, {"Syn"}, protocol)
  <2>1. /\ f \in RequestFrame /\ q = Append(r, f) /\ remote[i] = "idle"
        /\ remote' = [remote EXCEPT ![i] = "opening"] /\ spoken' = [spoken EXCEPT ![i] = protocol]
        /\ UNCHANGED <<peer_state, streams, link>>
        BY <1>6, FramesTyped, Zenon DEF Open, Say, r, q
  <2>2. f.stream_id = i /\ Flagged(f, i, "Syn")
        BY FrameFields DEF Flagged
  <2> HIDE DEF f
  <2>3. ASSUME link = "up", NEW id \in StreamId PROVE Follow(q, streams, id, remote'[id])
    <3>1. Follow(r, streams, id, remote[id]) /\ Len(r) \in Nat /\ Said(r, q, f)
          BY <1>d, <1>e, <2>1, <2>3, Zenon
    <3>2. CASE i = id
      <4>1. remote'[id] = "opening" /\ Flagged(f, id, "Syn")
            BY <1>0, <2>1, <2>2, <3>2, Zenon
      <4> QED
            BY <3>1, <4>1, FollowSaid, Zenon
    <3>3. CASE i # id
      <4>1. remote'[id] = remote[id] /\ ~Flagged(f, id, "Syn") /\ ~Ends(f, id)
            BY <1>0, <2>1, <2>2, <3>3, Zenon DEF Flagged, Ends
      <4> QED
            BY <3>1, <4>1, FollowSaid, Zenon
    <3> QED
          BY <3>2, <3>3, Zenon
  <2>4. ASSUME NEW s \in streams PROVE s.protocol = spoken'[s.id] /\ remote'[s.id] # "idle"
        BY <1>0, <1>a, <2>1, Zenon
  <2> QED
        BY <1>a, <1>b, <2>1, <2>3, <2>4, Zenon
<1>7. ASSUME NEW i \in StreamId, NEW flag \in {"Fin", "Rst"}, Close(i, flag) PROVE StreamsFollow'
  <2> DEFINE f == Data(i, {flag}, "empty")
  <2>1. f \in RequestFrame
        BY FramesTyped, Zenon
  <2>2. f.stream_id = i /\ Flagged(f, i, flag)
        BY FrameFields DEF Flagged
  <2>3. /\ q = Append(r, f)
        /\ remote' = [remote EXCEPT ![i] = IF flag = "Fin" THEN "closing" ELSE "reset"]
        /\ UNCHANGED <<peer_state, streams, link, spoken>>
        BY <1>7, Zenon DEF Close, Say, r, q
  <2>4. Ends(f, i)
        BY <2>2, Zenon DEF Ends
  <2> HIDE DEF f
  <2>5. ASSUME link = "up", NEW id \in StreamId PROVE Follow(q, streams, id, remote'[id])
    <3>1. Follow(r, streams, id, remote[id]) /\ Len(r) \in Nat /\ Said(r, q, f)
          BY <1>d, <1>e, <2>1, <2>3, <2>5, Zenon
    <3>2. CASE i = id
      <4>1. remote'[id] \in {"closing", "reset"} /\ Ends(f, id)
            BY <1>0, <2>3, <2>4, <3>2, Zenon
      <4> QED
            BY <3>1, <4>1, FollowSaid, Zenon
    <3>3. CASE i # id
      <4>1. remote'[id] = remote[id] /\ ~Flagged(f, id, "Syn") /\ ~Ends(f, id)
            BY <1>0, <2>2, <2>3, <3>3, Zenon DEF Flagged, Ends
      <4> QED
            BY <3>1, <4>1, FollowSaid, Zenon
    <3> QED
          BY <3>2, <3>3, Zenon
  <2>6. ASSUME NEW s \in streams PROVE s.protocol = spoken'[s.id] /\ remote'[s.id] # "idle"
        BY <1>0, <1>a, <2>3, Zenon
  <2> QED
        BY <1>a, <1>b, <2>3, <2>5, <2>6, Zenon
<1>8. ASSUME NEW opaque \in Opaque, KeepAlive(opaque) PROVE StreamsFollow'
  <2> DEFINE f == SessionPing({"Syn"}, opaque)
  <2>1. /\ f \in RequestFrame /\ q = Append(r, f)
        /\ UNCHANGED <<peer_state, streams, link, remote, spoken>>
        BY <1>8, FramesTyped, Zenon DEF KeepAlive, Say, r, q
  <2>2. f.ty = "Ping"
        BY FrameFields, Zenon
  <2> HIDE DEF f
  <2>3. ASSUME link = "up", NEW id \in StreamId PROVE Follow(q, streams, id, remote[id])
    <3>1. ~Flagged(f, id, "Syn") /\ ~Ends(f, id)
          BY <2>2, Zenon DEF Ends, Flagged
    <3> QED
          BY <1>d, <1>e, <2>1, <2>3, <3>1, FollowSaid, Zenon
  <2> QED
        BY <1>a, <1>b, <2>1, <2>3, Zenon
<1>11. CASE WriterEnds
      BY <1>11, <1>a, <1>b, <1>e, Zenon DEF WriterEnds, r, q
<1>12. CASE Unwritten
      BY <1>12, <1>a, <1>b, <1>e, Zenon DEF Unwritten, r, q
<1>13. ASSUME NEW i \in StreamId, Update(i) PROVE StreamsFollow'
  <2> DEFINE f == WindowUpdate(i)
  <2>1. /\ f \in RequestFrame /\ q = Append(r, f)
        /\ UNCHANGED <<peer_state, streams, link, remote, spoken>>
        BY <1>13, FramesTyped, Zenon DEF Update, Say, r, q
  <2>2. f.ty = "WindowUpdate"
        BY FrameFields, Zenon
  <2> HIDE DEF f
  <2>3. ASSUME link = "up", NEW id \in StreamId PROVE Follow(q, streams, id, remote[id])
    <3>1. ~Flagged(f, id, "Syn") /\ ~Ends(f, id)
          BY <2>2, Zenon DEF Ends, Flagged
    <3> QED
          BY <1>d, <1>e, <2>1, <2>3, <3>1, FollowSaid, Zenon
  <2> QED
        BY <1>a, <1>b, <2>1, <2>3, Zenon
<1>9. CASE UNCHANGED yamuxVars
      BY <1>9, <1>a, <1>b, <1>e, Zenon DEF r, q
<1> QED
      BY <1>1, <1>2, <1>3, <1>4, <1>5, <1>6, <1>7, <1>8, <1>9, <1>11, <1>12, <1>13, Zenon DEF YamuxNext

-----------------------------------------------------------------------------
(* Yamux: no more answers than pings. *)

\* At most u pings and answers of the stream id are among the frames c, the first k replies.
Counted(c, k, id, u) == \E n \in 0..u : \E m \in 0..n : \E g \in [1..n -> 1..Len(c)] :
    Lists(g, c, k, id, m, n)

\* A list of at most u pings and answers shows that there are no more.
LEMMA CountedIntro ==
    ASSUME NEW c, NEW k, NEW id, NEW u \in Nat, NEW n \in Nat, n <= u, NEW m, NEW g,
           Lists(g, c, k, id, m, n)
    PROVE  Counted(c, k, id, u)
<1>1. n \in 0..u /\ m \in 0..n /\ g \in [1..n -> 1..Len(c)]
      BY DEF Lists
<1> QED
      BY <1>1, Zenon DEF Counted

\* And there is one, where there are no more.
LEMMA CountedElim ==
    ASSUME NEW c, NEW k, NEW id, NEW u \in Nat, Counted(c, k, id, u)
    PROVE  \E n \in Nat : n <= u /\ \E m, g : Lists(g, c, k, id, m, n)
<1>1. PICK n \in 0..u : \E m \in 0..n : \E g \in [1..n -> 1..Len(c)] : Lists(g, c, k, id, m, n)
      BY Zenon DEF Counted
<1>2. n \in Nat /\ n <= u
      OBVIOUS
<1>3. \E m, g : Lists(g, c, k, id, m, n)
      BY <1>1, Zenon
<1> QED
      BY <1>2, <1>3, Zenon

\* None is at most any number.
LEMMA CountedNone ==
    ASSUME NEW c, NEW k \in Nat, NEW id, NEW u \in Nat, \A i \in 1..Len(c) : ~Asks(c[i], id)
    PROVE  Counted(c, k, id, u)
<1> DEFINE g == [x \in 1..0 |-> 1]
<1>1. g \in [1..0 -> 1..Len(c)]
      OBVIOUS
<1>2. Lists(g, c, k, id, 0, 0)
      BY <1>1 DEF Lists
<1> HIDE DEF g
<1> QED
      BY <1>2, CountedIntro

\* When the swarm's side sends one more frame: a ping raises the bound by one.
LEMMA CountedSaid ==
    ASSUME NEW c, NEW d, NEW f, NEW k \in Nat, NEW id, NEW u \in Nat, Counted(c, k, id, u),
           Len(c) \in Nat, k <= Len(c), Said(c, d, f)
    PROVE  /\ ~Asks(f, id) => Counted(d, k, id, u)
           /\ Counted(d, k, id, u + 1)
<1>1. PICK n \in Nat : n <= u /\ \E m, g : Lists(g, c, k, id, m, n)
      BY CountedElim, Zenon
<1>2. PICK m, g : Lists(g, c, k, id, m, n)
      BY <1>1, Zenon
<1>3. Len(d) = Len(c) + 1 /\ d[Len(d)] = f /\ \A i \in 1..Len(c) : d[i] = c[i]
      BY Zenon DEF Said
<1>4. CASE ~Asks(f, id)
  <2>1. Lists(g, d, k, id, m, n)
        BY <1>2, <1>3, <1>4, ListsAppend, Zenon
  <2> QED
        BY <1>1, <2>1, CountedIntro
<1>5. CASE Asks(f, id)
  <2>1. \E h : Lists(h, d, k, id, m, n + 1)
        BY <1>2, <1>3, <1>5, ListsAppend, Zenon
  <2>2. PICK h : Lists(h, d, k, id, m, n + 1)
        BY <2>1, Zenon
  <2> QED
        BY <1>1, <1>5, <2>2, CountedIntro
<1> QED
      BY <1>4, <1>5, Zenon

\* When the swarm's side takes the first reply: an answer lowers it by one.
LEMMA CountedHeard ==
    ASSUME NEW c, NEW d, NEW k \in Nat, NEW id, NEW u \in Nat, Counted(c, k, id, u),
           Len(c) \in Nat, k >= 1, k <= Len(c), Heard(c, d)
    PROVE  /\ Counted(d, k - 1, id, u)
           /\ Asks(c[1], id) => u >= 1 /\ Counted(d, k - 1, id, u - 1)
<1>1. PICK n \in Nat : n <= u /\ \E m, g : Lists(g, c, k, id, m, n)
      BY CountedElim, Zenon
<1>2. PICK m, g : Lists(g, c, k, id, m, n)
      BY <1>1, Zenon
<1>3. Len(d) = Len(c) - 1 /\ \A i \in 1..Len(d) : d[i] = c[i + 1]
      BY Zenon DEF Heard
<1>4. CASE ~Asks(c[1], id)
  <2>1. \E h : Lists(h, d, k - 1, id, m, n)
        BY <1>2, <1>3, <1>4, ListsTail, Zenon
  <2>2. PICK h : Lists(h, d, k - 1, id, m, n)
        BY <2>1, Zenon
  <2> QED
        BY <1>1, <1>4, <2>2, CountedIntro, Zenon
<1>5. CASE Asks(c[1], id)
  <2>4. n >= 1 /\ Lists([x \in 1..(n - 1) |-> g[x + 1] - 1], d, k - 1, id, m - 1, n - 1)
        BY <1>2, <1>3, <1>5, ListsTail, ZenonT(30)
  <2>1. n >= 1 /\ \E h : Lists(h, d, k - 1, id, m - 1, n - 1)
        BY <2>4, Zenon
  <2>2. PICK h : Lists(h, d, k - 1, id, m - 1, n - 1)
        BY <2>1, Zenon
  <2>3. n - 1 \in Nat /\ u - 1 \in Nat /\ n - 1 <= u - 1 /\ n - 1 <= u /\ u >= 1
        BY <1>1, <2>1
  <2>5. Counted(d, k - 1, id, u) /\ Counted(d, k - 1, id, u - 1)
        BY <2>2, <2>3, CountedIntro, Zenon
  <2> QED
        BY <2>3, <2>5, Zenon
<1> QED
      BY <1>4, <1>5, Zenon

\* When an answer takes the place of its ping.
LEMMA CountedReplaced ==
    ASSUME NEW c, NEW d, NEW f, NEW k \in Nat, NEW id, NEW u \in Nat, Counted(c, k, id, u),
           Len(c) \in Nat, Replaced(c, d, k, f), Asks(f, id) <=> Asks(c[k + 1], id)
    PROVE  Counted(d, k + 1, id, u)
<1>1. PICK n \in Nat : n <= u /\ \E m, g : Lists(g, c, k, id, m, n)
      BY CountedElim, Zenon
<1>2. PICK m, g : Lists(g, c, k, id, m, n)
      BY <1>1, Zenon
<1>3. /\ Len(d) = Len(c) /\ k < Len(c) /\ d[k + 1] = f
      /\ \A i \in 1..Len(c) : i # k + 1 => d[i] = c[i]
      BY Zenon DEF Replaced
<1>4. \E l \in 0..n : Lists(g, d, k + 1, id, l, n)
      BY <1>2, <1>3, ListsReplace, Zenon
<1> QED
      BY <1>1, <1>4, CountedIntro, Zenon

\* When a request has no answer.
LEMMA CountedRemoved ==
    ASSUME NEW c, NEW d, NEW k \in Nat, NEW id, NEW u \in Nat, Counted(c, k, id, u),
           Len(c) \in Nat, Removed(c, d, k)
    PROVE  Counted(d, k, id, u)
<1>1. PICK n \in Nat : n <= u /\ \E m, g : Lists(g, c, k, id, m, n)
      BY CountedElim, Zenon
<1>2. PICK m, g : Lists(g, c, k, id, m, n)
      BY <1>1, Zenon
<1>3. /\ Len(d) = Len(c) - 1 /\ k < Len(c) /\ \A i \in 1..k : d[i] = c[i]
      /\ \A i \in (k + 1)..Len(d) : d[i] = c[i + 1]
      BY Zenon DEF Removed
<1>4. CASE ~Asks(c[k + 1], id)
  <2>1. \E h : Lists(h, d, k, id, m, n)
        BY <1>2, <1>3, <1>4, ListsRemove, ZenonT(30)
  <2> QED
        BY <1>1, <2>1, CountedIntro, Zenon
<1>5. CASE Asks(c[k + 1], id)
  <2>3. n >= 1 /\ Lists(Shorter(g, m, n), d, k, id, m, n - 1)
        BY <1>2, <1>3, <1>5, ListsRemove, Zenon
  <2>1. n >= 1 /\ \E h : Lists(h, d, k, id, m, n - 1)
        BY <2>3, Zenon
  <2>2. n - 1 \in Nat /\ n - 1 <= u
        BY <1>1, <2>1
  <2> QED
        BY <2>1, <2>2, CountedIntro, Zenon
<1> QED
      BY <1>4, <1>5, Zenon

\* When the requests that were not read are lost with the link.
LEMMA CountedCut ==
    ASSUME NEW c, NEW d, NEW k \in Nat, NEW id, NEW u \in Nat, Counted(c, k, id, u),
           Len(c) \in Nat, k <= Len(c), CutAt(c, d, k)
    PROVE  Counted(d, k, id, u)
<1>1. PICK n \in Nat : n <= u /\ \E m, g : Lists(g, c, k, id, m, n)
      BY CountedElim, Zenon
<1>2. PICK m, g : Lists(g, c, k, id, m, n)
      BY <1>1, Zenon
<1>3. Len(d) = k /\ \A i \in 1..k : d[i] = c[i]
      BY Zenon DEF CutAt
<1>4. \E h : Lists(h, d, k, id, m, m)
      BY <1>2, <1>3, ListsCut, Zenon
<1>5. m \in Nat /\ m <= u
      BY <1>1, <1>2 DEF Lists
<1> QED
      BY <1>4, <1>5, CountedIntro, Zenon

\* When the last reply is counted with the requests.
LEMMA CountedSplit ==
    ASSUME NEW c, NEW k \in Nat, NEW id, NEW u \in Nat, Counted(c, k, id, u),
           Len(c) \in Nat, k >= 1
    PROVE  Counted(c, k - 1, id, u)
<1>1. PICK n \in Nat : n <= u /\ \E m, g : Lists(g, c, k, id, m, n)
      BY CountedElim, Zenon
<1>2. PICK m, g : Lists(g, c, k, id, m, n)
      BY <1>1, Zenon
<1>3. \E l \in 0..n : Lists(g, c, k - 1, id, l, n)
      BY <1>2, ListsSplit, Zenon
<1> QED
      BY <1>1, <1>3, CountedIntro, Zenon

\* A frame of the stream id without flags, which is not empty only when it answers a ping.
Plain(f, id) == f.stream_id = id /\ f.flags = encode_flags({})

\* AnswersCounted for the stream id: the frames c of which the first k, s, are replies.
Answerable(c, s, id, sp, u, p) ==
    /\ u <= p
    /\ sp = "ping" => Counted(c, Len(s), id, u)
    /\ sp # "ping" => \A i \in 1..Len(s) : ~Plain(s[i], id)

\* Every step keeps AnswersCounted.
LEMMA YamuxNextAnswers ==
    ASSUME YamuxInv, [YamuxNext]_yamuxVars
    PROVE  AnswersCounted'
<1> USE DEF nodeVars, swarmVars, yamuxVars
<1> DEFINE c == InFlight
           d == InFlight'
           k == Len(to_swarm)
<1>0. /\ YamuxTypes /\ spoken \in [StreamId -> Protocols]
      /\ unanswered \in [StreamId -> 0..MaxPings] /\ pinged \in [StreamId \cup {0} -> 0..MaxPings]
      /\ to_node \in Seq(RequestFrame) /\ to_swarm \in Seq(ReplyFrame)
      /\ Len(c) \in Nat /\ k \in Nat /\ k <= Len(c)
  <2>1. /\ YamuxTypes /\ spoken \in [StreamId -> Protocols]
        /\ unanswered \in [StreamId -> 0..MaxPings] /\ pinged \in [StreamId \cup {0} -> 0..MaxPings]
        BY Zenon DEF YamuxInv, YamuxTypes
  <2>2. /\ to_node \in Seq(RequestFrame) /\ to_swarm \in Seq(ReplyFrame)
        /\ Len(c) \in Nat /\ k \in Nat /\ Len(to_node) \in Nat /\ Len(c) = k + Len(to_node)
        BY <2>1, FlightNow, Zenon
  <2> HIDE DEF c, k
  <2>3. k <= Len(c)
        BY <2>2
  <2> QED
        BY <2>1, <2>2, <2>3, Zenon
<1>b. SUFFICES ASSUME NEW id \in StreamId
               PROVE  Answerable(d, to_swarm', id, spoken'[id], unanswered'[id], pinged'[id])
      BY Zenon DEF AnswersCounted, Answerable, Counted, Plain
<1>c. Answerable(c, to_swarm, id, spoken[id], unanswered[id], pinged[id])
      BY Zenon DEF YamuxInv, AnswersCounted, Answerable, Counted, Plain
<1>d. unanswered[id] \in Nat /\ pinged[id] \in Nat /\ unanswered[id] <= pinged[id]
      BY <1>0, <1>c DEF Answerable
<1>e. spoken[id] = "ping" => Counted(c, k, id, unanswered[id])
      BY <1>c, Zenon DEF Answerable
<1> HIDE DEF c, d, k
<1>1. CASE Process
  <2> DEFINE f == Head(to_node)
  <2>1. UNCHANGED <<spoken, unanswered, pinged>> /\ to_node # <<>>
        BY <1>1, Zenon DEF Process
  <2>2. c[k + 1] = f
        BY <1>0, <2>1, FlightNow, Zenon DEF c, k
  <2>3. f \in RequestFrame
        BY <1>0, <2>1, HeadTailProperties, Zenon
  <2> HIDE DEF f
  <2>4. CASE to_swarm' = to_swarm /\ Removed(c, d, k)
    <3>1. spoken[id] = "ping" => Counted(d, Len(to_swarm'), id, unanswered[id])
          BY <1>0, <1>d, <1>e, <2>4, CountedRemoved, Zenon DEF k
    <3> QED
          BY <1>c, <2>1, <2>4, <3>1, Zenon DEF Answerable
  <2>5. CASE \E a \in ReplyFrame : /\ to_swarm' = to_swarm \o <<a>> /\ Answered(a, f)
                                   /\ Replaced(c, d, k, a)
    <3>1. PICK a \in ReplyFrame : /\ to_swarm' = to_swarm \o <<a>> /\ Answered(a, f)
                                  /\ Replaced(c, d, k, a)
          BY <2>5, Zenon
    <3>2. Asks(a, id) <=> Asks(c[k + 1], id)
          BY <2>2, <3>1, Zenon DEF Answered
    <3>3. /\ Len(to_swarm') = k + 1
          /\ \A i \in 1..(k + 1) : to_swarm'[i] = IF i <= k THEN to_swarm[i] ELSE a
      <4>1. <<a>> \in Seq(ReplyFrame) /\ Len(<<a>>) = 1 /\ <<a>>[1] = a
            OBVIOUS
      <4>2. /\ Len(to_swarm') = k + Len(<<a>>)
            /\ \A i \in 1..(k + Len(<<a>>)) : to_swarm'[i] = IF i <= k THEN to_swarm[i] ELSE <<a>>[i - k]
            BY <1>0, <3>1, <4>1, ConcatProperties DEF k
      <4>3. \A i \in 1..(k + 1) : i <= k \/ i - k = 1
            BY <1>0
      <4> QED
            BY <4>1, <4>2, <4>3, Zenon
    <3>4. spoken[id] = "ping" => Counted(d, Len(to_swarm'), id, unanswered[id])
          BY <1>0, <1>d, <1>e, <3>1, <3>2, <3>3, CountedReplaced
    <3>5. ASSUME spoken[id] # "ping" PROVE ~Plain(a, id)
      <4>1. SUFFICES ASSUME Plain(a, id) PROVE FALSE
            BY Zenon
      <4>2. a.ty = "Data" /\ a.flags = 0 /\ a.stream_id = id
        <5>1. a.flags = 0 /\ a.stream_id = id
              BY <4>1, FlagValues, Zenon DEF Plain
        <5>2. a.ty = "Data" \/ a.stream_id = 0
              BY <3>1, ReplyCases, Zenon
        <5> QED
              BY <5>1, <5>2, YamuxAssumption, Zenon
      <4>3. Protocol(id) = {"ping"}
            BY <3>1, <4>2, Zenon DEF Answered
      <4>4. \E s \in streams : s.id = id /\ s.protocol = "ping"
            BY <4>3, Zenon DEF Protocol
      <4> QED
            BY <3>5, <4>4, Zenon DEF YamuxInv, StreamsFollow
    <3>6. ASSUME spoken[id] # "ping", NEW i \in 1..(k + 1) PROVE ~Plain(to_swarm'[i], id)
      <4>1. CASE i <= k
        <5>1. i \in 1..Len(to_swarm) /\ to_swarm'[i] = to_swarm[i]
              BY <1>0, <3>3, <4>1 DEF k
        <5> QED
              BY <1>c, <3>6, <5>1, Zenon DEF Answerable
      <4>2. CASE ~(i <= k)
            BY <3>3, <3>5, <3>6, <4>2, Zenon
      <4> QED
            BY <4>1, <4>2, Zenon
    <3> QED
          BY <1>d, <2>1, <3>3, <3>4, <3>6, Zenon DEF Answerable
  <2> QED
        BY <1>0, <1>1, <2>4, <2>5, ProcessFlight, Zenon DEF c, d, k, f
<1>2. CASE OnDisconnectPeer
      BY <1>2, <1>c, Zenon DEF OnDisconnectPeer, c, d, InFlight
<1>3. CASE LinkDown
  <2>1. CutAt(c, d, k) /\ UNCHANGED <<to_swarm, spoken, unanswered, pinged>>
        BY <1>0, <1>3, FlightCut, Zenon DEF LinkDown, c, d, k, InFlight
  <2>2. spoken[id] = "ping" => Counted(d, Len(to_swarm'), id, unanswered[id])
        BY <1>0, <1>d, <1>e, <2>1, CountedCut, Zenon DEF k
  <2> QED
        BY <1>c, <2>1, <2>2, Zenon DEF Answerable
<1>4. CASE Hear
  <2> DEFINE f == Head(to_swarm)
  <2>1. /\ to_swarm # <<>> /\ to_swarm' = Tail(to_swarm) /\ UNCHANGED <<to_node, spoken, pinged>>
        BY <1>4, Zenon DEF Hear
  <2>2. Heard(c, d) /\ k >= 1 /\ c[1] = f /\ Len(to_swarm') = k - 1
        BY <1>0, <2>1, FlightHeard, Zenon DEF c, d, k, InFlight
  <2>3. \A i \in 1..(k - 1) : to_swarm'[i] = to_swarm[i + 1]
        BY <1>0, <2>1, HeadTailProperties, Zenon DEF k
  <2> HIDE DEF f
  <2>4. \/ unanswered'[id] = unanswered[id]
        \/ /\ f.ty = "Data" /\ f.stream_id = id /\ f.flags = 0 /\ f.payload # "empty"
           /\ unanswered'[id] = unanswered[id] - 1
    <3>1. \/ unanswered' = unanswered
          \/ /\ f.ty = "Data" /\ f.stream_id \in StreamId /\ f.flags = 0 /\ f.payload # "empty"
             /\ unanswered' = [unanswered EXCEPT ![f.stream_id] = @ - 1]
          BY <1>4, HearCases, Zenon DEF f
    <3> QED
          BY <1>0, <3>1, Zenon
  <2>5. ASSUME spoken[id] # "ping" PROVE \A i \in 1..Len(to_swarm') : ~Plain(to_swarm'[i], id)
    <3>1. \A i \in 1..k : ~Plain(to_swarm[i], id)
          BY <1>c, <2>5, Zenon DEF Answerable, k
    <3>2. \A i \in 1..(k - 1) : i + 1 \in 1..k
          BY <1>0
    <3> QED
          BY <2>2, <2>3, <3>1, <3>2, Zenon
  <2>6. ASSUME spoken[id] = "ping" PROVE Counted(d, Len(to_swarm'), id, unanswered'[id])
    <3>1. /\ Counted(d, k - 1, id, unanswered[id])
          /\ Asks(c[1], id) => Counted(d, k - 1, id, unanswered[id] - 1)
          BY <1>0, <1>d, <1>e, <2>2, <2>6, CountedHeard, Zenon
    <3>2. f.ty = "Data" /\ f.stream_id = id /\ f.flags = 0 /\ f.payload # "empty" => Asks(c[1], id)
          BY <2>2, FlagValues, Zenon DEF Asks
    <3> QED
          BY <2>2, <2>4, <3>1, <3>2, Zenon
  <2>7. unanswered'[id] <= pinged'[id]
        BY <1>d, <2>1, <2>4
  <2> QED
        BY <2>1, <2>5, <2>6, <2>7, Zenon DEF Answerable
<1>5. ASSUME NEW i \in StreamId, Ping(i)
      PROVE  Answerable(d, to_swarm', id, spoken'[id], unanswered'[id], pinged'[id])
  <2> DEFINE f == Data(i, {}, "payload")
  <2>1. /\ Said(c, d, f) /\ UNCHANGED <<to_swarm, spoken>>
        /\ pinged' = [pinged EXCEPT ![i] = @ + 1]
        /\ unanswered' = [unanswered EXCEPT ![i] = IF spoken[i] = "ping" THEN @ + 1 ELSE @]
        BY <1>0, <1>5, FramesTyped, FlightSaid, Zenon DEF Ping, Say, c, d, InFlight
  <2>2. f.stream_id = i
        BY FrameFields
  <2> HIDE DEF f
  <2>3. spoken[id] = "ping" => Counted(d, k, id, unanswered[id] + 1) /\ (~Asks(f, id) => Counted(d, k, id, unanswered[id]))
        BY <1>0, <1>d, <1>e, <2>1, CountedSaid, Zenon
  <2>4. CASE i = id
    <3>1. /\ pinged'[id] = pinged[id] + 1
          /\ unanswered'[id] = IF spoken[id] = "ping" THEN unanswered[id] + 1 ELSE unanswered[id]
          BY <1>0, <2>1, <2>4, Zenon
    <3>2. unanswered'[id] <= pinged'[id]
          BY <1>d, <3>1
    <3> QED
          BY <1>c, <2>1, <2>3, <3>1, <3>2, Zenon DEF Answerable, k
  <2>5. CASE i # id
    <3>1. pinged'[id] = pinged[id] /\ unanswered'[id] = unanswered[id] /\ ~Asks(f, id)
          BY <1>0, <2>1, <2>2, <2>5, Zenon DEF Asks
    <3> QED
          BY <1>c, <2>1, <2>3, <3>1, Zenon DEF Answerable, k
  <2> QED
        BY <2>4, <2>5, Zenon
<1>6. ASSUME NEW i \in StreamId, NEW protocol \in Protocols, Open(i, protocol)
      PROVE  Answerable(d, to_swarm', id, spoken'[id], unanswered'[id], pinged'[id])
  <2> DEFINE f == Data(i, {"Syn"}, protocol)
  <2>1. /\ Said(c, d, f) /\ UNCHANGED <<to_swarm, unanswered, pinged>> /\ remote[i] = "idle"
        /\ spoken' = [spoken EXCEPT ![i] = protocol]
        BY <1>0, <1>6, FramesTyped, FlightSaid, Zenon DEF Open, Say, c, d, InFlight
  <2>2. f.stream_id = i /\ f.ty = "Data" /\ f.flags = 1
        BY FrameFields, FlagValues
  <2> HIDE DEF f
  <2>3. ~Asks(f, id)
        BY <2>2, FlagValues, Zenon DEF Asks
  <2>4. CASE i = id
    <3>1. \A j \in 1..Len(c) : ~Asks(c[j], id) /\ ~Plain(c[j], id)
          BY <2>1, <2>4, Zenon DEF YamuxInv, OpenedOnce, Asks, Plain, c
    <3>2. \A j \in 1..Len(d) : ~Asks(d[j], id)
      <4>1. /\ Len(d) = Len(c) + 1 /\ d[Len(d)] = f /\ \A j \in 1..Len(c) : d[j] = c[j]
            BY <2>1, Zenon DEF Said
      <4>2. \A j \in 1..Len(d) : j = Len(d) \/ j \in 1..Len(c)
            BY <1>0, <4>1
      <4> QED
            BY <2>3, <3>1, <4>1, <4>2, Zenon
    <3>3. Counted(d, k, id, unanswered[id])
          BY <1>0, <1>d, <3>2, CountedNone, Zenon
    <3>4. \A j \in 1..Len(to_swarm) : ~Plain(to_swarm[j], id)
          BY <1>0, <3>1, FlightNow, Zenon DEF c
    <3> QED
          BY <1>d, <2>1, <3>3, <3>4, Zenon DEF Answerable, k
  <2>5. CASE i # id
    <3>1. spoken'[id] = spoken[id]
          BY <1>0, <2>1, <2>5, Zenon
    <3>2. spoken[id] = "ping" => Counted(d, k, id, unanswered[id])
          BY <1>0, <1>d, <1>e, <2>1, <2>3, CountedSaid, Zenon
    <3> QED
          BY <1>c, <2>1, <3>1, <3>2, Zenon DEF Answerable, k
  <2> QED
        BY <2>4, <2>5, Zenon
<1>10. ASSUME NEW f \in RequestFrame, ~Asks(f, id), to_node' = Append(to_node, f),
              UNCHANGED <<to_swarm, spoken, unanswered>>, pinged'[id] = pinged[id]
       PROVE  Answerable(d, to_swarm', id, spoken'[id], unanswered'[id], pinged'[id])
  <2>1. Said(c, d, f)
        BY <1>0, <1>10, FlightSaid, Zenon DEF c, d, InFlight
  <2>2. spoken[id] = "ping" => Counted(d, k, id, unanswered[id])
        BY <1>0, <1>10, <1>d, <1>e, <2>1, CountedSaid, Zenon
  <2> QED
        BY <1>10, <1>c, <2>2, Zenon DEF Answerable, k
<1>7. ASSUME NEW i \in StreamId, NEW flag \in {"Fin", "Rst"}, Close(i, flag)
      PROVE  Answerable(d, to_swarm', id, spoken'[id], unanswered'[id], pinged'[id])
  <2> DEFINE f == Data(i, {flag}, "empty")
  <2>1. f \in RequestFrame
        BY FramesTyped, Zenon
  <2>2. f.ty = "Data" /\ f.flags = encode_flags({flag})
        BY FrameFields
  <2>3. to_node' = Append(to_node, f) /\ UNCHANGED <<to_swarm, spoken, unanswered, pinged>>
        BY <1>7, Zenon DEF Close, Say
  <2> HIDE DEF f
  <2>4. f.flags = 4 \/ f.flags = 8
        BY <2>2, FlagValues, Zenon
  <2>5. ~Asks(f, id)
        BY <2>2, <2>4, FlagValues, Zenon DEF Asks
  <2> QED
        BY <1>10, <2>1, <2>3, <2>5, Zenon
<1>8. ASSUME NEW opaque \in Opaque, KeepAlive(opaque)
      PROVE  Answerable(d, to_swarm', id, spoken'[id], unanswered'[id], pinged'[id])
  <2> DEFINE f == SessionPing({"Syn"}, opaque)
  <2>1. /\ f \in RequestFrame /\ to_node' = Append(to_node, f)
        /\ UNCHANGED <<to_swarm, spoken, unanswered>> /\ pinged' = [pinged EXCEPT ![0] = @ + 1]
        BY <1>8, FramesTyped, Zenon DEF KeepAlive, Say
  <2>2. f.stream_id = 0
        BY FrameFields
  <2> HIDE DEF f
  <2>3. ~Asks(f, id)
        BY <2>2, Zenon DEF Asks
  <2>4. pinged'[id] = pinged[id]
        BY <1>0, <2>1, Zenon
  <2> QED
        BY <1>10, <2>1, <2>3, <2>4, Zenon
<1>11. CASE WriterEnds
      BY <1>11, <1>c, Zenon DEF WriterEnds, c, d, InFlight
<1>12. CASE Unwritten
  <2>1. /\ to_swarm # <<>> /\ to_swarm' = SubSeq(to_swarm, 1, Len(to_swarm) - 1)
        /\ UNCHANGED <<to_node, spoken, unanswered, pinged>>
        BY <1>12, Zenon DEF Unwritten
  <2>2. /\ k >= 1 /\ k - 1 \in Nat /\ to_swarm' \in Seq(ReplyFrame) /\ CutAt(to_swarm, to_swarm', k - 1)
        BY <1>0, <2>1, AllButLast, Zenon DEF k
  <2>3. Removed(c, d, k - 1) /\ Len(to_swarm') = k - 1
        BY <1>0, <2>1, <2>2, FlightUnwritten, Zenon DEF c, d, k, InFlight
  <2>4. spoken[id] = "ping" => Counted(d, k - 1, id, unanswered[id])
    <3>1. spoken[id] = "ping" => Counted(c, k - 1, id, unanswered[id])
          BY <1>0, <1>d, <1>e, <2>2, CountedSplit, Zenon
    <3> QED
          BY <1>0, <1>d, <2>2, <2>3, <3>1, CountedRemoved, Zenon
  <2>5. \A i \in 1..(k - 1) : i \in 1..k /\ to_swarm'[i] = to_swarm[i]
    <3>1. \A i \in 1..(k - 1) : i \in 1..k
          BY <1>0
    <3> QED
          BY <2>2, <3>1, Zenon DEF CutAt
  <2>6. spoken[id] # "ping" => \A i \in 1..Len(to_swarm') : ~Plain(to_swarm'[i], id)
        BY <1>c, <2>3, <2>5, Zenon DEF Answerable, k
  <2> QED
        BY <1>d, <2>1, <2>3, <2>4, <2>6, Zenon DEF Answerable
<1>13. ASSUME NEW i \in StreamId, Update(i)
      PROVE  Answerable(d, to_swarm', id, spoken'[id], unanswered'[id], pinged'[id])
  <2> DEFINE f == WindowUpdate(i)
  <2>1. /\ f \in RequestFrame /\ to_node' = Append(to_node, f)
        /\ UNCHANGED <<to_swarm, spoken, unanswered, pinged>>
        BY <1>13, FramesTyped, Zenon DEF Update, Say
  <2>2. f.ty = "WindowUpdate" /\ f.payload = "empty"
        BY FrameFields, Zenon
  <2> HIDE DEF f
  <2>3. ~Asks(f, id)
        BY <2>2, Zenon DEF Asks
  <2> QED
        BY <1>10, <2>1, <2>3, Zenon
<1>9. CASE UNCHANGED yamuxVars
      BY <1>9, <1>c, Zenon DEF c, d, InFlight
<1> QED
      BY <1>1, <1>2, <1>3, <1>4, <1>5, <1>6, <1>7, <1>8, <1>9, <1>11, <1>12, <1>13, Zenon DEF YamuxNext

-----------------------------------------------------------------------------
(* Yamux: the probes are answered in their order. *)

\* n probes and answers to probes are among the frames c, the first k replies: they carry
\* the first n values of ps, in order.
Ordered(c, k, ps, n) == \E m \in 0..n : \E g \in [1..n -> 1..Len(c)] :
    Lists(g, c, k, 0, m, n) /\ \A x \in 1..n : c[g[x]].length = ps[x]

\* A list of the probes and their answers with the values shows that they are in order.
LEMMA OrderedIntro ==
    ASSUME NEW c, NEW k, NEW ps, NEW n \in Nat, NEW m, NEW g, Lists(g, c, k, 0, m, n),
           \A x \in 1..n : c[g[x]].length = ps[x]
    PROVE  Ordered(c, k, ps, n)
<1>1. m \in 0..n /\ g \in [1..n -> 1..Len(c)]
      BY Zenon DEF Lists
<1> QED
      BY <1>1, Zenon DEF Ordered

\* The list behind it.
Chain(g, c, k, ps, m, n) ==
    /\ Lists(g, c, k, 0, m, n)
    /\ \A x \in 1..n : c[g[x]].length = ps[x]
    /\ \A x \in 1..n : g[x] \in Nat /\ g[x] \in 1..Len(c)
    /\ \A x \in 1..n : g[x] <= k <=> x <= m
    /\ m \in Nat /\ m <= n

\* And there is one, where they are in order.
LEMMA OrderedElim ==
    ASSUME NEW c, NEW k, NEW ps, NEW n \in Nat, Ordered(c, k, ps, n), Len(c) \in Nat
    PROVE  \E m, g : Chain(g, c, k, ps, m, n)
<1>1. PICK m \in 0..n, g \in [1..n -> 1..Len(c)] :
          Lists(g, c, k, 0, m, n) /\ \A x \in 1..n : c[g[x]].length = ps[x]
      BY Zenon DEF Ordered
<1>2. Listed(g, c, k, 0, m, n)
      BY <1>1, ListsMeaning, Zenon
<1>3. /\ \A x \in 1..n : g[x] \in Nat /\ g[x] \in 1..Len(c)
      /\ \A x \in 1..n : g[x] <= k <=> x <= m
      /\ m \in Nat /\ m <= n
      BY <1>2, Zenon DEF Listed
<1>4. Chain(g, c, k, ps, m, n)
      BY <1>1, <1>3, Zenon DEF Chain
<1> QED
      BY <1>4, Zenon

\* When the swarm's side sends one more frame: a probe adds its value at the end.
LEMMA OrderedSaid ==
    ASSUME NEW c, NEW d, NEW f, NEW k \in Nat, NEW ps \in Seq(Opaque), NEW n \in Nat,
           Ordered(c, k, ps, n), n <= Len(ps), Len(c) \in Nat, k <= Len(c), Said(c, d, f)
    PROVE  /\ ~Asks(f, 0) => Ordered(d, k, ps, n)
           /\ Asks(f, 0) /\ n = Len(ps) /\ f.length \in Opaque =>
                Ordered(d, k, Append(ps, f.length), n + 1)
<1>0. PICK m, g : Chain(g, c, k, ps, m, n)
      BY OrderedElim, Zenon
<1>1. /\ Lists(g, c, k, 0, m, n)
      /\ \A x \in 1..n : c[g[x]].length = ps[x]
      /\ \A x \in 1..n : g[x] \in Nat /\ g[x] \in 1..Len(c)
      BY <1>0, Zenon DEF Chain
<1>2. Len(d) = Len(c) + 1 /\ d[Len(d)] = f /\ \A i \in 1..Len(c) : d[i] = c[i]
      BY Zenon DEF Said
<1>3. \A x \in 1..n : d[g[x]].length = ps[x]
      BY <1>1, <1>2, Zenon
<1>4. ASSUME ~Asks(f, 0) PROVE Ordered(d, k, ps, n)
  <2>1. Lists(g, d, k, 0, m, n)
        BY <1>1, <1>2, <1>4, ListsAppend, Zenon
  <2> QED
        BY <1>3, <2>1, OrderedIntro, Zenon
<1>5. ASSUME Asks(f, 0), n = Len(ps), f.length \in Opaque
      PROVE  Ordered(d, k, Append(ps, f.length), n + 1)
  <2> DEFINE h == [x \in 1..(n + 1) |-> IF x <= n THEN g[x] ELSE Len(d)]
             qs == Append(ps, f.length)
  <2>1. Lists(h, d, k, 0, m, n + 1)
        BY <1>1, <1>2, <1>5, ListsAppend, ZenonT(30)
  <2>2. \A x \in 1..n : qs[x] = ps[x]
    <3>1. \A x \in 1..Len(ps) : Append(ps, f.length)[x] = ps[x]
          BY <1>5, AppendProperties
    <3> QED
          BY <1>5, <3>1, Zenon
  <2>5. qs[n + 1] = f.length
        BY <1>5, AppendProperties
  <2>3. /\ \A x \in 1..n : h[x] = g[x]
        /\ h[n + 1] = Len(d)
        OBVIOUS
  <2> HIDE DEF h, qs
  <2>4. ASSUME NEW x \in 1..(n + 1) PROVE d[h[x]].length = qs[x]
    <3>1. CASE x \in 1..n
          BY <1>3, <2>2, <2>3, <3>1, Zenon
    <3>2. CASE x = n + 1
          BY <1>2, <2>3, <2>5, <3>2, Zenon
    <3>3. x \in 1..n \/ x = n + 1
          OBVIOUS
    <3> QED
          BY <3>1, <3>2, <3>3, Zenon
  <2>6. n + 1 \in Nat
        OBVIOUS
  <2> QED
        BY <2>1, <2>4, <2>6, OrderedIntro, Zenon DEF qs
<1> QED
      BY <1>4, <1>5, Zenon

\* When the swarm's side takes the first reply: an answer takes the first value.
LEMMA OrderedHeard ==
    ASSUME NEW c, NEW d, NEW k \in Nat, NEW ps \in Seq(Opaque), NEW n \in Nat,
           Ordered(c, k, ps, n), n <= Len(ps), Len(c) \in Nat, k >= 1, k <= Len(c), Heard(c, d)
    PROVE  /\ ~Asks(c[1], 0) => Ordered(d, k - 1, ps, n)
           /\ Asks(c[1], 0) => n >= 1 /\ Ordered(d, k - 1, Tail(ps), n - 1)
<1>0. PICK m, g : Chain(g, c, k, ps, m, n)
      BY OrderedElim, Zenon
<1>1. /\ Lists(g, c, k, 0, m, n)
      /\ \A x \in 1..n : c[g[x]].length = ps[x]
      /\ \A x \in 1..n : g[x] \in Nat /\ g[x] \in 1..Len(c)
      BY <1>0, Zenon DEF Chain
<1>2. Len(d) = Len(c) - 1 /\ \A i \in 1..Len(d) : d[i] = c[i + 1]
      BY Zenon DEF Heard
<1>4. ASSUME ~Asks(c[1], 0) PROVE Ordered(d, k - 1, ps, n)
  <2> DEFINE h == [x \in 1..n |-> g[x] - 1]
  <2>1. Lists(h, d, k - 1, 0, m, n)
        BY <1>1, <1>2, <1>4, ListsTail, Zenon
  <2>2. ASSUME NEW x \in 1..n PROVE d[h[x]].length = ps[x]
    <3>1. h[x] \in 1..Len(d)
          BY <2>1, Zenon DEF Lists
    <3>2. h[x] + 1 = g[x]
      <4>1. g[x] \in Nat
            BY <1>1, Zenon
      <4> QED
            BY <4>1
    <3> HIDE DEF h
    <3>3. d[h[x]] = c[h[x] + 1]
          BY <1>2, <3>1, Zenon
    <3> QED
          BY <1>1, <3>2, <3>3, Zenon
  <2> HIDE DEF h
  <2> QED
        BY <2>1, <2>2, OrderedIntro, Zenon
<1>5. ASSUME Asks(c[1], 0) PROVE n >= 1 /\ Ordered(d, k - 1, Tail(ps), n - 1)
  <2> DEFINE h == [x \in 1..(n - 1) |-> g[x + 1] - 1]
             qs == Tail(ps)
  <2>1. n >= 1 /\ Lists(h, d, k - 1, 0, m - 1, n - 1)
        BY <1>1, <1>2, <1>5, ListsTail, Zenon
  <2>2. ASSUME NEW x \in 1..(n - 1) PROVE d[h[x]].length = qs[x]
    <3>1. h[x] \in 1..Len(d)
          BY <2>1, Zenon DEF Lists
    <3>2. x + 1 \in 1..n /\ h[x] + 1 = g[x + 1]
      <4>1. x + 1 \in 1..n
            OBVIOUS
      <4>2. g[x + 1] \in Nat
            BY <1>1, <4>1, Zenon
      <4> QED
            BY <4>1, <4>2
    <3>4. qs[x] = ps[x + 1]
      <4>1. ps # <<>> /\ x \in 1..(Len(ps) - 1)
            BY LenProperties
      <4>2. \A i \in 1..(Len(ps) - 1) : qs[i] = ps[i + 1]
            BY <4>1, HeadTailProperties, Zenon
      <4> QED
            BY <4>1, <4>2, Zenon
    <3> HIDE DEF h, qs
    <3>3. d[h[x]] = c[h[x] + 1]
          BY <1>2, <3>1, Zenon
    <3> QED
          BY <1>1, <3>2, <3>3, <3>4, Zenon
  <2> HIDE DEF h, qs
  <2>3. n - 1 \in Nat
        BY <2>1
  <2> QED
        BY <2>1, <2>2, <2>3, OrderedIntro, Zenon DEF qs
<1> QED
      BY <1>4, <1>5, Zenon

\* When an answer takes the place of its probe.
LEMMA OrderedReplaced ==
    ASSUME NEW c, NEW d, NEW f, NEW k \in Nat, NEW ps, NEW n \in Nat, Ordered(c, k, ps, n),
           Len(c) \in Nat, Replaced(c, d, k, f), Asks(f, 0) <=> Asks(c[k + 1], 0),
           Asks(f, 0) => f.length = c[k + 1].length
    PROVE  Ordered(d, k + 1, ps, n)
<1>0. PICK m, g : Chain(g, c, k, ps, m, n)
      BY OrderedElim, Zenon
<1>1. /\ Lists(g, c, k, 0, m, n)
      /\ \A x \in 1..n : c[g[x]].length = ps[x]
      /\ \A x \in 1..n : g[x] \in Nat /\ g[x] \in 1..Len(c)
      BY <1>0, Zenon DEF Chain
<1>2. /\ Len(d) = Len(c) /\ k < Len(c) /\ d[k + 1] = f
      /\ \A i \in 1..Len(c) : i # k + 1 => d[i] = c[i]
      BY Zenon DEF Replaced
<1>3. PICK l \in 0..n : Lists(g, d, k + 1, 0, l, n)
      BY <1>1, <1>2, ListsReplace, Zenon
<1>4. ASSUME NEW x \in 1..n PROVE d[g[x]].length = ps[x]
  <2>1. CASE g[x] = k + 1
    <3>1. Asks(f, 0)
          BY <1>2, <1>3, <2>1, Zenon DEF Lists
    <3> QED
          BY <1>1, <1>2, <2>1, <3>1, Zenon
  <2>2. CASE g[x] # k + 1
        BY <1>1, <1>2, <2>2, Zenon
  <2> QED
        BY <2>1, <2>2, Zenon
<1> QED
      BY <1>3, <1>4, OrderedIntro, Zenon

\* When a request that is not a probe has no answer.
LEMMA OrderedRemoved ==
    ASSUME NEW c, NEW d, NEW k \in Nat, NEW ps, NEW n \in Nat, Ordered(c, k, ps, n),
           Len(c) \in Nat, Removed(c, d, k), ~Asks(c[k + 1], 0)
    PROVE  Ordered(d, k, ps, n)
<1>0. PICK m, g : Chain(g, c, k, ps, m, n)
      BY OrderedElim, Zenon
<1>1. /\ Lists(g, c, k, 0, m, n)
      /\ \A x \in 1..n : c[g[x]].length = ps[x]
      /\ \A x \in 1..n : g[x] \in Nat /\ g[x] \in 1..Len(c)
      /\ \A x \in 1..n : g[x] <= k <=> x <= m
      /\ m \in Nat /\ m <= n
      BY <1>0, Zenon DEF Chain
<1>2. /\ Len(d) = Len(c) - 1 /\ k < Len(c) /\ \A i \in 1..k : d[i] = c[i]
      /\ \A i \in (k + 1)..Len(d) : d[i] = c[i + 1]
      BY Zenon DEF Removed
<1> DEFINE h == Closer(g, m, n)
<1>3. Lists(h, d, k, 0, m, n)
  <2>1. Lists(g, c, k, 0, m, n)
        BY <1>1, Zenon
  <2> QED
        BY <1>2, <2>1, ListsRemove, Zenon
<1>4. ASSUME NEW x \in 1..n PROVE d[h[x]].length = ps[x]
  <2>1. /\ h[x] \in 1..Len(d) /\ (h[x] <= k <=> x <= m)
        BY <1>3, Zenon DEF Lists
  <2>2. g[x] \in Nat /\ h[x] = IF x <= m THEN g[x] ELSE g[x] - 1
        BY <1>1, Zenon DEF Closer
  <2>4. c[g[x]].length = ps[x]
        BY <1>1, Zenon
  <2> HIDE DEF h
  <2>3. d[h[x]] = c[g[x]]
    <3>1. CASE x <= m
      <4>1. h[x] \in 1..k /\ h[x] = g[x]
            BY <2>1, <2>2, <3>1
      <4> QED
            BY <1>2, <4>1
    <3>2. CASE ~(x <= m)
      <4>1. h[x] \in (k + 1)..Len(d) /\ h[x] + 1 = g[x]
            BY <1>2, <2>1, <2>2, <3>2
      <4> QED
            BY <1>2, <4>1, Zenon
    <3> QED
          BY <3>1, <3>2, Zenon
  <2> QED
        BY <2>3, <2>4, Zenon
<1> HIDE DEF h
<1> QED
      BY <1>3, <1>4, OrderedIntro, Zenon

\* When the requests that were not read are lost with the link.
LEMMA OrderedCut ==
    ASSUME NEW c, NEW d, NEW k \in Nat, NEW ps, NEW n \in Nat, Ordered(c, k, ps, n),
           Len(c) \in Nat, k <= Len(c), CutAt(c, d, k)
    PROVE  \E m \in Nat : m <= n /\ Ordered(d, k, ps, m)
<1>0. PICK m, g : Chain(g, c, k, ps, m, n)
      BY OrderedElim, Zenon
<1>1. /\ Lists(g, c, k, 0, m, n)
      /\ \A x \in 1..n : c[g[x]].length = ps[x]
      /\ \A x \in 1..n : g[x] \in Nat /\ g[x] \in 1..Len(c)
      /\ \A x \in 1..n : g[x] <= k <=> x <= m
      /\ m \in Nat /\ m <= n
      BY <1>0, Zenon DEF Chain
<1>2. Len(d) = k /\ \A i \in 1..k : d[i] = c[i]
      BY Zenon DEF CutAt
<1> DEFINE h == [x \in 1..m |-> g[x]]
<1>3. Lists(h, d, k, 0, m, m)
      BY <1>1, <1>2, ListsCut, ZenonT(30)
<1>4. ASSUME NEW x \in 1..m PROVE d[h[x]].length = ps[x]
  <2>0. m \in Nat /\ m <= n
        BY <1>1, Zenon
  <2>1. x \in 1..n /\ x <= m
        BY <2>0
  <2>2. h[x] = g[x] /\ g[x] \in Nat /\ g[x] <= k /\ c[g[x]].length = ps[x] /\ g[x] \in 1..Len(c)
        BY <1>1, <2>1, Zenon
  <2> HIDE DEF h
  <2>3. g[x] \in 1..k
        BY <2>2
  <2> QED
        BY <1>2, <2>2, <2>3, Zenon
<1> HIDE DEF h
<1>5. Ordered(d, k, ps, m)
      BY <1>1, <1>3, <1>4, OrderedIntro, Zenon
<1> QED
      BY <1>1, <1>5, Zenon

\* When the last reply is counted with the requests.
LEMMA OrderedSplit ==
    ASSUME NEW c, NEW k \in Nat, NEW ps, NEW n \in Nat, Ordered(c, k, ps, n),
           Len(c) \in Nat, k >= 1
    PROVE  Ordered(c, k - 1, ps, n)
<1>0. PICK m, g : Chain(g, c, k, ps, m, n)
      BY OrderedElim, Zenon
<1>1. Lists(g, c, k, 0, m, n) /\ \A x \in 1..n : c[g[x]].length = ps[x]
      BY <1>0, Zenon DEF Chain
<1>2. PICK l \in 0..n : Lists(g, c, k - 1, 0, l, n)
      BY <1>1, ListsSplit, Zenon
<1> QED
      BY <1>1, <1>2, OrderedIntro, Zenon

\* When a probe is sent that will have no answer.
LEMMA OrderedLonger ==
    ASSUME NEW c, NEW k \in Nat, NEW ps \in Seq(Opaque), NEW v \in Opaque, NEW n \in Nat,
           Ordered(c, k, ps, n), n <= Len(ps), Len(c) \in Nat
    PROVE  Ordered(c, k, Append(ps, v), n)
<1>0. PICK m, g : Chain(g, c, k, ps, m, n)
      BY OrderedElim, Zenon
<1>1. Lists(g, c, k, 0, m, n) /\ \A x \in 1..n : c[g[x]].length = ps[x]
      BY <1>0, Zenon DEF Chain
<1>2. \A x \in 1..n : x \in 1..Len(ps)
      BY LenProperties
<1>3. \A x \in 1..Len(ps) : Append(ps, v)[x] = ps[x]
      BY AppendProperties
<1>4. \A x \in 1..n : c[g[x]].length = Append(ps, v)[x]
      BY <1>1, <1>2, <1>3, Zenon
<1> QED
      BY <1>1, <1>4, OrderedIntro, Zenon

\* ProbesInOrder in terms of Ordered.
LEMMA ProbesMeaning ==
    ProbesInOrder <=> \E n \in 0..Len(probes) :
        Ordered(Awaited, Len(to_swarm), probes, n) /\ ((link = "up" /\ writing) => n = Len(probes))
BY Zenon DEF ProbesInOrder, Ordered

\* Every step keeps ProbesInOrder.
LEMMA YamuxNextProbes ==
    ASSUME YamuxInv, [YamuxNext]_yamuxVars
    PROVE  ProbesInOrder'
<1> USE DEF nodeVars, swarmVars, yamuxVars
<1> DEFINE c == Awaited
           d == Awaited'
           k == Len(to_swarm)
<1>0. /\ YamuxTypes /\ probes \in Seq(Opaque) /\ Len(probes) \in Nat /\ writing \in BOOLEAN
      /\ to_node \in Seq(RequestFrame) /\ to_swarm \in Seq(ReplyFrame)
      /\ Len(c) \in Nat /\ k \in Nat /\ k <= Len(c) /\ CutAt(c, to_swarm, k)
  <2>1. YamuxTypes /\ probes \in Seq(Opaque) /\ Len(probes) \in Nat /\ writing \in BOOLEAN
        BY LenProperties, Zenon DEF YamuxInv, YamuxTypes
  <2>2. /\ to_node \in Seq(RequestFrame) /\ to_swarm \in Seq(ReplyFrame)
        /\ Len(InFlight) \in Nat /\ k \in Nat /\ Len(to_node) \in Nat
        /\ Len(InFlight) = k + Len(to_node) /\ \A i \in 1..k : InFlight[i] = to_swarm[i]
        BY <2>1, FlightNow, Zenon
  <2> HIDE DEF k
  <2>3. k <= Len(InFlight) /\ k <= k
        BY <2>2
  <2>4. /\ Len(c) \in Nat /\ k <= Len(c)
    <3>1. CASE writing
          BY <2>2, <2>3, <3>1, Zenon DEF Awaited
    <3>2. CASE ~writing
          BY <2>2, <2>3, <3>2, Zenon DEF Awaited, k
    <3> QED
          BY <3>1, <3>2, Zenon
  <2>5. CutAt(c, to_swarm, k)
    <3>1. CASE writing
          BY <2>2, <3>1, Zenon DEF Awaited, CutAt, k
    <3>2. CASE ~writing
          BY <3>2, Zenon DEF Awaited, CutAt, k
    <3> QED
          BY <3>1, <3>2, Zenon
  <2> QED
        BY <2>1, <2>2, <2>4, <2>5, Zenon
<1>w. /\ writing => c = InFlight /\ Len(InFlight) = Len(c)
      /\ writing' => d = InFlight'
      /\ ~writing => c = to_swarm
      /\ ~writing' => d = to_swarm'
      BY Zenon DEF Awaited
<1>a. PICK n \in 0..Len(probes) :
          Ordered(c, k, probes, n) /\ ((link = "up" /\ writing) => n = Len(probes))
      BY ProbesMeaning, Zenon DEF YamuxInv
<1>n. n \in Nat /\ n <= Len(probes)
      BY <1>0
<1>b. ASSUME NEW l \in Nat, l <= Len(probes'), Len(probes') \in Nat,
             Ordered(d, Len(to_swarm'), probes', l),
             (link' = "up" /\ writing') => l = Len(probes')
      PROVE  ProbesInOrder'
  <2>1. l \in 0..Len(probes')
        BY <1>b
  <2>2. ProbesInOrder' <=> \E i \in 0..Len(probes') :
            Ordered(d, Len(to_swarm'), probes', i) /\ ((link' = "up" /\ writing') => i = Len(probes'))
        BY Zenon DEF ProbesInOrder, Ordered
  <2> QED
        BY <1>b, <2>1, <2>2, Zenon
<1> HIDE DEF c, d, k
<1>e. ASSUME ~writing', UNCHANGED <<to_swarm, probes>>
      PROVE  ProbesInOrder'
  <2>1. CutAt(c, d, k)
        BY <1>0, <1>e, <1>w, Zenon
  <2>2. PICK m \in Nat : m <= n /\ Ordered(d, k, probes, m)
        BY <1>0, <1>a, <1>n, <2>1, OrderedCut, Zenon
  <2>3. m <= Len(probes)
        BY <1>0, <1>n, <2>2
  <2> QED
        BY <1>0, <1>b, <1>e, <2>2, <2>3, Zenon DEF k
<1>1. CASE Process
  <2> DEFINE f == Head(to_node)
  <2>1. UNCHANGED <<probes, link, writing>> /\ to_node # <<>>
        BY <1>1, Zenon DEF Process
  <2>7. CASE ~writing
    <3>1. Silent
          BY <1>0, <1>1, <2>7, ProcessCases, Zenon
    <3> QED
          BY <1>e, <2>1, <2>7, <3>1, Zenon DEF Silent
  <2>8. SUFFICES ASSUME writing PROVE ProbesInOrder'
        BY <1>0, <2>7, Zenon
  <2>2. c[k + 1] = f
        BY <1>0, <1>w, <2>1, <2>8, FlightNow, Zenon DEF k
  <2>3. f \in RequestFrame
        BY <1>0, <2>1, HeadTailProperties, Zenon
  <2> HIDE DEF f
  <2>9. Asks(f, 0) <=> f.ty = "Ping"
        BY <2>3, RequestCases, Zenon DEF Asks
  <2>4. CASE to_swarm' = to_swarm /\ Removed(c, d, k) /\ f.ty # "Ping"
    <3>1. Ordered(d, k, probes, n)
          BY <1>0, <1>a, <1>n, <2>2, <2>4, <2>9, OrderedRemoved, Zenon
    <3> QED
          BY <1>0, <1>a, <1>b, <1>n, <2>1, <2>4, <3>1, Zenon DEF k
  <2>5. CASE \E a \in ReplyFrame : /\ to_swarm' = to_swarm \o <<a>> /\ Answered(a, f)
                                   /\ Replaced(c, d, k, a)
    <3>1. PICK a \in ReplyFrame : /\ to_swarm' = to_swarm \o <<a>> /\ Answered(a, f)
                                  /\ Replaced(c, d, k, a)
          BY <2>5, Zenon
    <3>2. (Asks(a, 0) <=> Asks(c[k + 1], 0)) /\ (Asks(a, 0) => a.length = c[k + 1].length)
          BY <2>2, <2>9, <3>1, Zenon DEF Answered
    <3>3. Len(to_swarm') = k + 1
          BY <1>0, <2>1, <3>1, FlightReplaced, Zenon DEF k
    <3>4. Ordered(d, k + 1, probes, n)
          BY <1>0, <1>a, <1>n, <3>1, <3>2, OrderedReplaced, Zenon
    <3> QED
          BY <1>0, <1>a, <1>b, <1>n, <2>1, <3>3, <3>4, Zenon
  <2> QED
        BY <1>0, <1>1, <1>w, <2>1, <2>4, <2>5, <2>8, ProcessFlight, Zenon DEF k, f
<1>2. CASE OnDisconnectPeer
  <2>1. d = c /\ UNCHANGED <<probes, to_swarm>> /\ link' # "up"
        BY <1>2, Zenon DEF OnDisconnectPeer, c, d, Awaited, InFlight
  <2> QED
        BY <1>0, <1>a, <1>b, <1>n, <2>1, Zenon DEF k
<1>3. CASE LinkDown
      BY <1>3, <1>e, Zenon DEF LinkDown
<1>4. CASE Hear
  <2> DEFINE f == Head(to_swarm)
  <2>1. /\ to_swarm # <<>> /\ to_swarm' = Tail(to_swarm) /\ UNCHANGED <<to_node, link, writing>>
        /\ probes' = IF f.ty = "Ping" THEN Tail(probes) ELSE probes
        BY <1>4, Zenon DEF Hear
  <2>2. /\ Heard(c, d) /\ k >= 1 /\ c[1] = f /\ Len(to_swarm') = k - 1
        /\ f \in ReplyFrame
    <3>1. CASE writing
      <4>1. c = to_swarm \o to_node /\ d = Tail(to_swarm) \o to_node
            BY <1>w, <2>1, <3>1, Zenon DEF InFlight
      <4> QED
            BY <1>0, <2>1, <4>1, FlightHeard, Zenon DEF k
    <3>2. CASE ~writing
      <4>1. /\ <<>> \in Seq(RequestFrame) /\ Tail(to_swarm) \in Seq(ReplyFrame)
            BY <1>0, <2>1, EmptySeq, HeadTailProperties, Zenon
      <4>2. c = to_swarm \o <<>> /\ d = Tail(to_swarm) \o <<>>
            BY <1>0, <1>w, <2>1, <3>2, <4>1, ConcatEmptySeq, Zenon
      <4> QED
            BY <1>0, <2>1, <4>1, <4>2, FlightHeard, Zenon DEF k
    <3> QED
          BY <1>0, <3>1, <3>2, Zenon
  <2> HIDE DEF f
  <2>3. Asks(f, 0) <=> f.ty = "Ping"
        BY <2>2, ReplyCases, Zenon DEF Asks
  <2>4. /\ ~Asks(f, 0) => Ordered(d, k - 1, probes, n)
        /\ Asks(f, 0) => n >= 1 /\ Ordered(d, k - 1, Tail(probes), n - 1)
        BY <1>0, <1>a, <1>n, <2>2, OrderedHeard, Zenon
  <2>5. CASE f.ty = "Ping"
    <3>1. probes # <<>> /\ n - 1 \in Nat
          BY <1>0, <1>n, <2>3, <2>4, <2>5
    <3>2. Len(Tail(probes)) = Len(probes) - 1
          BY <1>0, <3>1, HeadTailProperties, Zenon
    <3>3. probes' = Tail(probes)
          BY <2>1, <2>5, Zenon
    <3>4. n - 1 <= Len(probes') /\ Len(probes') \in Nat /\ ((link' = "up" /\ writing') => n - 1 = Len(probes'))
      <4>1. Len(probes') = Len(probes) - 1 /\ n <= Len(probes) /\ n >= 1
        <5>1. Len(probes') = Len(probes) - 1
              BY <3>2, <3>3, Zenon
        <5>2. n >= 1
              BY <2>3, <2>4, <2>5, Zenon
        <5> QED
              BY <1>n, <5>1, <5>2, Zenon
      <4>2. (link' = "up" /\ writing') => n = Len(probes)
            BY <1>a, <2>1, Zenon
      <4> QED
            BY <1>0, <1>n, <4>1, <4>2
    <3> QED
          BY <1>b, <2>2, <2>3, <2>4, <2>5, <3>1, <3>3, <3>4, ZenonT(30)
  <2>6. CASE f.ty # "Ping"
        BY <1>0, <1>a, <1>b, <1>n, <2>1, <2>2, <2>3, <2>4, <2>6, ZenonT(30)
  <2> QED
        BY <2>5, <2>6, Zenon
<1>10. ASSUME NEW f \in RequestFrame, f.stream_id \in StreamId, to_node' = Append(to_node, f),
              UNCHANGED <<to_swarm, probes, link, writing>>
       PROVE  ProbesInOrder'
  <2>0. SUFFICES ASSUME writing PROVE ProbesInOrder'
        BY <1>0, <1>10, <1>e, Zenon
  <2>1. Said(c, d, f)
        BY <1>0, <1>10, <1>w, <2>0, FlightSaid, Zenon DEF InFlight
  <2>2. ~Asks(f, 0)
        BY <1>10, Zenon DEF Asks
  <2>3. Ordered(d, k, probes, n)
        BY <1>0, <1>a, <1>n, <2>1, <2>2, OrderedSaid, Zenon
  <2> QED
        BY <1>0, <1>10, <1>a, <1>b, <1>n, <2>3, Zenon DEF k
<1>5. ASSUME NEW i \in StreamId, Ping(i) PROVE ProbesInOrder'
  <2> DEFINE f == Data(i, {}, "payload")
  <2>1. /\ f \in RequestFrame /\ to_node' = Append(to_node, f)
        /\ UNCHANGED <<to_swarm, probes, link, writing>>
        BY <1>5, FramesTyped, Zenon DEF Ping, Say
  <2>2. f.stream_id = i
        BY FrameFields
  <2> HIDE DEF f
  <2> QED
        BY <1>10, <2>1, <2>2, Zenon
<1>6. ASSUME NEW i \in StreamId, NEW protocol \in Protocols, Open(i, protocol) PROVE ProbesInOrder'
  <2> DEFINE f == Data(i, {"Syn"}, protocol)
  <2>1. /\ f \in RequestFrame /\ to_node' = Append(to_node, f)
        /\ UNCHANGED <<to_swarm, probes, link, writing>>
        BY <1>6, FramesTyped, Zenon DEF Open, Say
  <2>2. f.stream_id = i
        BY FrameFields
  <2> HIDE DEF f
  <2> QED
        BY <1>10, <2>1, <2>2, Zenon
<1>7. ASSUME NEW i \in StreamId, NEW flag \in {"Fin", "Rst"}, Close(i, flag) PROVE ProbesInOrder'
  <2> DEFINE f == Data(i, {flag}, "empty")
  <2>1. f \in RequestFrame
        BY FramesTyped, Zenon
  <2>2. to_node' = Append(to_node, f) /\ UNCHANGED <<to_swarm, probes, link, writing>>
        BY <1>7, Zenon DEF Close, Say
  <2>3. f.stream_id = i
        BY FrameFields
  <2> HIDE DEF f
  <2> QED
        BY <1>10, <2>1, <2>2, <2>3, Zenon
<1>8. ASSUME NEW opaque \in Opaque, KeepAlive(opaque) PROVE ProbesInOrder'
  <2> DEFINE f == SessionPing({"Syn"}, opaque)
  <2>1. /\ f \in RequestFrame /\ to_node' = Append(to_node, f)
        /\ UNCHANGED <<to_swarm, link, writing>> /\ link = "up"
        /\ probes' = Append(probes, opaque)
        BY <1>8, FramesTyped, ZenonT(30) DEF KeepAlive, Say
  <2>2. f.stream_id = 0 /\ f.ty = "Ping" /\ f.length = opaque
        BY FrameFields
  <2> HIDE DEF f
  <2>3. Asks(f, 0)
        BY <2>2, Zenon DEF Asks
  <2>5. Len(probes') = Len(probes) + 1
        BY <1>0, <2>1, AppendProperties, Zenon
  <2>6. Len(probes') \in Nat /\ n + 1 \in Nat /\ n + 1 <= Len(probes') /\ n <= Len(probes')
        BY <1>0, <1>n, <2>5
  <2>7. CASE writing
    <3>1. Said(c, d, f)
          BY <1>0, <1>w, <2>1, <2>7, FlightSaid, Zenon DEF InFlight
    <3>2. n = Len(probes)
          BY <1>a, <2>1, <2>7, Zenon
    <3>3. Ordered(d, k, Append(probes, opaque), n + 1)
          BY <1>0, <1>a, <1>n, <2>2, <2>3, <3>1, <3>2, OrderedSaid, Zenon
    <3>4. n + 1 = Len(probes')
          BY <2>5, <3>2, Zenon
    <3> QED
          BY <1>b, <2>1, <2>6, <3>3, <3>4, Zenon DEF k
  <2>8. CASE ~writing
    <3>1. d = c /\ ~writing'
          BY <1>w, <2>1, <2>8, Zenon
    <3>2. Ordered(d, k, Append(probes, opaque), n)
          BY <1>0, <1>a, <1>n, <3>1, OrderedLonger, Zenon
    <3> QED
          BY <1>b, <1>n, <2>1, <2>6, <3>1, <3>2, Zenon DEF k
  <2> QED
        BY <1>0, <2>7, <2>8, Zenon
<1>11. CASE WriterEnds
      BY <1>11, <1>e, Zenon DEF WriterEnds
<1>12. CASE Unwritten
  <2>1. /\ to_swarm # <<>> /\ to_swarm' = SubSeq(to_swarm, 1, Len(to_swarm) - 1)
        /\ ~writing /\ ~writing' /\ UNCHANGED probes
        BY <1>12, Zenon DEF Unwritten
  <2>2. k >= 1 /\ k - 1 \in Nat /\ CutAt(c, d, k - 1) /\ Len(to_swarm') = k - 1
    <3>1. k >= 1 /\ k - 1 \in Nat /\ CutAt(to_swarm, to_swarm', k - 1)
          BY <1>0, <2>1, AllButLast, Zenon DEF k
    <3> QED
          BY <1>w, <2>1, <3>1, Zenon DEF CutAt
  <2>3. k - 1 <= Len(c)
        BY <1>0
  <2>4. Ordered(c, k - 1, probes, n)
        BY <1>0, <1>a, <1>n, <2>2, OrderedSplit, Zenon
  <2>5. PICK m \in Nat : m <= n /\ Ordered(d, k - 1, probes, m)
        BY <1>0, <1>n, <2>2, <2>3, <2>4, OrderedCut, Zenon
  <2>6. m <= Len(probes)
        BY <1>0, <1>n, <2>5
  <2> QED
        BY <1>0, <1>b, <2>1, <2>2, <2>5, <2>6, Zenon
<1>13. ASSUME NEW i \in StreamId, Update(i) PROVE ProbesInOrder'
  <2> DEFINE f == WindowUpdate(i)
  <2>1. /\ f \in RequestFrame /\ to_node' = Append(to_node, f)
        /\ UNCHANGED <<to_swarm, probes, link, writing>>
        BY <1>13, FramesTyped, Zenon DEF Update, Say
  <2>2. f.stream_id = i
        BY FrameFields, Zenon
  <2> HIDE DEF f
  <2> QED
        BY <1>10, <2>1, <2>2, Zenon
<1>9. CASE UNCHANGED yamuxVars
  <2>1. d = c /\ UNCHANGED <<probes, to_swarm, link, writing>>
        BY <1>9, Zenon DEF c, d, Awaited, InFlight
  <2> QED
        BY <1>0, <1>a, <1>b, <1>n, <2>1, Zenon DEF k
<1> QED
      BY <1>1, <1>2, <1>3, <1>4, <1>5, <1>6, <1>7, <1>8, <1>9, <1>11, <1>12, <1>13, ZenonT(30) DEF YamuxNext

-----------------------------------------------------------------------------
(* Yamux: theorems. *)

\* A new connection: nothing is in flight, and the swarm has no stream.
LEMMA YamuxInitInv == YamuxInit => YamuxInv
<1> SUFFICES ASSUME YamuxInit PROVE YamuxInv
      BY Zenon
<1>1. InFlight = <<>> /\ to_node = <<>> /\ to_swarm = <<>> /\ probes = <<>> /\ Awaited = InFlight
      BY DEF YamuxInit, InFlight, Awaited
<1>2. YamuxTypes
  <2>1. <<>> \in Seq(RequestFrame) /\ <<>> \in Seq(ReplyFrame) /\ <<>> \in Seq(Opaque)
        BY EmptySeq, Zenon
  <2>2. Len(to_node) + Len(to_swarm) <= MaxInFlight
        BY <1>1
  <2> QED
        BY <2>1, <2>2 DEF YamuxInit, YamuxTypes, Protocols
<1>3. Len(InFlight) = 0 /\ Len(to_node) = 0 /\ Len(to_swarm) = 0 /\ Len(probes) = 0
      BY <1>1, Zenon
<1>4. \A i \in 1..Len(InFlight) : FALSE
      BY <1>3
<1>5. \A i \in 1..Len(to_node) : FALSE
      BY <1>3
<1>6. \A i \in 1..Len(to_swarm) : FALSE
      BY <1>3
<1>7. OpenedOnce
      BY <1>4, Zenon DEF OpenedOnce
<1>8. EndIsLast
      BY <1>5, Zenon DEF EndIsLast
<1>9. StreamsFollow
      BY <1>5, Zenon DEF StreamsFollow, YamuxInit, Announced
<1>10. AnswersCounted
  <2>1. ASSUME NEW id \in StreamId
        PROVE  unanswered[id] <= pinged[id] /\ spoken[id] # "ping"
        BY DEF YamuxInit
  <2> QED
        BY <1>6, <2>1, Zenon DEF AnswersCounted
<1>11. ProbesInOrder
  <2> DEFINE g == [x \in 1..0 |-> 1]
  <2>1. g \in [1..0 -> 1..Len(InFlight)]
        OBVIOUS
  <2>2. Lists(g, InFlight, Len(to_swarm), 0, 0, 0)
        BY <1>4, <2>1 DEF Lists
  <2>3. \A x \in 1..0 : InFlight[g[x]].length = probes[x]
        OBVIOUS
  <2> HIDE DEF g
  <2>4. Ordered(InFlight, Len(to_swarm), probes, 0)
        BY <2>2, <2>3, OrderedIntro, Zenon
  <2> QED
        BY <1>1, <1>3, <2>4, ProbesMeaning
<1> QED
      BY <1>2, <1>7, <1>8, <1>9, <1>10, <1>11, Zenon DEF YamuxInv

\* Whatever the two ends do and whenever the connection ends, the frames in flight are the
\* requests not yet processed behind the replies not yet heard, each reply in the place of
\* its request (process_message, process_event).
THEOREM YamuxInductive == YamuxSpec => []YamuxInv
<1>1. YamuxInv /\ [YamuxNext]_yamuxVars => YamuxInv'
  <2> SUFFICES ASSUME YamuxInv, [YamuxNext]_yamuxVars PROVE YamuxInv'
        BY Zenon
  <2> QED
        BY YamuxNextTypes, YamuxNextOpened, YamuxNextEnds, YamuxNextFollow, YamuxNextAnswers,
           YamuxNextProbes, Zenon DEF YamuxInv
<1> QED
      BY <1>1, YamuxInitInv, PTL DEF YamuxSpec

\* A reply is one the swarm waits for, and once nothing is in flight both ends have the same
\* streams, for any number of streams, frames and pings (process_message, process_event).
THEOREM YamuxStreamsAgree == YamuxSpec => []StreamsAgree
<1>1. YamuxInv => StreamsAgree
  <2> SUFFICES ASSUME YamuxInv PROVE StreamsAgree
        BY Zenon
  <2> DEFINE f == Head(to_swarm)
  <2>1. ASSUME to_swarm # <<>>
        PROVE  IF f.ty = "Ping" THEN probes # <<>> /\ f.length = Head(probes)
               ELSE \/ remote[f.stream_id] = "reset"
                    \/ /\ decode_flags(f.flags) = {"Ack"} /\ remote[f.stream_id] = "opening"
                       /\ f.payload = spoken[f.stream_id]
                    \/ decode_flags(f.flags) = {"Fin"} /\ remote[f.stream_id] = "closing"
                    \/ decode_flags(f.flags) = {} /\ unanswered[f.stream_id] > 0
                    \/ /\ decode_flags(f.flags) = {} /\ f.payload = "empty"
                       /\ spoken[f.stream_id] = "ping"
    <3> HIDE DEF f
    <3>1. \/ f.ty = "Ping" /\ Len(probes) >= 1 /\ f.length = probes[1]
          \/ /\ f.ty = "Data"
             /\ \/ /\ f.flags = 2 /\ f.payload = spoken[f.stream_id]
                   /\ remote[f.stream_id] \in {"opening", "reset"}
                \/ f.flags = 4 /\ remote[f.stream_id] = "closing"
                \/ f.flags = 0 /\ unanswered[f.stream_id] > 0
                \/ f.flags = 0 /\ f.payload = "empty" /\ spoken[f.stream_id] = "ping"
          BY <2>1, FirstReply, Zenon DEF f
    <3>2. CASE f.ty = "Ping"
      <4>1. probes \in Seq(Opaque) /\ probes # <<>>
            BY <3>1, <3>2 DEF YamuxInv, YamuxTypes
      <4>2. Head(probes) = probes[1]
            BY <4>1, HeadTailProperties
      <4> QED
            BY <3>1, <3>2, <4>1, <4>2, Zenon
    <3>3. CASE f.ty # "Ping"
          BY <3>1, <3>3, FlagValues, Zenon
    <3> QED
          BY <3>2, <3>3, Zenon
  <2>2. ASSUME link = "up", to_node = <<>>, to_swarm = <<>>
        PROVE  streams = {[id |-> id, protocol |-> spoken[id]] :
                              id \in {id \in StreamId : remote[id] \in {"opening", "open"}}}
    <3>1. \A i \in 1..Len(to_node) : FALSE
          BY <2>2
    <3>2. streams \subseteq [id : StreamId, protocol : Protocols]
          BY Zenon DEF YamuxInv, YamuxTypes
    <3>3. \A s \in streams : s.protocol = spoken[s.id]
          BY Zenon DEF YamuxInv, StreamsFollow
    <3>4. \A id \in StreamId : remote[id] \in {"opening", "open"} <=> \E s \in streams : s.id = id
          BY <2>2, <3>1, Zenon DEF YamuxInv, StreamsFollow, Announced
    <3>5. \A s \in streams : s = [id |-> s.id, protocol |-> spoken[s.id]] /\ s.id \in StreamId
          BY <3>2, <3>3
    <3> QED
          BY <3>4, <3>5
  <2> QED
        BY <2>1, <2>2, Zenon DEF StreamsAgree
<1> QED
      BY <1>1, YamuxInductive, PTL

\* The node keeps streams of known protocols only, and no stream has more pings to answer
\* than were sent.
THEOREM YamuxTyped == YamuxSpec => []YamuxTypeOK
<1>1. YamuxInv => YamuxTypeOK
      BY Zenon DEF YamuxInv, YamuxTypes, YamuxTypeOK
<1> QED
      BY <1>1, YamuxInductive, PTL

=============================================================================
